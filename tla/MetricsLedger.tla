---------------------------- MODULE MetricsLedger ----------------------------
(***************************************************************************)
(* How a record reaches the ledger on the ai-agile/metrics branch.         *)
(*                                                                         *)
(* A writer (an orchestrator process, an aggregation script) fetches the   *)
(* tip of the branch, builds a commit that holds the whole file plus its   *)
(* record, and pushes it.  The server accepts a push only onto the tip it  *)
(* was built on; a rejected writer fetches again while it has retries.     *)
(* Fetches and pushes fail, answers get lost, a push outlives the script   *)
(* that started it, writers crash.                                         *)
(***************************************************************************)
EXTENDS Integers, Sequences, FiniteSets

CONSTANTS
    Writers,      \* the processes that append records
    MaxRetries,   \* AI_AGILE_METRICS_RETRIES of an ordinary record
    MaxAppends,   \* bound: how many records a writer appends
    MaxFaults     \* bound: how many calls fail, get lost, or crashes there are

ASSUME LedgerAssumption == {MaxRetries, MaxAppends, MaxFaults} \subseteq Nat

VARIABLES
    exists,     \* the branch is there
    schema,     \* the commit at its tip holds the schema file
    log,        \* the records of the file on the branch, oldest first
    pc,         \* where each writer is
    wrote,      \* how many appends each writer has begun
    left,       \* how many retries its present append has left
    base,       \* the commit its own is built on: {} when it saw no branch
    orphan,     \* a push that outlives its script: {} or {[base, record]}
    answer,     \* what the script told the caller about the last append

    unheard,    \* history: pushes that landed, or may yet, and were not answered
    lost,       \* history: pushes of this append rejected without a fault of its own
    rivals,     \* history: changes of the branch by others during this append
    faults

branch  == <<exists, schema, log>>
writer  == <<pc, wrote, left, base, orphan, answer>>
history == <<unheard, lost, rivals>>
vars    == <<branch, writer, history, faults>>

\* The k-th record of a writer: its cycle_id makes it unlike any other.
Record == Writers \X (1..MaxAppends)

Mine(w) == <<w, wrote[w]>>

\* A commit of the branch is what it holds: the file of records, the schema.
Commit == Seq(Record) \X BOOLEAN

TypeOK ==
    /\ exists \in BOOLEAN
    /\ schema \in BOOLEAN
    /\ log \in Seq(Record)
    /\ pc \in [Writers -> {"idle", "ensure", "schema", "fetch", "push"}]
    /\ wrote \in [Writers -> 0..MaxAppends]
    /\ left \in [Writers -> 0..MaxRetries]
    /\ base \in [Writers -> SUBSET Commit]
    /\ orphan \in [Writers -> SUBSET [base : SUBSET Commit, record : Record]]
    /\ answer \in [Writers -> {"none", "appended", "refused"}]
    /\ unheard \in [Writers -> Nat]
    /\ lost \in [Writers -> Nat]
    /\ rivals \in [Writers -> Nat]
    /\ faults \in 0..MaxFaults

Init ==
    /\ exists \in BOOLEAN
    /\ schema = exists
    /\ log = <<>>
    /\ pc = [w \in Writers |-> "idle"]
    /\ wrote = [w \in Writers |-> 0]
    /\ left = [w \in Writers |-> 0]
    /\ base = [w \in Writers |-> {}]
    /\ orphan = [w \in Writers |-> {}]
    /\ answer = [w \in Writers |-> "none"]
    /\ unheard = [w \in Writers |-> 0]
    /\ lost = [w \in Writers |-> 0]
    /\ rivals = [w \in Writers |-> 0]
    /\ faults = 0

----------------------------------------------------------------------------
GoTo(w, place) == pc' = [pc EXCEPT ![w] = place]

Fault == faults < MaxFaults /\ faults' = faults + 1

\* What git fetch finds at the tip, and what a push is compared with.
Tip == IF exists THEN {<<log, schema>>} ELSE {}

\* The commit a push brings: the whole file with the record at its end, next
\* to what else its parent holds; without a parent, the record alone.
Built(onto, record) ==
    IF onto = {} THEN <<<<record>>, FALSE>>
    ELSE LET parent == CHOOSE commit \in onto : TRUE
         IN  <<Append(parent[1], record), parent[2]>>

\* Mutant of FastForward: a push with a parent is accepted onto any tip.
ForcedPush(onto) == onto = Tip \/ (onto # {} /\ exists)

\* The server takes a commit only when its parent is the tip.
FastForward(onto) == onto = Tip

\* The branch moves: every append but the mover's has one more rival.
Moves(mover) == rivals' = [w \in Writers |-> IF w \in mover THEN rivals[w] ELSE rivals[w] + 1]

\* A push is accepted.
Land(mover, onto, record) ==
    /\ FastForward(onto)
    /\ log' = Built(onto, record)[1]
    /\ schema' = Built(onto, record)[2]
    /\ exists' = TRUE
    /\ Moves(mover)

----------------------------------------------------------------------------
(* The caller *)

\* An append is asked for: a claim may not be retried, any other record may;
\* a release does not make sure of the branch first.
Start(w) ==
    /\ pc[w] = "idle"
    /\ wrote[w] < MaxAppends
    /\ wrote' = [wrote EXCEPT ![w] = @ + 1]
    /\ \E place \in {"ensure", "fetch"}, retries \in {0, MaxRetries} :
          /\ GoTo(w, place)
          /\ left' = [left EXCEPT ![w] = retries]
    /\ base' = [base EXCEPT ![w] = {}]
    /\ answer' = [answer EXCEPT ![w] = "none"]
    /\ lost' = [lost EXCEPT ![w] = 0]
    /\ rivals' = [rivals EXCEPT ![w] = 0]
    /\ UNCHANGED <<branch, orphan, unheard, faults>>

\* The branch is there, or somebody else has just created it.
EnsureFinds(w) ==
    /\ pc[w] = "ensure"
    /\ exists
    /\ GoTo(w, "fetch")
    /\ UNCHANGED <<branch, wrote, left, base, orphan, answer, history, faults>>

\* It is created from the default branch, and given the schema file.
EnsureCreates(w) ==
    /\ pc[w] = "ensure"
    /\ ~exists
    /\ exists' = TRUE
    /\ Moves({w})
    /\ GoTo(w, "schema")
    /\ UNCHANGED <<schema, log, wrote, left, base, orphan, answer, unheard, lost, faults>>

PutSchema(w) ==
    /\ pc[w] = "schema"
    /\ schema' = TRUE
    /\ Moves({w})
    /\ GoTo(w, "fetch")
    /\ UNCHANGED <<exists, log, wrote, left, base, orphan, answer, unheard, lost, faults>>

\* Without the schema file the append goes on.
PutSchemaFails(w) ==
    /\ Fault
    /\ pc[w] = "schema"
    /\ GoTo(w, "fetch")
    /\ UNCHANGED <<branch, wrote, left, base, orphan, answer, history>>

\* A failed read of the default branch is only logged; any other failure is
\* raised, and the append with it is given up.
EnsureFails(w) ==
    /\ Fault
    /\ pc[w] = "ensure"
    /\ \/ GoTo(w, "fetch") /\ UNCHANGED answer
       \/ GoTo(w, "idle") /\ answer' = [answer EXCEPT ![w] = "refused"]
    /\ UNCHANGED <<branch, wrote, left, base, orphan, history>>

----------------------------------------------------------------------------
(* The script *)

\* Mutant of Fetched: a retry goes on with the tip of the first attempt.
FetchedOnce(w) == IF base[w] = {} THEN Tip ELSE base[w]

Fetched(w) == Tip

Fetch(w) ==
    /\ pc[w] = "fetch"
    /\ base' = [base EXCEPT ![w] = Fetched(w)]
    /\ GoTo(w, "push")
    /\ UNCHANGED <<branch, wrote, left, orphan, answer, history, faults>>

\* A failed fetch counts as a missing branch: the commit has no parent.
FetchFails(w) ==
    /\ Fault
    /\ pc[w] = "fetch"
    /\ base' = [base EXCEPT ![w] = {}]
    /\ GoTo(w, "push")
    /\ UNCHANGED <<branch, wrote, left, orphan, answer, history>>

\* Mutant of Succeed: the loop goes on after a push that was accepted.
SucceedAndRepeat(w) ==
    /\ GoTo(w, IF left[w] > 0 THEN "fetch" ELSE "idle")
    /\ left' = [left EXCEPT ![w] = IF @ > 0 THEN @ - 1 ELSE 0]
    /\ answer' = [answer EXCEPT ![w] = "appended"]

\* The push was accepted: the script says so and ends.
Succeed(w) ==
    /\ GoTo(w, "idle")
    /\ answer' = [answer EXCEPT ![w] = "appended"]
    /\ UNCHANGED left

\* Mutant of TryAgain: out of retries, the script ends as if it had succeeded.
TryAgainOrPretend(w) ==
    \/ /\ left[w] > 0
       /\ left' = [left EXCEPT ![w] = @ - 1]
       /\ GoTo(w, "fetch")
       /\ UNCHANGED answer
    \/ left[w] = 0 /\ Succeed(w)

\* The push was not: the next retry starts from a new fetch; without one left
\* the script fails.
TryAgain(w) ==
    \/ /\ left[w] > 0
       /\ left' = [left EXCEPT ![w] = @ - 1]
       /\ GoTo(w, "fetch")
       /\ UNCHANGED answer
    \/ /\ left[w] = 0
       /\ GoTo(w, "idle")
       /\ answer' = [answer EXCEPT ![w] = "refused"]
       /\ UNCHANGED left

Push(w) ==
    /\ pc[w] = "push"
    /\ Land({w}, base[w], Mine(w))
    /\ Succeed(w)
    /\ UNCHANGED <<wrote, base, orphan, unheard, lost, faults>>

\* Somebody else's commit got there first (or the failed fetch saw no branch).
PushRejected(w) ==
    /\ pc[w] = "push"
    /\ ~FastForward(base[w])
    /\ TryAgain(w)
    /\ lost' = IF base[w] = {} THEN lost ELSE [lost EXCEPT ![w] = @ + 1]
    /\ UNCHANGED <<branch, wrote, base, orphan, unheard, rivals, faults>>

\* The push lands and its answer is lost: to the script it is a rejection.
PushUnanswered(w) ==
    /\ Fault
    /\ pc[w] = "push"
    /\ Land({w}, base[w], Mine(w))
    /\ TryAgain(w)
    /\ unheard' = [unheard EXCEPT ![w] = @ + 1]
    /\ UNCHANGED <<wrote, base, orphan, lost>>

PushFails(w) ==
    /\ Fault
    /\ pc[w] = "push"
    /\ TryAgain(w)
    /\ UNCHANGED <<branch, wrote, base, orphan, history>>

\* The script is killed after its time limit; git, which it started, goes on.
ScriptTimesOut(w) ==
    /\ Fault
    /\ pc[w] = "push"
    /\ orphan[w] = {}
    /\ orphan' = [orphan EXCEPT ![w] = {[base |-> base[w], record |-> Mine(w)]}]
    /\ unheard' = [unheard EXCEPT ![w] = @ + 1]
    /\ GoTo(w, "idle")
    /\ answer' = [answer EXCEPT ![w] = "refused"]
    /\ UNCHANGED <<branch, wrote, left, base, lost, rivals>>

\* The push left behind reaches the server late, and is accepted or rejected.
OrphanArrives(w) ==
    /\ \E late \in orphan[w] :
          \/ Land({}, late.base, late.record)
          \/ ~FastForward(late.base) /\ UNCHANGED <<branch, rivals>>
    /\ orphan' = [orphan EXCEPT ![w] = {}]
    /\ UNCHANGED <<pc, wrote, left, base, answer, unheard, lost, faults>>

\* The writer is killed, with the script it runs.
Crash(w) ==
    /\ Fault
    /\ pc[w] # "idle"
    /\ GoTo(w, "idle")
    /\ UNCHANGED <<branch, wrote, left, base, orphan, answer, history>>

Next ==
    \E w \in Writers :
        \/ Start(w)
        \/ EnsureFinds(w) \/ EnsureCreates(w) \/ EnsureFails(w)
        \/ PutSchema(w) \/ PutSchemaFails(w)
        \/ Fetch(w) \/ FetchFails(w)
        \/ Push(w) \/ PushRejected(w) \/ PushUnanswered(w) \/ PushFails(w)
        \/ ScriptTimesOut(w) \/ OrphanArrives(w)
        \/ Crash(w)

Spec == Init /\ [][Next]_vars

----------------------------------------------------------------------------
(* Properties *)

Ledger == INSTANCE AppendLog

\* Whatever races, failures and late pushes there are, the branch is a log to
\* which records are appended one at a time: no push of a whole file ever drops
\* or rewrites a record that was there (append-metrics-record.sh, "a concurrent
\* writer's push rejects rather than clobbers").
LedgerIsAppendOnly == Ledger!Spec

\* A caller that is told its record was appended finds it in the ledger (the
\* script fails closed: no success-shaped answer for a rejected push).
AppendedIsRecorded ==
    \A w \in Writers :
        answer[w] = "appended" => \E i \in 1..Len(log) : log[i] = Mine(w)

Copies(w) == Cardinality({i \in 1..Len(log) : log[i][1] = w})

\* Retries put a record there twice only when the answer to a push that landed
\* got lost: a rejected push leaves nothing behind to be doubled.
DoublesNeedLostAnswer == \A w \in Writers : Copies(w) <= wrote[w] + unheard[w]

\* A push built on a fetched tip is only rejected when the branch has moved
\* since: while writers keep each other out, records of others land, so the
\* ledger as a whole goes on growing.
RejectionNeedsRival == \A w \in Writers : lost[w] <= rivals[w]
=============================================================================
