---------------------------- MODULE StepRun_proofs ----------------------------
(***************************************************************************)
(* Proofs about StepRun, for any number of runs, clones, retries, commits  *)
(* and failures: no commit is lost in silence, a run recorded as done has  *)
(* delivered, its result is its own, the runs implement DurableWork, what  *)
(* a spent run had is salvaged, and what earlier runs left is recovered.   *)
(***************************************************************************)
EXTENDS StepRun, TLAPS

(* Lemmas about the operators *)

LEMMA Bounds ==
    /\ NumRuns \in Nat /\ MaxRetries \in Nat /\ MaxCommits \in Nat /\ MaxFaults \in Nat
    /\ Sessions \subseteq Runs
    /\ Clone \in [Runs -> Clones]
    /\ Other \in Authors /\ Other \notin Runs /\ Runs \subseteq Authors
BY StepRunAssumption DEF Authors, Other, Runs

\* What an author has made grows by one commit.
LEMMA OneMore ==
    ASSUME NEW w, NEW n \in Nat
    PROVE  /\ CommitsOf(w, n + 1) = CommitsOf(w, n) \cup {<<w, n + 1>>}
           /\ CommitsOf(w, 0) = {}
<1>1. 1..(n + 1) = 1..n \cup {n + 1}
  OBVIOUS
<1>2. 1..0 = {}
  OBVIOUS
<1> QED
  BY <1>1, <1>2 DEF CommitsOf

LEMMA CommitTypes ==
    ASSUME NEW w \in Authors, NEW n \in 0..MaxCommits
    PROVE  <<w, n + 1>> \in AllCommits
<1>1. n + 1 \in 1..(MaxCommits + 1)
  BY Bounds
<1>2. <<w, n + 1>> \in CommitsOf(w, MaxCommits + 1)
  BY <1>1 DEF CommitsOf
<1> QED
  BY <1>2 DEF AllCommits

LEMMA FaultTypes == ASSUME faults \in 0..MaxFaults, Fault PROVE faults' \in 0..MaxFaults
BY Bounds DEF Fault

LEMMA NoResultTypes == NoResult \in Results /\ NoResult.says \notin Valid
BY Bounds DEF NoResult, Results, Says, Valid

----------------------------------------------------------------------------
(* Types *)

BranchTypes ==
    /\ remote \subseteq AllCommits
    /\ local \in [Clones -> SUBSET AllCommits]
    /\ track \in [Clones -> SUBSET AllCommits]
    /\ refused \subseteq AllCommits
    /\ gone \subseteq AllCommits

TreeTypes ==
    /\ tree \in [Clones -> Authors]
    /\ dirty \subseteq {c \in Clones : tree[c] # Other}
    /\ dropped \subseteq Runs

RunTypes ==
    /\ scratch \in [Clones -> Results]
    /\ attempt \in [Runs -> 0..MaxRetries]
    /\ got \in [Runs -> Results]
    /\ over \in [Runs -> BOOLEAN]
    /\ final \in [Runs -> Outcomes]
    /\ outcome \in [Runs -> Outcomes]
    /\ crowded \subseteq Runs
    /\ unclean \subseteq Runs

PlaceTypes ==
    pc \in [Runs -> {"off", "fetch", "recover", "reset", "before", "agent", "read", "after",
                     "push", "salvage", "stamp", "remove", "done", "dead"}]

CountTypes == count \in [Authors -> 0..(MaxCommits + 1)] /\ faults \in 0..MaxFaults

LEMMA TypeParts ==
    /\ TypeOK <=> BranchTypes /\ TreeTypes /\ RunTypes /\ PlaceTypes /\ CountTypes
    /\ TypeOK' <=> BranchTypes' /\ TreeTypes' /\ RunTypes' /\ PlaceTypes' /\ CountTypes'
BY DEF TypeOK, BranchTypes, TreeTypes, RunTypes, PlaceTypes, CountTypes

LEMMA SettleTypes ==
    ASSUME TypeOK, NEW r \in Runs, NEW status \in Outcomes, Settle(r, status)
    PROVE  PlaceTypes' /\ final' \in [Runs -> Outcomes]
BY DEF TypeOK, PlaceTypes, Settle, Goto

LEMMA TreeRemoved ==
    ASSUME TypeOK, NEW c \in Clones, RemoveTree(c)
    PROVE  TreeTypes'
<1>1. tree' \in [Clones -> Authors] /\ dirty' = dirty \ {c}
  BY Bounds DEF TypeOK, RemoveTree
<1>2. c \in dirty => tree[c] \in Runs
  BY DEF TypeOK, Authors
<1>3. dropped' \subseteq Runs
  BY <1>2 DEF TypeOK, RemoveTree
<1>4. \A d \in dirty' : tree'[d] # Other
  BY <1>1 DEF TypeOK, RemoveTree
<1> QED
  BY <1>1, <1>3, <1>4 DEF TypeOK, TreeTypes

LEMMA PushTypes ==
    ASSUME TypeOK, NEW c \in Clones, PushLands(c) \/ PushFails(c) \/ (Pushed(c) /\ Fault),
           local' = local, gone' = gone
    PROVE  BranchTypes' /\ faults' \in 0..MaxFaults
<1>1. faults' \in 0..MaxFaults
  BY FaultTypes DEF TypeOK, PushLands, PushFails
<1>2. local[c] \subseteq AllCommits /\ Ahead(c) \subseteq AllCommits
  BY DEF TypeOK, Ahead
<1>3. CASE Pushed(c)
  BY <1>1, <1>2, <1>3 DEF TypeOK, BranchTypes, Pushed
<1>4. CASE PushFails(c)
  BY <1>1, <1>2, <1>4 DEF TypeOK, BranchTypes, PushFails
<1> QED
  BY <1>1, <1>3, <1>4 DEF PushLands

LEMMA TypePreparing ==
    ASSUME TypeOK, NEW r \in Runs, Prepare(r)
    PROVE  TypeOK'
<1> USE TypeParts, Bounds
<1>0. Clone[r] \in Clones
  OBVIOUS
<1>1. CASE Start(r)
  BY <1>1 DEF Start, Goto, clone, BranchTypes, TreeTypes, RunTypes, PlaceTypes, CountTypes
<1>2. CASE FetchBranch(r)
  <2>1. TreeTypes'
    BY <1>0, <1>2, TreeRemoved DEF FetchBranch
  <2>2. BranchTypes'
    BY <1>0, <1>2 DEF FetchBranch, BranchTypes
  <2>3. PlaceTypes' /\ final' \in [Runs -> Outcomes]
    BY <1>2, SettleTypes DEF FetchBranch, Goto, PlaceTypes, RunTypes, Outcomes
  <2>4. CountTypes'
    BY <1>2, FaultTypes DEF FetchBranch, CountTypes
  <2> QED
    BY <1>2, <2>1, <2>2, <2>3, <2>4 DEF FetchBranch, RunTypes
<1>3. CASE Recover(r)
  <2>1. BranchTypes' /\ faults' \in 0..MaxFaults
    BY <1>0, <1>3, PushTypes DEF Recover, BranchTypes, CountTypes
  <2> QED
    BY <1>3, <2>1 DEF Recover, Goto, TreeTypes, RunTypes, PlaceTypes, CountTypes
<1>4. CASE Reset(r)
  <2>1. PlaceTypes' /\ final' \in [Runs -> Outcomes]
    BY <1>4, SettleTypes DEF Reset, Goto, PlaceTypes, RunTypes, Outcomes
  <2>2. BranchTypes'
    BY <1>0, <1>4 DEF Reset, BranchTypes, history
  <2>3. TreeTypes'
    BY <1>0, <1>4 DEF Reset, TreeTypes, history
  <2>4. CountTypes'
    BY <1>4, FaultTypes DEF Reset, CountTypes
  <2> QED
    BY <1>4, <2>1, <2>2, <2>3, <2>4 DEF Reset, RunTypes, history
<1> QED
  BY <1>1, <1>2, <1>3, <1>4 DEF Prepare

LEMMA TypeTrying ==
    ASSUME TypeOK, NEW r \in Runs, Try(r) \/ Edit(r) \/ Commit(r) \/ WriteResult(r)
    PROVE  TypeOK'
<1> USE TypeParts, Bounds, NoResultTypes
<1>0. Clone[r] \in Clones
  OBVIOUS
<1>1. CASE Setup(r)
  BY <1>0, <1>1 DEF Setup, Goto, Cleaned, clone, BranchTypes, TreeTypes, RunTypes, PlaceTypes, CountTypes
<1>2. CASE SetupFails(r)
  <2>1. RunTypes' /\ PlaceTypes'
    BY <1>0, <1>2 DEF SetupFails, Goto, Cleaned, RunTypes, PlaceTypes
  <2> QED
    BY <1>2, <2>1, FaultTypes DEF SetupFails, clone, BranchTypes, TreeTypes, CountTypes
<1>3. CASE Edit(r)
  BY <1>0, <1>3 DEF Edit, run, history, BranchTypes, TreeTypes, RunTypes, PlaceTypes, CountTypes
<1>4. CASE Commit(r)
  <2>1. count[r] \in 0..MaxCommits /\ count[r] + 1 \in 0..(MaxCommits + 1)
    BY <1>4 DEF Commit, CountTypes
  <2>2. CountTypes'
    BY <1>4, <2>1 DEF Commit, CountTypes
  <2>3. BranchTypes'
    BY <1>0, <1>4, <2>1, CommitTypes DEF Commit, BranchTypes, history
  <2> QED
    BY <1>4, <2>2, <2>3 DEF Commit, run, history, TreeTypes, RunTypes, PlaceTypes
<1>5. CASE WriteResult(r)
  <2>1. scratch' \in [Clones -> Results]
    BY <1>0, <1>5 DEF WriteResult, Results, Says, RunTypes
  <2> QED
    BY <1>5, <2>1 DEF WriteResult, clone, run, history, BranchTypes, TreeTypes, RunTypes, PlaceTypes, CountTypes
<1>6. CASE Return(r)
  BY <1>6 DEF Return, Goto, clone, history, BranchTypes, TreeTypes, RunTypes, PlaceTypes, CountTypes
<1>7. CASE RateLimited(r)
  BY <1>7 DEF RateLimited, Goto, clone, history, Outcomes, BranchTypes, TreeTypes, RunTypes, PlaceTypes, CountTypes
<1>8. CASE Retry(r)
  <2>1. attempt' \in [Runs -> 0..MaxRetries]
    BY <1>8 DEF Retry, RetriesLeft, NextAttempt, RunTypes
  <2> QED
    BY <1>8, <2>1 DEF Retry, Goto, clone, history, BranchTypes, TreeTypes, RunTypes, PlaceTypes, CountTypes
<1>9. CASE Accept(r)
  BY <1>0, <1>9 DEF Accept, Goto, clone, history, BranchTypes, TreeTypes, RunTypes, PlaceTypes, CountTypes
<1>10. CASE After(r)
  <2>1. AfterResult(r) \in {"remove", "push", "stamp", "salvage"}
    BY DEF AfterResult
  <2>2. PlaceTypes'
    BY <1>10, <2>1 DEF After, Goto, PlaceTypes
  <2>3. got[r].says \in Outcomes
    BY DEF RunTypes, Results, Says, Valid, Outcomes
  <2>4. final' \in [Runs -> Outcomes]
    <3>1. PICK status \in Outcomes : final' = [final EXCEPT ![r] = status]
      BY <1>10, <2>3 DEF After, Outcomes
    <3> QED
      BY <3>1 DEF RunTypes
  <2>5. scratch' \in [Clones -> Results] /\ faults' \in 0..MaxFaults
    BY <1>0, <1>10, FaultTypes DEF After, RunTypes, CountTypes
  <2> QED
    BY <1>10, <2>2, <2>4, <2>5 DEF After, clone, history, BranchTypes, TreeTypes, RunTypes, CountTypes
<1> QED
  BY <1>1, <1>2, <1>3, <1>4, <1>5, <1>6, <1>7, <1>8, <1>9, <1>10 DEF Try

LEMMA ForgetTypes ==
    ASSUME TypeOK, NEW r \in Runs, Forget(r)
    PROVE  /\ attempt' \in [Runs -> 0..MaxRetries]
           /\ got' \in [Runs -> Results]
           /\ over' \in [Runs -> BOOLEAN]
           /\ final' \in [Runs -> Outcomes]
           /\ outcome' \in [Runs -> Outcomes]
           /\ unclean' \subseteq Runs
BY Bounds, NoResultTypes DEF TypeOK, Forget, Outcomes

LEMMA TypeFinishing ==
    ASSUME TypeOK, NEW r \in Runs, Finish(r) \/ Crash(r)
    PROVE  TypeOK'
<1> USE TypeParts, Bounds
<1>0. Clone[r] \in Clones
  OBVIOUS
<1>1. CASE PushNothing(r)
  <2>1. PlaceTypes' /\ final' \in [Runs -> Outcomes]
    BY <1>1, SettleTypes DEF PushNothing, RunTypes, Outcomes
  <2> QED
    BY <1>1, <2>1 DEF PushNothing, clone, history, BranchTypes, TreeTypes, RunTypes, CountTypes
<1>2. CASE PushStep(r)
  <2>1. PlaceTypes' /\ final' \in [Runs -> Outcomes]
    BY <1>2, SettleTypes DEF PushStep, RunTypes, Outcomes
  <2>2. BranchTypes' /\ faults' \in 0..MaxFaults
    BY <1>0, <1>2, PushTypes DEF PushStep
  <2> QED
    BY <1>2, <2>1, <2>2 DEF PushStep, TreeTypes, RunTypes, CountTypes
<1>3. CASE PushUnread(r)
  <2>1. PlaceTypes' /\ final' \in [Runs -> Outcomes]
    BY <1>3, SettleTypes DEF PushUnread, Outcomes
  <2> QED
    BY <1>3, <2>1, FaultTypes DEF PushUnread, clone, history, BranchTypes, TreeTypes, RunTypes, CountTypes
<1>4. CASE SalvageCommit(r)
  <2>1. count[r] \in 0..MaxCommits /\ count[r] + 1 \in 0..(MaxCommits + 1)
    BY <1>4 DEF SalvageCommit, CountTypes
  <2>2. CountTypes'
    BY <1>4, <2>1 DEF SalvageCommit, CountTypes
  <2>3. BranchTypes'
    BY <1>0, <1>4, <2>1, CommitTypes DEF SalvageCommit, BranchTypes, history
  <2> QED
    BY <1>4, <2>2, <2>3 DEF SalvageCommit, run, history, TreeTypes, RunTypes, PlaceTypes
<1>5. CASE Salvage(r)
  <2>1. PlaceTypes' /\ final' \in [Runs -> Outcomes]
    BY <1>5, SettleTypes DEF Salvage, Outcomes
  <2>2. CASE PushLands(Clone[r]) \/ PushFails(Clone[r]) \/ (Pushed(Clone[r]) /\ Fault)
    <3>1. BranchTypes' /\ faults' \in 0..MaxFaults
      BY <1>0, <1>5, <2>2, PushTypes DEF Salvage
    <3> QED
      BY <1>5, <2>1, <3>1 DEF Salvage, TreeTypes, RunTypes, CountTypes
  <2>3. CASE UNCHANGED <<remote, track, refused>> /\ (UNCHANGED faults \/ Fault)
    BY <1>5, <2>1, <2>3, FaultTypes DEF Salvage, BranchTypes, TreeTypes, RunTypes, CountTypes
  <2> QED
    BY <1>5, <2>2, <2>3 DEF Salvage
<1>6. CASE Stamp(r)
  BY <1>6 DEF Stamp, Goto, clone, history, BranchTypes, TreeTypes, RunTypes, PlaceTypes, CountTypes
<1>7. CASE Remove(r)
  <2>1. TreeTypes'
    BY <1>0, <1>7, TreeRemoved DEF Remove, TreeTypes
  <2> QED
    BY <1>7, <2>1, ForgetTypes DEF Remove, Goto, BranchTypes, RunTypes, PlaceTypes, CountTypes
<1>8. CASE Crash(r)
  BY <1>8, ForgetTypes, FaultTypes DEF Crash, Goto, clone, BranchTypes, TreeTypes, RunTypes, PlaceTypes, CountTypes
<1> QED
  BY <1>1, <1>2, <1>3, <1>4, <1>5, <1>6, <1>7, <1>8 DEF Finish

LEMMA TypeAround ==
    ASSUME TypeOK, (\E c \in Clones : Dispose(c)) \/ OthersPush \/ UNCHANGED vars
    PROVE  TypeOK'
<1> USE TypeParts, Bounds, NoResultTypes
<1>1. ASSUME NEW c \in Clones, Dispose(c) PROVE TypeOK'
  <2>1. TreeTypes'
    BY <1>1, TreeRemoved DEF Dispose
  <2> QED
    BY <1>1, <2>1 DEF Dispose, run, BranchTypes, RunTypes, PlaceTypes, CountTypes
<1>2. CASE OthersPush
  <2>1. count[Other] \in 0..MaxCommits /\ count[Other] + 1 \in 0..(MaxCommits + 1)
    BY <1>2 DEF OthersPush, CountTypes
  <2>2. <<Other, count[Other] + 1>> \in AllCommits
    BY <2>1, CommitTypes
  <2> QED
    BY <1>2, <2>1, <2>2 DEF OthersPush, clone, run, history, BranchTypes, TreeTypes, RunTypes,
                            PlaceTypes, CountTypes
<1>3. CASE UNCHANGED vars
  BY <1>3 DEF vars, clone, run, history, BranchTypes, TreeTypes, RunTypes, PlaceTypes, CountTypes
<1> QED
  BY <1>1, <1>2, <1>3

LEMMA TypesAtFirst == Init => TypeOK
BY Bounds, NoResultTypes DEF Init, TypeOK, Outcomes

\* Types: every variable ranges over what TypeOK says.
THEOREM TypeCorrect == Spec => []TypeOK
<1>1. TypeOK /\ [Next]_vars => TypeOK'
  BY TypePreparing, TypeTrying, TypeFinishing, TypeAround DEF Next
<1> QED
  BY <1>1, TypesAtFirst, PTL DEF Spec

----------------------------------------------------------------------------
(* Who is under way *)

Early == {"off", "fetch", "recover", "reset"}
Ended == {"remove", "done", "dead"}

\* Runs go one after another: those before a run that has begun have given back
\* their lock.
InTurn == \A q, r \in Runs : q < r /\ pc[r] # "off" => pc[q] \in Ended

\* Where a run that has begun may go.
Forward(r) ==
    \E where : Goto(r, where) /\ pc[r] # "off" /\ (pc[r] \in Ended => where \in Ended)

LEMMA ForwardInTurn ==
    ASSUME TypeOK, InTurn, NEW r \in Runs, Forward(r)
    PROVE  InTurn'
BY DEF TypeOK, InTurn, Forward, Goto

\* While a run holds the lock, no other is anywhere but before it or at its end.
LEMMA Alone ==
    ASSUME TypeOK, InTurn, NEW r \in Runs, Locked(r), NEW q \in Runs \ {r}
    PROVE  pc[q] \in Ended \cup {"off"}
<1>1. q < r \/ r < q
  BY Bounds DEF Runs
<1> QED
  BY <1>1 DEF InTurn, Locked, Live, Ended

LEMMA GoesOn ==
    ASSUME TypeOK, NEW r \in Runs, Prepare(r) \/ Try(r) \/ Finish(r) \/ Crash(r),
           ~Start(r), ~SalvageCommit(r)
    PROVE  Forward(r)
<1>1. CASE FetchBranch(r) \/ Recover(r) \/ Reset(r)
  BY <1>1 DEF FetchBranch, Recover, Reset, Settle, Forward, Goto, Ended
<1>2. CASE Setup(r) \/ SetupFails(r) \/ Return(r) \/ RateLimited(r) \/ Retry(r) \/ Accept(r)
  BY <1>2 DEF Setup, SetupFails, Return, RateLimited, Retry, Accept, Forward, Goto, Ended
<1>3. CASE After(r)
  BY <1>3 DEF After, Forward, Goto, Ended
<1>4. CASE PushNothing(r) \/ PushStep(r) \/ PushUnread(r) \/ Salvage(r) \/ Stamp(r)
  BY <1>4 DEF PushNothing, PushStep, PushUnread, Salvage, Stamp, Settle, Forward, Goto, Ended
<1>5. CASE Remove(r) \/ Crash(r)
  BY <1>5 DEF Remove, Crash, Live, Forward, Goto, Ended
<1> QED
  BY <1>1, <1>2, <1>3, <1>4, <1>5 DEF Prepare, Try, Finish

LEMMA InTurnStep == ASSUME TypeOK, InTurn, [Next]_vars PROVE InTurn'
<1>1. ASSUME NEW r \in Runs, Start(r) PROVE InTurn'
  <2>1. \A q \in Runs : q < r => pc[q] \in Ended
    BY <1>1 DEF TypeOK, Start, Locked, Live, Ended
  <2>2. \A q \in Runs : q > r => pc[q] = "off"
    BY <1>1 DEF Start, InTurn, Ended
  <2>3. \E where : pc' = [pc EXCEPT ![r] = where]
    BY <1>1 DEF Start, Goto
  <2> QED
    BY <2>1, <2>2, <2>3, Bounds DEF TypeOK, InTurn, Runs
<1>2. ASSUME NEW r \in Runs, Prepare(r) \/ Try(r) \/ Finish(r) \/ Crash(r), ~Start(r), ~SalvageCommit(r)
      PROVE  InTurn'
  BY <1>2, GoesOn, ForwardInTurn
<1>3. ASSUME NEW r \in Runs, SalvageCommit(r) \/ Edit(r) \/ Commit(r) \/ WriteResult(r) PROVE InTurn'
  BY <1>3 DEF SalvageCommit, Edit, Commit, WriteResult, run, InTurn
<1>4. CASE (\E c \in Clones : Dispose(c)) \/ OthersPush \/ UNCHANGED vars
  BY <1>4 DEF Dispose, OthersPush, vars, run, InTurn
<1> QED
  BY <1>1, <1>2, <1>3, <1>4 DEF Next, Prepare, Finish

----------------------------------------------------------------------------
(* What there is of the commits *)

\* Every commit on a branch has been made; what a clone knows of the remote is there.
BranchInv ==
    /\ remote \subseteq Made
    /\ \A c \in Clones : local[c] \subseteq Made /\ track[c] \subseteq remote

LEMMA MadeGrows ==
    ASSUME TypeOK, NEW w \in Authors, count' = [count EXCEPT ![w] = @ + 1]
    PROVE  Made' = Made \cup {<<w, count[w] + 1>>}
<1>1. /\ CommitsOf(w, count[w] + 1) = CommitsOf(w, count[w]) \cup {<<w, count[w] + 1>>}
      /\ count'[w] = count[w] + 1
      /\ \A v \in Authors \ {w} : count'[v] = count[v]
  BY OneMore, Bounds DEF TypeOK
<1>2. \A v \in Authors \ {w} : CommitsOf(v, count[v])' = CommitsOf(v, count[v])
  BY <1>1 DEF CommitsOf
<1>3. CommitsOf(w, count[w])' = CommitsOf(w, count[w]) \cup {<<w, count[w] + 1>>}
  BY <1>1 DEF CommitsOf
<1> QED
  BY <1>2, <1>3 DEF Made

\* A push only adds to the remote, and to what has been refused.
LEMMA PushGrows ==
    ASSUME TypeOK, BranchInv, NEW c \in Clones, PushLands(c) \/ PushFails(c) \/ Pushed(c)
    PROVE  /\ remote \subseteq remote' /\ refused \subseteq refused'
           /\ remote' \subseteq Made
           /\ track'[c] \subseteq remote'
           /\ \A d \in Clones \ {c} : track'[d] = track[d]
BY DEF TypeOK, BranchInv, PushLands, Pushed, PushFails, FastForward

LEMMA BranchPushed ==
    ASSUME TypeOK, BranchInv, NEW c \in Clones, PushLands(c) \/ PushFails(c) \/ Pushed(c),
           UNCHANGED <<local, count>>
    PROVE  BranchInv'
<1>1. Made' = Made
  BY DEF Made, CommitsOf
<1> QED
  BY <1>1, PushGrows DEF BranchInv

LEMMA BranchKept ==
    ASSUME BranchInv, UNCHANGED <<remote, local, track, count>>
    PROVE  BranchInv'
BY DEF BranchInv, Made, CommitsOf

LEMMA BranchStep == ASSUME TypeOK, BranchInv, [Next]_vars PROVE BranchInv'
<1> USE Bounds
<1>0. \A r \in Runs : Clone[r] \in Clones
  OBVIOUS
<1>1. ASSUME NEW r \in Runs, FetchBranch(r) \/ Reset(r) PROVE BranchInv'
  <2>1. Made' = Made
    BY <1>1 DEF FetchBranch, Reset, Made, CommitsOf
  <2> QED
    BY <1>0, <1>1, <2>1 DEF TypeOK, FetchBranch, Reset, BranchInv
<1>2. ASSUME NEW r \in Runs, Recover(r) \/ PushStep(r) \/ Salvage(r) PROVE BranchInv'
  <2>1. UNCHANGED <<local, count>>
    BY <1>2 DEF Recover, PushStep, Salvage
  <2>2. PushLands(Clone[r]) \/ PushFails(Clone[r]) \/ Pushed(Clone[r]) \/ UNCHANGED <<remote, track>>
    BY <1>2 DEF Recover, PushStep, Salvage
  <2> QED
    BY <1>0, <2>1, <2>2, BranchPushed, BranchKept
<1>3. ASSUME NEW r \in Runs, Commit(r) \/ SalvageCommit(r) PROVE BranchInv'
  <2>1. Made' = Made \cup {<<r, count[r] + 1>>}
    BY <1>3, MadeGrows DEF Commit, SalvageCommit
  <2> QED
    BY <1>0, <1>3, <2>1 DEF TypeOK, Commit, SalvageCommit, BranchInv
<1>4. CASE OthersPush
  <2>1. Made' = Made \cup {<<Other, count[Other] + 1>>}
    BY <1>4, MadeGrows DEF OthersPush
  <2> QED
    BY <1>4, <2>1 DEF OthersPush, clone, BranchInv
<1>5. ASSUME NEW c \in Clones, Dispose(c) PROVE BranchInv'
  <2>1. Made' = Made
    BY <1>5 DEF Dispose, Made, CommitsOf
  <2> QED
    BY <1>5, <2>1 DEF TypeOK, Dispose, BranchInv
<1>6. ASSUME NEW r \in Runs, Start(r) \/ Try(r) \/ Edit(r) \/ WriteResult(r) \/ PushNothing(r)
                             \/ PushUnread(r) \/ Stamp(r) \/ Remove(r) \/ Crash(r)
      PROVE  BranchInv'
  BY <1>6, BranchKept DEF Start, Try, Setup, SetupFails, Return, RateLimited, Retry, Accept, After,
                          Edit, WriteResult, PushNothing, PushUnread, Stamp, Remove, Crash, clone
<1>7. CASE UNCHANGED vars
  BY <1>7, BranchKept DEF vars, clone
<1> QED
  BY <1>1, <1>2, <1>3, <1>4, <1>5, <1>6, <1>7 DEF Next, Prepare, Finish

----------------------------------------------------------------------------
(* No commit is lost in silence *)

\* A run has no commits before its agent starts; while it holds the lock, the branch of
\* its clone has them all; and before the branch is reset, what only the clone had is on
\* the remote or has been refused.
LossInv ==
    /\ \A r \in Runs : pc[r] \in Early => count[r] = 0
    /\ \A r \in Runs : Locked(r) => CommitsOf(r, count[r]) \subseteq local[Clone[r]]
    /\ \A r \in Runs : pc[r] = "reset" => Ahead(Clone[r]) \subseteq remote \cup refused
    /\ NothingLostInSilence

\* What LossInv asks of the places of runs, whatever else a step does.
Onwards ==
    /\ \A r \in Runs : pc'[r] \in Early => pc[r] \in Early
    /\ \A r \in Runs : Locked(r)' => Locked(r) \/ pc[r] = "off"

LEMMA LossKept ==
    ASSUME TypeOK, LossInv, Onwards, UNCHANGED <<local, count, gone>>,
           remote \subseteq remote', refused \subseteq refused',
           \A r \in Runs : pc'[r] = "reset" => Ahead(Clone[r])' \subseteq remote' \cup refused'
    PROVE  LossInv'
<1>1. \A r \in Runs : CommitsOf(r, count[r])' = CommitsOf(r, count[r])
  BY DEF CommitsOf
<1>2. \A r \in Runs : pc[r] = "off" => CommitsOf(r, count[r]) = {}
  BY OneMore, Bounds DEF LossInv, Early
<1>3. \A r \in Runs : pc'[r] \in Early => count'[r] = 0
  BY DEF Onwards, LossInv
<1>4. \A r \in Runs : Locked(r)' => CommitsOf(r, count[r])' \subseteq local'[Clone[r]]
  BY <1>1, <1>2 DEF Onwards, LossInv
<1>5. NothingLostInSilence'
  BY <1>1 DEF LossInv, NothingLostInSilence
<1> QED
  BY <1>3, <1>4, <1>5 DEF LossInv

\* A commit is made by a run that holds the lock.
LEMMA LossCommitted ==
    ASSUME TypeOK, InTurn, LossInv, NEW r \in Runs, Commit(r) \/ SalvageCommit(r)
    PROVE  LossInv'
<1>1. /\ Locked(r) /\ pc[r] \notin Early
      /\ count' = [count EXCEPT ![r] = @ + 1]
      /\ local' = [local EXCEPT ![Clone[r]] = @ \cup {<<r, count[r] + 1>>}]
      /\ UNCHANGED <<remote, track, refused, gone, pc>>
  BY DEF Commit, SalvageCommit, Locked, Live, Early, run, history
<1>2. /\ \A q \in Runs : local[Clone[q]] \subseteq local'[Clone[q]]
      /\ <<r, count[r] + 1>> \in local'[Clone[r]]
  BY <1>1, Bounds DEF TypeOK
<1>3. CommitsOf(r, count[r])' = CommitsOf(r, count[r]) \cup {<<r, count[r] + 1>>}
  <2>1. count'[r] = count[r] + 1 /\ count[r] \in Nat
    BY <1>1, Bounds DEF TypeOK
  <2>2. CommitsOf(r, count[r] + 1) = CommitsOf(r, count[r]) \cup {<<r, count[r] + 1>>}
    BY <2>1, OneMore
  <2> QED
    BY <2>1, <2>2 DEF CommitsOf
<1>4. \A q \in Runs \ {r} : count'[q] = count[q] /\ CommitsOf(q, count[q])' = CommitsOf(q, count[q])
  BY <1>1, Bounds DEF TypeOK, CommitsOf
<1>5. \A q \in Runs : pc'[q] \in Early => count'[q] = 0
  BY <1>1, <1>4 DEF LossInv
<1>6. \A q \in Runs : Locked(q)' => CommitsOf(q, count[q])' \subseteq local'[Clone[q]]
  BY <1>1, <1>2, <1>3, <1>4 DEF LossInv, Locked, Live
<1>7. \A q \in Runs : pc'[q] # "reset"
  BY <1>1, Alone DEF Early, Ended
<1>8. NothingLostInSilence'
  BY <1>1, <1>2, <1>3, <1>4 DEF LossInv, NothingLostInSilence
<1> QED
  BY <1>5, <1>6, <1>7, <1>8 DEF LossInv

\* The branch is set back to what the remote is known to have.
LEMMA LossReset ==
    ASSUME TypeOK, InTurn, BranchInv, LossInv, NEW r \in Runs, Reset(r)
    PROVE  LossInv'
<1> DEFINE c == Clone[r]
<1>0. c \in Clones /\ Locked(r) /\ pc[r] = "reset"
  BY Bounds DEF Reset, Locked, Live
<1>1. /\ local' = [local EXCEPT ![c] = track[c]] \/ local' = local
      /\ UNCHANGED <<remote, track, count, refused, gone>>
      /\ \A q \in Runs \ {r} : pc'[q] = pc[q]
      /\ pc'[r] \in {"before", "stamp"}
  BY DEF TypeOK, Reset, Settle, Goto, history
<1>2. local[c] \subseteq remote \cup refused
  BY <1>0 DEF LossInv, BranchInv, Ahead
<1>3. \A q \in Runs : CommitsOf(q, count[q])' = CommitsOf(q, count[q])
  BY <1>1 DEF CommitsOf
<1>4. \A q \in Runs : local[Clone[q]] \subseteq local'[Clone[q]] \cup remote \cup refused
  BY <1>0, <1>1, <1>2, Bounds DEF TypeOK
<1>5. \A q \in Runs \ {r} : pc[q] \in Ended \cup {"off"}
  BY <1>0, Alone
<1>6. CommitsOf(r, count[r]) = {}
  BY <1>0, OneMore DEF LossInv, Early
<1>7. \A q \in Runs : pc'[q] \in Early => count'[q] = 0
  BY <1>0, <1>1 DEF LossInv, Early
<1>8. \A q \in Runs : Locked(q)' => CommitsOf(q, count[q])' \subseteq local'[Clone[q]]
  BY <1>1, <1>3, <1>5, <1>6 DEF Locked, Live, Ended
<1>9. \A q \in Runs : pc'[q] # "reset"
  BY <1>1, <1>5 DEF Ended
<1>10. NothingLostInSilence'
  BY <1>1, <1>3, <1>4 DEF LossInv, NothingLostInSilence
<1> QED
  BY <1>7, <1>8, <1>9, <1>10 DEF LossInv

\* A push before the branch is reset, and a push of what a step has made.
LEMMA LossPushed ==
    ASSUME TypeOK, InTurn, BranchInv, LossInv, NEW r \in Runs,
           Recover(r) \/ PushStep(r) \/ Salvage(r)
    PROVE  LossInv'
<1> DEFINE c == Clone[r]
<1>0. c \in Clones /\ Locked(r)
  BY Bounds DEF Recover, PushStep, Salvage, Locked, Live
<1>1. UNCHANGED <<local, count, gone>>
  BY DEF Recover, PushStep, Salvage
<1>2. remote \subseteq remote' /\ refused \subseteq refused'
  BY <1>0, PushGrows DEF Recover, PushStep, Salvage
<1>3. \A q \in Runs \ {r} : pc'[q] = pc[q] /\ pc[q] \in Ended \cup {"off"}
  BY <1>0, Alone DEF TypeOK, Recover, PushStep, Salvage, Settle, Goto
<1>4. /\ pc'[r] \in {"reset", "stamp"}
      /\ pc'[r] = "reset" => Recover(r) /\ pc[r] = "recover"
  BY DEF TypeOK, Recover, PushStep, Salvage, Settle, Goto
<1>5. Onwards
  BY <1>0, <1>3, <1>4 DEF Onwards, Early, Locked, Live
<1>6. Recover(r) => Ahead(c)' \subseteq remote' \cup refused'
  BY <1>0 DEF TypeOK, Recover, ToRecover, Ahead, PushLands, Pushed, PushFails
<1>7. \A q \in Runs : pc'[q] = "reset" => q = r
  BY <1>3 DEF Ended
<1> QED
  BY <1>1, <1>2, <1>4, <1>5, <1>6, <1>7, LossKept

LEMMA LossDisposed ==
    ASSUME TypeOK, LossInv, NEW c \in Clones, Dispose(c)
    PROVE  LossInv'
<1>1. /\ local' = [local EXCEPT ![c] = {}]
      /\ gone' = gone \cup local[c]
      /\ UNCHANGED <<remote, count, refused, pc>>
      /\ \A r \in Runs : Clone[r] = c => ~Live(r)
      /\ \A d \in Clones : track'[d] \in {track[d], {}}
      /\ \A d \in Clones \ {c} : track'[d] = track[d]
  BY DEF TypeOK, Dispose, run
<1>2. \A r \in Runs : CommitsOf(r, count[r])' = CommitsOf(r, count[r])
  BY <1>1 DEF CommitsOf
<1>3. \A r \in Runs : Live(r) => Clone[r] # c /\ local'[Clone[r]] = local[Clone[r]]
                                 /\ track'[Clone[r]] = track[Clone[r]]
  BY <1>1, Bounds DEF TypeOK
<1>4. \A r \in Runs : Locked(r)' => CommitsOf(r, count[r])' \subseteq local'[Clone[r]]
  BY <1>1, <1>2, <1>3 DEF LossInv, Locked, Live
<1>5. \A r \in Runs : pc'[r] = "reset" => Ahead(Clone[r])' \subseteq remote' \cup refused'
  BY <1>1, <1>3 DEF LossInv, Live, Ahead
<1>6. NothingLostInSilence'
  BY <1>1, <1>2, Bounds DEF TypeOK, LossInv, NothingLostInSilence
<1> QED
  BY <1>1, <1>4, <1>5, <1>6 DEF LossInv

LEMMA LossStep == ASSUME TypeOK, InTurn, BranchInv, LossInv, [Next]_vars PROVE LossInv'
<1>1. ASSUME NEW r \in Runs, FetchBranch(r) PROVE LossInv'
  <2>1. Locked(r) /\ pc[r] = "fetch"
    BY <1>1 DEF FetchBranch, Locked, Live
  <2>2. /\ \A q \in Runs \ {r} : pc'[q] = pc[q] /\ pc[q] \in Ended \cup {"off"}
        /\ pc'[r] \in {"recover", "stamp"}
        /\ UNCHANGED <<local, count, gone, remote, refused>>
    BY <1>1, <2>1, Alone DEF TypeOK, FetchBranch, Settle, Goto
  <2>3. Onwards /\ \A q \in Runs : pc'[q] # "reset"
    BY <2>1, <2>2 DEF Onwards, Early, Ended, Locked, Live
  <2> QED
    BY <2>2, <2>3, LossKept
<1>2. ASSUME NEW r \in Runs, Recover(r) \/ PushStep(r) \/ Salvage(r) PROVE LossInv'
  BY <1>2, LossPushed
<1>3. ASSUME NEW r \in Runs, Reset(r) PROVE LossInv'
  BY <1>3, LossReset
<1>4. ASSUME NEW r \in Runs, Commit(r) \/ SalvageCommit(r) PROVE LossInv'
  BY <1>4, LossCommitted
<1>5. ASSUME NEW c \in Clones, Dispose(c) PROVE LossInv'
  BY <1>5, LossDisposed
<1>6. CASE OthersPush
  <2>1. /\ UNCHANGED <<local, track, gone, refused, pc>>
        /\ remote \subseteq remote'
        /\ \A r \in Runs : count'[r] = count[r]
    BY <1>6, Bounds DEF TypeOK, OthersPush, clone, run, history
  <2>2. \A r \in Runs : CommitsOf(r, count[r])' = CommitsOf(r, count[r])
    BY <2>1 DEF CommitsOf
  <2>3. \A r \in Runs : Ahead(Clone[r])' = Ahead(Clone[r])
    BY <2>1 DEF Ahead
  <2> QED
    BY <2>1, <2>2, <2>3 DEF LossInv, NothingLostInSilence, Locked, Live
<1>7. ASSUME NEW r \in Runs, Start(r) \/ Try(r) \/ Edit(r) \/ WriteResult(r) \/ PushNothing(r)
                             \/ PushUnread(r) \/ Stamp(r) \/ Remove(r) \/ Crash(r)
      PROVE  LossInv'
  <2>1. UNCHANGED <<local, track, count, gone, remote, refused>>
    BY <1>7 DEF Start, Try, Setup, SetupFails, Return, RateLimited, Retry, Accept, After,
                Edit, WriteResult, PushNothing, PushUnread, Stamp, Remove, Crash, clone, history
  <2>2. /\ \A q \in Runs \ {r} : pc'[q] = pc[q]
        /\ pc'[r] = pc[r] \/ pc'[r] \notin Early \/ (pc[r] = "off" /\ pc'[r] = "fetch")
        /\ Locked(r)' => Locked(r) \/ pc[r] = "off"
    <3>1. CASE Start(r)
      BY <3>1 DEF TypeOK, Start, Goto, Early
    <3>2. CASE Try(r)
      BY <3>2 DEF TypeOK, Try, Setup, SetupFails, Return, RateLimited, Retry, Accept, After,
                  AfterResult, Goto, Early, Locked, Live
    <3>3. CASE Edit(r) \/ WriteResult(r)
      BY <3>3 DEF Edit, WriteResult, run, Locked, Live
    <3>4. CASE PushNothing(r) \/ PushUnread(r) \/ Stamp(r) \/ Remove(r) \/ Crash(r)
      BY <3>4 DEF TypeOK, PushNothing, PushUnread, Stamp, Remove, Crash, Settle, Goto, Early, Locked, Live
    <3> QED
      BY <1>7, <3>1, <3>2, <3>3, <3>4
  <2>3. Onwards
    BY <2>2 DEF Onwards, Early, Locked, Live
  <2>4. \A q \in Runs : pc'[q] = "reset" => pc[q] = "reset"
    BY <2>2 DEF Early
  <2>5. \A q \in Runs : Ahead(Clone[q])' = Ahead(Clone[q])
    BY <2>1 DEF Ahead
  <2>6. \A q \in Runs : pc'[q] = "reset" => Ahead(Clone[q])' \subseteq remote' \cup refused'
    BY <2>1, <2>4, <2>5 DEF LossInv
  <2> QED
    BY <2>1, <2>3, <2>6, LossKept
<1>8. CASE UNCHANGED vars
  BY <1>8, LossKept DEF vars, clone, run, history, Onwards, LossInv, Ahead, Locked, Live
<1> QED
  BY <1>1, <1>2, <1>3, <1>4, <1>5, <1>6, <1>7, <1>8 DEF Next, Prepare, Finish

----------------------------------------------------------------------------
(* Whose worktree it is *)

\* A worktree is that of a run of its clone; the run that holds the lock finds its own
\* or none; and what was thrown away with a worktree is never found again.
TreeInv ==
    /\ \A c \in Clones : tree[c] # Other => Clone[tree[c]] = c /\ pc[tree[c]] \notin Early
    /\ \A r \in Runs \ Sessions :
          Locked(r) /\ pc[r] # "fetch" => tree[Clone[r]] \in {Other, r}
    /\ \A r \in dropped : pc[r] \notin Early /\ \A c \in Clones : tree[c] # r

\* No step but these touches a worktree.
LEMMA TreeKept ==
    ASSUME TypeOK, TreeInv, Onwards, UNCHANGED <<tree, dropped>>,
           \A r \in Runs : pc'[r] = "fetch" <=> pc[r] = "fetch",
           \A r \in Runs : Locked(r)' => Locked(r)
    PROVE  TreeInv'
BY DEF TypeOK, TreeInv, Onwards, Authors

LEMMA TreeGone ==
    ASSUME TypeOK, TreeInv, NEW c \in Clones, RemoveTree(c), Onwards,
           \A r \in Runs : Locked(r)' => Locked(r),
           \A r \in Runs : Locked(r)' /\ pc[r] = "fetch" /\ pc'[r] # "fetch" => Clone[r] = c
    PROVE  TreeInv'
<1>1. /\ tree'[c] = Other
      /\ \A d \in Clones \ {c} : tree'[d] = tree[d]
      /\ dropped' = IF c \in dirty THEN dropped \cup {tree[c]} ELSE dropped
  BY DEF TypeOK, RemoveTree
<1>2. \A d \in Clones : tree'[d] # Other => d # c /\ tree[d] = tree'[d] /\ tree[d] \in Runs
  BY <1>1 DEF TypeOK, Authors
<1>3. \A d \in Clones : tree'[d] # Other => Clone[tree'[d]] = d /\ pc'[tree'[d]] \notin Early
  BY <1>2 DEF TreeInv, Onwards
<1>4. \A r \in Runs \ Sessions : Locked(r)' /\ pc'[r] # "fetch" => tree'[Clone[r]] \in {Other, r}
  BY <1>1, Bounds DEF TreeInv
<1>5. \A r \in dropped' : pc'[r] \notin Early /\ \A d \in Clones : tree'[d] # r
  <2>1. SUFFICES ASSUME NEW r \in dropped' PROVE pc'[r] \notin Early /\ \A d \in Clones : tree'[d] # r
    OBVIOUS
  <2>2. CASE r \in dropped
    <3>1. r \in Runs
      BY <2>2 DEF TypeOK
    <3> QED
      BY <1>1, <2>2, <3>1, Bounds DEF TreeInv, Onwards
  <2>3. CASE r = tree[c] /\ c \in dirty
    <3>1. r \in Runs /\ r # Other /\ pc[r] \notin Early
      BY <2>3 DEF TypeOK, TreeInv, Authors
    <3>2. \A d \in Clones \ {c} : tree[d] # r
      BY <2>3, <3>1 DEF TreeInv
    <3> QED
      BY <1>1, <3>1, <3>2 DEF Onwards
  <2> QED
    BY <1>1, <2>1, <2>2, <2>3
<1> QED
  BY <1>3, <1>4, <1>5 DEF TreeInv


LEMMA TreeStep == ASSUME TypeOK, InTurn, TreeInv, [Next]_vars PROVE TreeInv'
<1> USE Bounds
<1>1. ASSUME NEW r \in Runs, Start(r) PROVE TreeInv'
  <2>1. /\ pc[r] = "off" /\ pc'[r] \in {"before", "fetch"}
        /\ pc'[r] = "before" <=> r \in Sessions
        /\ \A q \in Runs \ {r} : pc'[q] = pc[q]
        /\ UNCHANGED <<tree, dropped>>
    BY <1>1 DEF TypeOK, Start, Goto, clone
  <2> QED
    BY <2>1 DEF TypeOK, TreeInv, Early, Locked, Live, Authors
<1>2. ASSUME NEW r \in Runs, FetchBranch(r) PROVE TreeInv'
  <2>1. /\ pc[r] = "fetch" /\ pc'[r] \in {"recover", "stamp"}
        /\ \A q \in Runs \ {r} : pc'[q] = pc[q]
        /\ RemoveTree(Clone[r])
    BY <1>2 DEF TypeOK, FetchBranch, Settle, Goto
  <2>2. Onwards /\ \A q \in Runs : Locked(q)' => Locked(q)
    BY <2>1 DEF Onwards, Early, Locked, Live
  <2> QED
    BY <2>1, <2>2, TreeGone
<1>3. ASSUME NEW r \in Runs, Reset(r) PROVE TreeInv'
  <2>1. /\ pc[r] = "reset" /\ pc'[r] \in {"before", "stamp"}
        /\ \A q \in Runs \ {r} : pc'[q] = pc[q]
        /\ UNCHANGED dropped
        /\ r \notin dropped
    BY <1>3 DEF TypeOK, Reset, Settle, Goto, history, TreeInv, Early
  <2>2. \A q \in Runs \ {r} : pc[q] \in Ended \cup {"off"}
    BY <2>1, Alone DEF Locked, Live
  <2>3. CASE UNCHANGED tree
    BY <2>1, <2>3 DEF TypeOK, TreeInv, Early, Locked, Live, Authors
  <2>4. CASE pc'[r] = "before" /\ tree' = [tree EXCEPT ![Clone[r]] = r]
    <3>1. \A q \in Runs \ {r} : ~Locked(q)'
      BY <2>1, <2>2 DEF Locked, Live, Ended
    <3>2. \A c \in Clones : tree'[c] = IF c = Clone[r] THEN r ELSE tree[c]
      BY <2>4 DEF TypeOK
    <3>3. \A c \in Clones : tree'[c] # Other => Clone[tree'[c]] = c /\ pc'[tree'[c]] \notin Early
      BY <2>1, <2>4, <3>2 DEF TypeOK, TreeInv, Early, Authors
    <3> QED
      BY <2>1, <3>1, <3>2, <3>3 DEF TypeOK, TreeInv
  <2> QED
    BY <1>3, <2>3, <2>4 DEF TypeOK, Reset, Goto
<1>4. ASSUME NEW r \in Runs, Remove(r) PROVE TreeInv'
  <2>1. /\ pc[r] = "remove" /\ pc'[r] = "done"
        /\ \A q \in Runs \ {r} : pc'[q] = pc[q]
    BY <1>4 DEF TypeOK, Remove, Goto
  <2>2. Onwards /\ \A q \in Runs : Locked(q)' => Locked(q)
    BY <2>1 DEF Onwards, Early, Locked, Live
  <2>3. \A q \in Runs : pc'[q] = "fetch" <=> pc[q] = "fetch"
    BY <2>1
  <2> QED
    BY <1>4, <2>2, <2>3, TreeGone, TreeKept DEF Remove
<1>5. ASSUME NEW c \in Clones, Dispose(c) PROVE TreeInv'
  <2>1. RemoveTree(c) /\ UNCHANGED pc
    BY <1>5 DEF Dispose, run
  <2> QED
    BY <2>1, TreeGone DEF Onwards, Locked, Live
<1>6. ASSUME NEW r \in Runs, Recover(r) \/ Try(r) \/ PushNothing(r) \/ PushStep(r) \/ PushUnread(r)
                             \/ Salvage(r) \/ Stamp(r) \/ Crash(r)
      PROVE  TreeInv'
  <2>1. UNCHANGED <<tree, dropped>>
    BY <1>6 DEF Recover, Try, Setup, SetupFails, Return, RateLimited, Retry, Accept, After,
                PushNothing, PushStep, PushUnread, Salvage, Stamp, Crash, clone, history
  <2>2. \A q \in Runs \ {r} : pc'[q] = pc[q]
    BY <1>6 DEF TypeOK, Recover, Try, Setup, SetupFails, Return, RateLimited, Retry, Accept, After,
                PushNothing, PushStep, PushUnread, Salvage, Stamp, Crash, Settle, Goto
  <2>3. CASE Crash(r)
    <3>1. pc'[r] = "dead"
      BY <2>3 DEF TypeOK, Crash, Goto
    <3>2. Onwards /\ \A q \in Runs : Locked(q)' => Locked(q)
      BY <2>2, <3>1 DEF Onwards, Early, Locked, Live
    <3>3. \A q \in Runs : pc'[q] = "fetch" => pc[q] = "fetch"
      BY <2>2, <3>1
    <3>4. \A q \in Runs : Locked(q)' => pc'[q] = pc[q]
      BY <2>2, <3>1 DEF Locked, Live
    <3> QED
      BY <2>1, <3>2, <3>4 DEF TypeOK, TreeInv, Onwards, Authors
  <2>4. CASE ~Crash(r)
    <3>1. Locked(r) /\ pc[r] # "fetch" /\ pc'[r] \notin {"off", "fetch"}
      BY <1>6, <2>4 DEF TypeOK, Recover, Try, Setup, SetupFails, Return, RateLimited, Retry, Accept,
                After, AfterResult, PushNothing, PushStep, PushUnread, Salvage, Stamp, Settle, Goto,
                Locked, Live
    <3>2. pc'[r] \in Early => pc[r] \in Early
      BY <1>6, <2>4 DEF TypeOK, Recover, Try, Setup, SetupFails, Return, RateLimited, Retry, Accept,
                After, AfterResult, PushNothing, PushStep, PushUnread, Salvage, Stamp, Settle, Goto, Early
    <3>3. Onwards /\ \A q \in Runs : Locked(q)' => Locked(q)
      BY <2>2, <3>1, <3>2 DEF Onwards, Locked, Live
    <3>4. \A q \in Runs : pc'[q] = "fetch" <=> pc[q] = "fetch"
      BY <2>2, <3>1
    <3> QED
      BY <2>1, <3>3, <3>4, TreeKept
  <2> QED
    BY <2>3, <2>4
<1>7. ASSUME NEW r \in Runs, SalvageCommit(r) \/ Edit(r) \/ Commit(r) \/ WriteResult(r) PROVE TreeInv'
  BY <1>7, TreeKept DEF SalvageCommit, Edit, Commit, WriteResult, run, clone, history, Onwards, Locked, Live
<1>8. CASE OthersPush \/ UNCHANGED vars
  BY <1>8, TreeKept DEF OthersPush, vars, run, clone, history, Onwards, Locked, Live
<1> QED
  BY <1>1, <1>2, <1>3, <1>4, <1>5, <1>6, <1>7, <1>8 DEF Next, Prepare, Finish

----------------------------------------------------------------------------
(* What is recorded as done has been delivered *)

\* Its commits are on the remote, and none of its changes was or can be thrown away.
HasDelivered(r) ==
    /\ CommitsOf(r, count[r]) \subseteq remote
    /\ r \notin dropped
    /\ \A c \in dirty : tree[c] # r

\* Recorded, or about to be.
Claimed(r) == outcome[r] \in Delivered \/ (pc[r] = "stamp" /\ final[r] \in Delivered)

DoneInv ==
    /\ \A r \in Runs : outcome[r] # "none" => pc[r] \in Ended
    /\ \A r \in Runs : Claimed(r) => HasDelivered(r)

\* A run that claims has ended, or is about to stamp its status: nobody but it could
\* undo what it has delivered, and it makes no more commits.
LEMMA DeliveryKept ==
    ASSUME TypeOK, NEW r \in Runs, HasDelivered(r),
           count'[r] = count[r], remote \subseteq remote',
           \A c \in dirty' : tree'[c] = r => c \in dirty /\ tree[c] = r,
           r \in dropped' => r \in dropped \/ \E c \in dirty : tree[c] = r
    PROVE  HasDelivered(r)'
BY DEF HasDelivered, CommitsOf

\* Removing a worktree takes nothing from a run that has delivered.
LEMMA RemovalHarmless ==
    ASSUME TypeOK, NEW r \in Runs, HasDelivered(r), NEW c \in Clones, RemoveTree(c),
           count'[r] = count[r], remote \subseteq remote'
    PROVE  HasDelivered(r)'
BY DEF TypeOK, HasDelivered, RemoveTree, CommitsOf

\* What _push_step_branch passes for delivered.
LEMMA PushDelivers ==
    ASSUME TypeOK, BranchInv, LossInv, TreeInv, NEW r \in Runs,
           PushNothing(r) \/ PushStep(r), final'[r] \in Delivered
    PROVE  HasDelivered(r)'
<1> DEFINE c == Clone[r]
<1>0. c \in Clones /\ Locked(r) /\ pc[r] = "push"
  BY Bounds DEF PushNothing, PushStep, Locked, Live
<1>1. r \notin Sessions /\ tree[c] # Other /\ c \notin dirty
  BY DEF TypeOK, PushNothing, PushStep, Settle, LeftOver, Delivered
<1>2. tree[c] = r
  BY <1>0, <1>1 DEF TreeInv
<1>3. r \notin dropped /\ \A d \in dirty : tree[d] # r
  BY <1>0, <1>1, <1>2, Bounds DEF TypeOK, TreeInv
<1>4. local[c] \subseteq remote'
  <2>1. CASE PushNothing(r)
    BY <1>0, <1>1, <2>1 DEF PushNothing, Ahead, BranchInv
  <2>2. CASE PushStep(r)
    BY <2>2 DEF TypeOK, PushStep, PushLands, Pushed, Settle, Delivered
  <2> QED
    BY <2>1, <2>2
<1>5. CommitsOf(r, count[r]) \subseteq local[c]
  BY <1>0 DEF LossInv
<1>6. UNCHANGED <<count, tree, dirty, dropped>>
  BY DEF PushNothing, PushStep, clone, history
<1> QED
  BY <1>3, <1>4, <1>5, <1>6 DEF HasDelivered, CommitsOf

\* A step that leaves the worktrees and what each run has made alone.
LEMMA DoneKept ==
    ASSUME TypeOK, DoneInv, UNCHANGED <<tree, dirty, dropped>>, remote \subseteq remote',
           \A r \in Runs : count'[r] = count[r],
           \A r \in Runs : outcome'[r] = outcome[r] /\ (pc[r] \in Ended => pc'[r] \in Ended),
           \A r \in Runs : pc'[r] = "stamp" /\ final'[r] \in Delivered => Claimed(r)
    PROVE  DoneInv'
<1>1. \A r \in Runs : Claimed(r)' => Claimed(r)
  BY DEF Claimed
<1>2. \A r \in Runs : HasDelivered(r) => HasDelivered(r)'
  BY DeliveryKept
<1> QED
  BY <1>1, <1>2 DEF DoneInv

LEMMA DoneStep ==
    ASSUME TypeOK, InTurn, BranchInv, LossInv, TreeInv, DoneInv, [Next]_vars
    PROVE  DoneInv'
<1> USE Bounds
<1>1. ASSUME NEW r \in Runs, FetchBranch(r) \/ Remove(r) PROVE DoneInv'
  <2>1. /\ RemoveTree(Clone[r]) \/ UNCHANGED <<tree, dirty, dropped>>
        /\ UNCHANGED <<remote, count, outcome>>
        /\ \A q \in Runs \ {r} : pc'[q] = pc[q] /\ final'[q] = final[q]
        /\ pc'[r] = "stamp" => final'[r] = "failed"
        /\ pc[r] \in Ended => pc'[r] \in Ended
    BY <1>1 DEF TypeOK, FetchBranch, Remove, Forget, Settle, Goto, Ended
  <2>2. \A q \in Runs : Claimed(q)' => Claimed(q)
    BY <2>1 DEF Claimed, Delivered
  <2>3. \A q \in Runs : HasDelivered(q) => HasDelivered(q)'
    BY <2>1, RemovalHarmless, DeliveryKept
  <2> QED
    BY <2>1, <2>2, <2>3 DEF DoneInv
<1>2. ASSUME NEW c \in Clones, Dispose(c) PROVE DoneInv'
  <2>1. RemoveTree(c) /\ UNCHANGED <<remote, count, outcome, pc, final>>
    BY <1>2 DEF Dispose, run
  <2>2. \A q \in Runs : HasDelivered(q) => HasDelivered(q)'
    BY <2>1, RemovalHarmless
  <2> QED
    BY <2>1, <2>2 DEF DoneInv, Claimed
<1>3. ASSUME NEW r \in Runs, Reset(r) PROVE DoneInv'
  <2>1. /\ UNCHANGED <<remote, count, outcome, dirty, dropped>>
        /\ tree' = tree \/ (tree[Clone[r]] = Other /\ tree' = [tree EXCEPT ![Clone[r]] = r])
        /\ \A q \in Runs \ {r} : pc'[q] = pc[q] /\ final'[q] = final[q]
        /\ pc'[r] = "stamp" => final'[r] = "failed"
        /\ pc[r] = "reset"
    BY <1>3 DEF TypeOK, Reset, Settle, Goto, history
  <2>2. \A q \in Runs : Claimed(q)' => Claimed(q) /\ q # r
    BY <2>1 DEF Claimed, DoneInv, Ended, Delivered
  <2>3. \A q \in Runs \ {r} : HasDelivered(q) => HasDelivered(q)'
    BY <2>1, DeliveryKept DEF TypeOK
  <2> QED
    BY <2>1, <2>2, <2>3 DEF DoneInv, Ended
<1>4. ASSUME NEW r \in Runs, Edit(r) PROVE DoneInv'
  <2>1. /\ UNCHANGED <<remote, count, outcome, pc, final, tree, dropped>>
        /\ dirty' = dirty \cup {Clone[r]}
        /\ pc[r] = "agent" /\ Locked(r) /\ tree[Clone[r]] = r
    BY <1>4 DEF Edit, run, history, Locked, Live, TreeInv
  <2>2. \A q \in Runs : Claimed(q) => q # r
    BY <2>1 DEF Claimed, DoneInv, Ended, Delivered
  <2>3. \A q \in Runs \ {r} : HasDelivered(q) => HasDelivered(q)'
    BY <2>1, DeliveryKept
  <2> QED
    BY <2>1, <2>2, <2>3 DEF DoneInv, Claimed
<1>5. ASSUME NEW r \in Runs, Commit(r) \/ SalvageCommit(r) PROVE DoneInv'
  <2>1. /\ UNCHANGED <<remote, outcome, pc, final, tree, dropped>>
        /\ dirty' \subseteq dirty
        /\ pc[r] \in {"agent", "salvage"}
        /\ \A q \in Runs \ {r} : count'[q] = count[q]
    BY <1>5 DEF TypeOK, Commit, SalvageCommit, run, history
  <2>2. \A q \in Runs : Claimed(q) => q # r
    BY <2>1 DEF Claimed, DoneInv, Ended, Delivered
  <2>3. \A q \in Runs \ {r} : HasDelivered(q) => HasDelivered(q)'
    BY <2>1, DeliveryKept
  <2> QED
    BY <2>1, <2>2, <2>3 DEF DoneInv, Claimed
<1>6. ASSUME NEW r \in Runs, PushNothing(r) \/ PushStep(r) PROVE DoneInv'
  <2>1. /\ UNCHANGED <<tree, dirty, dropped, count, outcome>>
        /\ remote \subseteq remote'
        /\ pc[r] = "push" /\ pc'[r] = "stamp"
        /\ \A q \in Runs \ {r} : pc'[q] = pc[q] /\ final'[q] = final[q]
    BY <1>6, PushGrows DEF TypeOK, PushNothing, PushStep, Settle, Goto, clone, history
  <2>2. final'[r] \in Delivered => HasDelivered(r)'
    BY <1>6, PushDelivers
  <2>3. outcome[r] = "none"
    BY <2>1 DEF DoneInv, Ended
  <2>4. \A q \in Runs \ {r} : HasDelivered(q) => HasDelivered(q)'
    BY <2>1, DeliveryKept
  <2> QED
    BY <2>1, <2>2, <2>3, <2>4 DEF DoneInv, Claimed, Delivered, Ended
<1>7. ASSUME NEW r \in Runs, Stamp(r) PROVE DoneInv'
  <2>1. /\ UNCHANGED <<tree, dirty, dropped, count, remote>>
        /\ pc[r] = "stamp" /\ pc'[r] = "remove" /\ outcome'[r] = final[r]
        /\ \A q \in Runs \ {r} : pc'[q] = pc[q] /\ final'[q] = final[q] /\ outcome'[q] = outcome[q]
    BY <1>7 DEF TypeOK, Stamp, Goto, clone, history
  <2>2. \A q \in Runs : HasDelivered(q) => HasDelivered(q)'
    BY <2>1, DeliveryKept
  <2> QED
    BY <2>1, <2>2 DEF DoneInv, Claimed, Ended
<1>8. ASSUME NEW r \in Runs, Start(r) \/ Recover(r) \/ Try(r) \/ PushUnread(r) \/ Salvage(r) \/ Crash(r)
      PROVE  DoneInv'
  <2>1. /\ UNCHANGED <<tree, dirty, dropped, count, outcome>>
        /\ \A q \in Runs \ {r} : pc'[q] = pc[q] /\ final'[q] = final[q]
    BY <1>8 DEF TypeOK, Start, Recover, Try, Setup, SetupFails, Return, RateLimited, Retry, Accept,
                After, PushUnread, Salvage, Crash, Forget, Settle, Goto, clone, history
  <2>2. remote \subseteq remote'
    BY <1>8, PushGrows DEF Start, Recover, Try, Setup, SetupFails, Return, RateLimited, Retry, Accept,
                After, PushUnread, Salvage, Crash
  <2>3. pc[r] \in Ended => pc'[r] \in Ended
    BY <1>8 DEF TypeOK, Start, Recover, Try, Setup, SetupFails, Return, RateLimited, Retry, Accept,
                After, PushUnread, Salvage, Crash, Goto, Ended
  <2>4. pc'[r] = "stamp" => final'[r] \notin Delivered
    <3>1. CASE After(r)
      <4>1. pc'[r] = AfterResult(r)
        BY <3>1 DEF TypeOK, After, Goto
      <4>2. AfterResult(r) = "stamp" => final[r] # "limited" /\ got[r].says \notin Delivered
        BY DEF AfterResult, NoResult, Delivered
      <4>3. final[r] # "limited" /\ got[r].says \notin Delivered => final'[r] \notin Delivered
        BY <3>1 DEF TypeOK, After, Delivered
      <4> QED
        BY <4>1, <4>2, <4>3
    <3>2. CASE Start(r) \/ Recover(r) \/ Setup(r) \/ SetupFails(r) \/ Return(r) \/ RateLimited(r)
               \/ Retry(r) \/ Accept(r) \/ Crash(r)
      BY <3>2 DEF TypeOK, Start, Recover, Setup, SetupFails, Return, RateLimited, Retry, Accept,
                  Crash, Goto
    <3>3. CASE PushUnread(r) \/ Salvage(r)
      BY <3>3 DEF TypeOK, PushUnread, Salvage, Settle, Delivered
    <3> QED
      BY <1>8, <3>1, <3>2, <3>3 DEF Try
  <2>5. \A q \in Runs : pc'[q] = "stamp" /\ final'[q] \in Delivered => Claimed(q)
    BY <2>1, <2>4 DEF Claimed
  <2> QED
    BY <2>1, <2>2, <2>3, <2>5, DoneKept
<1>9. ASSUME NEW r \in Runs, WriteResult(r) PROVE DoneInv'
  BY <1>9, DoneKept DEF WriteResult, clone, run, history, Claimed
<1>10. CASE OthersPush
  <2>1. \A r \in Runs : count'[r] = count[r]
    BY <1>10 DEF TypeOK, OthersPush
  <2> QED
    BY <1>10, <2>1, DoneKept DEF OthersPush, clone, run, history, Claimed
<1>11. CASE UNCHANGED vars
  BY <1>11, DoneKept DEF vars, clone, run, history, Claimed
<1> QED
  BY <1>1, <1>2, <1>3, <1>4, <1>5, <1>6, <1>7, <1>8, <1>9, <1>10, <1>11 DEF Next, Prepare, Finish

----------------------------------------------------------------------------
(* Whose result it is *)

\* Until it has read a result, a run has none; and if its scratch directory was emptied,
\* what lies there is of its own attempt.
OwnInv ==
    /\ \A r \in Runs : pc[r] \in Early \cup {"before", "agent", "read"} => got[r] = NoResult
    /\ \A r \in Runs : pc[r] \in {"agent", "read"} /\ r \notin unclean =>
          \/ scratch[Clone[r]] = NoResult
          \/ scratch[Clone[r]].by = r /\ scratch[Clone[r]].at = attempt[r]
    /\ ResultIsOwn

\* A step of one run that is not its own to write or to read a result.
LEMMA OwnKept ==
    ASSUME TypeOK, OwnInv, UNCHANGED <<attempt, got, unclean>>,
           \A c \in Clones : scratch'[c] \in {scratch[c], NoResult},
           \A r \in Runs :
              /\ pc'[r] \in {"agent", "read"} => pc[r] \in {"agent", "read"}
              /\ pc'[r] \in Early \cup {"before"} => pc[r] \in Early \cup {"before"}
    PROVE  OwnInv'
BY Bounds DEF OwnInv, ResultIsOwn

\* A run is over: it has no result any more.
LEMMA OwnForgotten ==
    ASSUME TypeOK, OwnInv, NEW r \in Runs, Forget(r), UNCHANGED scratch,
           pc'[r] \in {"done", "dead"}, \A q \in Runs \ {r} : pc'[q] = pc[q]
    PROVE  OwnInv'
<1>1. /\ got'[r] = NoResult
      /\ \A q \in Runs \ {r} : got'[q] = got[q] /\ attempt'[q] = attempt[q]
                               /\ (q \in unclean' <=> q \in unclean)
  BY DEF TypeOK, Forget
<1> QED
  BY <1>1, NoResultTypes DEF OwnInv, ResultIsOwn, Early

LEMMA OwnStep == ASSUME TypeOK, InTurn, OwnInv, [Next]_vars PROVE OwnInv'
<1> USE Bounds, NoResultTypes
<1>0. \A r \in Runs : Clone[r] \in Clones
  OBVIOUS
<1>1. ASSUME NEW r \in Runs, Remove(r) \/ Crash(r) PROVE OwnInv'
  BY <1>1, OwnForgotten DEF TypeOK, Remove, Crash, Goto
<1>2. ASSUME NEW r \in Runs, Setup(r) \/ SetupFails(r) PROVE OwnInv'
  <2>1. /\ pc[r] = "before" /\ pc'[r] \in {"agent", "read"}
        /\ \A q \in Runs \ {r} : pc'[q] = pc[q] /\ (q \in unclean' <=> q \in unclean)
        /\ UNCHANGED <<attempt, got>>
        /\ \A c \in Clones : scratch'[c] \in {scratch[c], NoResult}
        /\ r \notin unclean' => scratch'[Clone[r]] = NoResult
    BY <1>0, <1>2 DEF TypeOK, Setup, SetupFails, Goto, Cleaned
  <2>2. got[r] = NoResult
    BY <2>1 DEF OwnInv
  <2> QED
    BY <1>0, <2>1, <2>2 DEF OwnInv, ResultIsOwn, Early
<1>3. ASSUME NEW r \in Runs, WriteResult(r) PROVE OwnInv'
  <2>1. /\ UNCHANGED <<pc, attempt, got, unclean>>
        /\ scratch'[Clone[r]].by = r /\ scratch'[Clone[r]].at = attempt[r]
        /\ \A c \in Clones \ {Clone[r]} : scratch'[c] = scratch[c]
        /\ pc[r] = "agent"
    BY <1>0, <1>3 DEF TypeOK, WriteResult, run, history
  <2>2. \A q \in Runs \ {r} : pc[q] \notin {"agent", "read"}
    BY <2>1, Alone DEF Locked, Live, Ended
  <2> QED
    BY <1>0, <2>1, <2>2 DEF OwnInv, ResultIsOwn
<1>4. ASSUME NEW r \in Runs, Retry(r) PROVE OwnInv'
  <2>1. /\ pc[r] = "read" /\ pc'[r] = "before"
        /\ \A q \in Runs \ {r} : pc'[q] = pc[q] /\ attempt'[q] = attempt[q]
        /\ UNCHANGED <<scratch, got, unclean>>
    BY <1>4 DEF TypeOK, Retry, Goto, history
  <2>2. got[r] = NoResult
    BY <2>1 DEF OwnInv
  <2> QED
    BY <2>1, <2>2 DEF OwnInv, ResultIsOwn, Early
<1>5. ASSUME NEW r \in Runs, Accept(r) PROVE OwnInv'
  <2>1. /\ pc[r] = "read" /\ pc'[r] = "after"
        /\ got'[r] = scratch[Clone[r]]
        /\ \A q \in Runs \ {r} : pc'[q] = pc[q] /\ got'[q] = got[q]
        /\ UNCHANGED <<scratch, attempt, unclean>>
    BY <1>5 DEF TypeOK, Accept, Goto, history
  <2> QED
    BY <2>1 DEF OwnInv, ResultIsOwn, Early
<1>6. ASSUME NEW r \in Runs, Prepare(r) \/ Return(r) \/ RateLimited(r) \/ After(r)
                             \/ PushNothing(r) \/ PushStep(r) \/ PushUnread(r) \/ Salvage(r) \/ Stamp(r)
      PROVE  OwnInv'
  <2>1. UNCHANGED <<attempt, got, unclean>>
    BY <1>6 DEF Prepare, Start, FetchBranch, Recover, Reset, Return, RateLimited, After, PushNothing,
                PushStep, PushUnread, Salvage, Stamp, history
  <2>2. \A c \in Clones : scratch'[c] \in {scratch[c], NoResult}
    BY <1>0, <1>6 DEF TypeOK, Prepare, Start, FetchBranch, Recover, Reset, Return, RateLimited, After,
                PushNothing, PushStep, PushUnread, Salvage, Stamp
  <2>3. \A q \in Runs \ {r} : pc'[q] = pc[q]
    BY <1>6 DEF TypeOK, Prepare, Start, FetchBranch, Recover, Reset, Return, RateLimited, After,
                PushNothing, PushStep, PushUnread, Salvage, Stamp, Settle, Goto
  <2>4. CASE Prepare(r)
    <3>1. pc[r] \in Early /\ pc'[r] \notin {"agent", "read"}
      BY <2>4 DEF TypeOK, Prepare, Start, FetchBranch, Recover, Reset, Settle, Goto, Early
    <3> QED
      BY <2>1, <2>2, <2>3, <3>1, OwnKept DEF Early
  <2>5. CASE Return(r) \/ RateLimited(r)
    <3>1. pc[r] = "agent" /\ pc'[r] \in {"read", "after"}
      BY <2>5 DEF TypeOK, Return, RateLimited, Goto
    <3> QED
      BY <2>1, <2>2, <2>3, <3>1, OwnKept DEF Early
  <2>6. CASE After(r) \/ PushNothing(r) \/ PushStep(r) \/ PushUnread(r) \/ Salvage(r) \/ Stamp(r)
    <3>1. pc'[r] \notin Early \cup {"before", "agent", "read"}
      BY <2>6 DEF TypeOK, After, AfterResult, PushNothing, PushStep, PushUnread, Salvage, Stamp,
                  Settle, Goto, Early
    <3> QED
      BY <2>1, <2>2, <2>3, <3>1, OwnKept DEF Early
  <2> QED
    BY <1>6, <2>4, <2>5, <2>6
<1>7. ASSUME NEW r \in Runs, Edit(r) \/ Commit(r) \/ SalvageCommit(r) PROVE OwnInv'
  BY <1>7, OwnKept DEF Edit, Commit, SalvageCommit, run, history
<1>8. ASSUME NEW c \in Clones, Dispose(c) PROVE OwnInv'
  BY <1>8, OwnKept DEF TypeOK, Dispose, run
<1>9. CASE OthersPush \/ UNCHANGED vars
  BY <1>9, OwnKept DEF OthersPush, vars, run, history
<1> QED
  BY <1>1, <1>2, <1>3, <1>4, <1>5, <1>6, <1>7, <1>8, <1>9 DEF Next, Try, Finish

----------------------------------------------------------------------------
(* The theorems *)

Inv == TypeOK /\ InTurn /\ BranchInv /\ LossInv /\ TreeInv /\ DoneInv /\ OwnInv

LEMMA Initially == Init => Inv
<1> USE Bounds
<1>1. Init => BranchInv
  BY DEF Init, BranchInv
<1>2. Init => LossInv
  BY OneMore DEF Init, LossInv, NothingLostInSilence, Locked, Live
<1>3. Init => TreeInv /\ InTurn
  BY DEF Init, TreeInv, InTurn, Locked, Live
<1>4. Init => DoneInv
  BY DEF Init, DoneInv, Claimed, Delivered
<1>5. Init => OwnInv
  BY NoResultTypes DEF Init, OwnInv, ResultIsOwn
<1> QED
  BY <1>1, <1>2, <1>3, <1>4, <1>5, TypesAtFirst DEF Inv

LEMMA Invariance == Spec => []Inv
<1>1. TypeOK /\ [Next]_vars => TypeOK'
  BY TypePreparing, TypeTrying, TypeFinishing, TypeAround DEF Next
<1>2. Inv /\ [Next]_vars => Inv'
  BY <1>1, InTurnStep, BranchStep, LossStep, TreeStep, DoneStep, OwnStep DEF Inv
<1> QED
  BY <1>2, Initially, PTL DEF Spec

\* A run recorded as complete, or for review, has its commits on the remote and left no
\* change behind, whatever other runs, crashes and failed calls there were
\* (_push_step_branch).
THEOREM CompleteIsAlwaysDurable == Spec => []CompleteIsDurable
<1>1. Inv => CompleteIsDurable
  BY DEF Inv, DoneInv, Claimed, HasDelivered, CompleteIsDurable
<1> QED
  BY <1>1, Invariance, PTL

\* Every commit a run ever made is on the remote or in its clone, unless a push of it was
\* refused or failed, or the clone was thrown away (_recover_unpushed_commits before
\* git worktree add -B, _salvage_exhausted_worktree).
THEOREM NothingIsLostInSilence == Spec => []NothingLostInSilence
<1>1. Inv => NothingLostInSilence
  BY DEF Inv, LossInv
<1> QED
  BY <1>1, Invariance, PTL

\* The result a run goes by is that of its own last attempt, unless its scratch directory
\* was not emptied (agent_lifecycle.before, _read_step_result).
THEOREM ResultIsAlwaysOwn == Spec => []ResultIsOwn
<1>1. Inv => ResultIsOwn
  BY DEF Inv, OwnInv
<1> QED
  BY <1>1, Invariance, PTL

\* The runs recorded as done, and what they have made, which is not touched again.
LEMMA VouchedKept ==
    ASSUME Inv, NEW w \in Authors, \A v \in Authors \ {w} : count'[v] = count[v],
           w \in Runs => outcome[w] \notin Delivered,
           UNCHANGED outcome
    PROVE  Vouched' = Vouched
<1>1. \A r \in Runs : outcome[r] \in Delivered => CommitsOf(r, count[r])' = CommitsOf(r, count[r])
  BY Bounds DEF CommitsOf
<1> QED
  BY <1>1 DEF Vouched

LEMMA RemoteGrows ==
    ASSUME Inv, [Next]_vars
    PROVE  remote \subseteq remote'
<1>1. ASSUME NEW r \in Runs, Recover(r) \/ PushStep(r) \/ Salvage(r) PROVE remote \subseteq remote'
  BY <1>1, PushGrows, Bounds DEF Inv, Recover, PushStep, Salvage
<1>2. CASE OthersPush \/ UNCHANGED vars
  BY <1>2 DEF OthersPush, vars
<1>3. ASSUME NEW r \in Runs, Prepare(r) \/ Try(r) \/ Edit(r) \/ Commit(r) \/ WriteResult(r) \/ Finish(r)
                             \/ Crash(r),
             ~(Recover(r) \/ PushStep(r) \/ Salvage(r))
      PROVE  remote = remote'
  BY <1>3 DEF Prepare, Start, FetchBranch, Reset, Try, Setup, SetupFails, Return, RateLimited, Retry,
              Accept, After, Edit, Commit, WriteResult, Finish, PushNothing, PushUnread, SalvageCommit,
              Stamp, Remove, Crash
<1>4. ASSUME NEW c \in Clones, Dispose(c) PROVE remote \subseteq remote'
  BY <1>4 DEF Dispose
<1> QED
  BY <1>1, <1>2, <1>3, <1>4 DEF Next

\* A step counts at most one more commit, and not of a run recorded as done; or it
\* records a status.
LEMMA CountsOrStamps ==
    ASSUME Inv, [Next]_vars
    PROVE  \/ UNCHANGED outcome /\ \E w \in Authors :
                 /\ count' = count \/ count' = [count EXCEPT ![w] = @ + 1]
                 /\ w \in Runs => outcome[w] \notin Delivered
           \/ \E r \in Runs : Stamp(r)
<1> DEFINE Counts(w) == /\ count' = count \/ count' = [count EXCEPT ![w] = @ + 1]
                        /\ w \in Runs => outcome[w] \notin Delivered
<1>1. ASSUME NEW r \in Runs, Commit(r) \/ SalvageCommit(r) PROVE UNCHANGED outcome /\ Counts(r)
  <2>1. pc[r] \in {"agent", "salvage"}
    BY <1>1 DEF Commit, SalvageCommit
  <2>2. outcome[r] \notin Delivered
    BY <2>1 DEF Inv, DoneInv, Ended, Delivered
  <2> QED
    BY <1>1, <2>2 DEF Commit, SalvageCommit, run
<1>2. OthersPush => UNCHANGED outcome /\ Counts(Other)
  BY Bounds DEF OthersPush, run
<1>3. (\E c \in Clones : Dispose(c)) \/ UNCHANGED vars => UNCHANGED outcome /\ Counts(Other)
  BY Bounds DEF Dispose, vars, run
<1>4. ASSUME NEW r \in Runs, Prepare(r) \/ Try(r) \/ Edit(r) \/ WriteResult(r) \/ Finish(r) \/ Crash(r),
             ~SalvageCommit(r), ~Stamp(r)
      PROVE  UNCHANGED outcome /\ Counts(Other)
  BY <1>4, Bounds DEF Prepare, Start, FetchBranch, Recover, Reset, Try, Setup, SetupFails, Return,
              RateLimited, Retry, Accept, After, Edit, WriteResult, Finish, PushNothing, PushStep,
              PushUnread, Salvage, Remove, Crash, Forget, run
<1> QED
  BY <1>1, <1>2, <1>3, <1>4, Bounds DEF Next, Finish

LEMMA MadeNeverShrinks ==
    ASSUME TypeOK, NEW w \in Authors, count' = count \/ count' = [count EXCEPT ![w] = @ + 1]
    PROVE  Made \subseteq Made' /\ \A v \in Authors \ {w} : count'[v] = count[v]
<1>1. count' = count => Made' = Made
  BY DEF Made, CommitsOf
<1> QED
  BY <1>1, MadeGrows DEF TypeOK

\* Every step of the runs is a step of DurableWork: work, or a run recorded as done whose
\* commits have landed.
LEMMA StepRefines == ASSUME Inv, Inv', [Next]_vars PROVE [Work!Next]_(Work!vars)
<1>1. remote \subseteq remote'
  BY RemoteGrows
<1>2. remote' \subseteq Made'
  BY DEF Inv, BranchInv
<1>3. ASSUME UNCHANGED outcome, NEW w \in Authors,
             count' = count \/ count' = [count EXCEPT ![w] = @ + 1],
             w \in Runs => outcome[w] \notin Delivered
      PROVE  Work!Work
  <2>1. Made \subseteq Made' /\ Vouched' = Vouched
    BY <1>3, MadeNeverShrinks, VouchedKept DEF Inv
  <2> QED
    BY <1>1, <1>2, <2>1 DEF Work!Work
<1>4. ASSUME NEW r \in Runs, Stamp(r) PROVE Work!Vouch
  <2>1. /\ UNCHANGED <<count, remote>>
        /\ outcome[r] = "none"
        /\ \A q \in Runs \ {r} : outcome'[q] = outcome[q]
    BY <1>4 DEF Stamp, Inv, TypeOK, DoneInv, Ended
  <2>2. Made' = Made /\ \A q \in Runs : CommitsOf(q, count[q])' = CommitsOf(q, count[q])
    BY <2>1 DEF Made, CommitsOf
  <2>3. Vouched \subseteq Vouched'
    BY <2>1, <2>2 DEF Vouched, Delivered
  <2>4. \A q \in Runs : outcome'[q] \in Delivered => CommitsOf(q, count[q])' \subseteq remote'
    BY DEF Inv, DoneInv, Claimed, HasDelivered
  <2>5. Vouched' \subseteq remote
    BY <2>1, <2>4 DEF Vouched
  <2> QED
    BY <2>1, <2>2, <2>3, <2>5 DEF Work!Vouch
<1> QED
  BY <1>3, <1>4, CountsOrStamps DEF Work!Next

\* The runs implement DurableWork: what has reached the remote stays there, and nobody is
\* told that a step is done whose commits have not reached it.
THEOREM RunsImplementDurableWork == Spec => WorkIsDurable
<1>1. Init => Work!Init
  BY OneMore DEF Init, Work!Init, Made, Vouched, Delivered, Authors
<1>2. Inv /\ Inv' /\ [Next]_vars => [Work!Next]_(Work!vars)
  BY StepRefines
<1> QED
  BY <1>1, <1>2, Invariance, PTL DEF Spec, WorkIsDurable, Work!Spec

----------------------------------------------------------------------------
(* What a spent run leaves behind *)

\* Where a run that is not a session has its worktree.
AtWork == {"before", "agent", "read", "after", "push", "salvage"}

\* A run that began with its clone to itself keeps it for as long as it holds the lock,
\* and with it the worktree that it added.
KeptInv ==
    \A r \in Runs \ crowded : Locked(r) =>
        /\ \A q \in Runs \ {r} : Clone[q] = Clone[r] => ~Live(q)
        /\ r \notin Sessions /\ pc[r] \in AtWork => tree[Clone[r]] = r

\* A step that begins no run, and takes no worktree from one that has its clone to itself.
LEMMA KeptStays ==
    ASSUME KeptInv, UNCHANGED crowded,
           \A r \in Runs : (Live(r)' => Live(r)) /\ (Locked(r)' => Locked(r)),
           \A r \in Runs \ (crowded \cup Sessions) : Locked(r)' /\ pc'[r] \in AtWork =>
               \/ pc[r] \in AtWork /\ tree'[Clone[r]] = tree[Clone[r]]
               \/ tree'[Clone[r]] = r
    PROVE  KeptInv'
BY DEF KeptInv

LEMMA KeptStart ==
    ASSUME Inv, KeptInv, NEW r \in Runs, Start(r)
    PROVE  KeptInv'
<1>1. /\ pc[r] = "off" /\ pc'[r] \in {"before", "fetch"}
      /\ pc'[r] = "before" => r \in Sessions
      /\ \A q \in Runs \ {r} : pc'[q] = pc[q]
      /\ \A q \in Runs : q < r => ~Locked(q)
      /\ crowded' = IF OthersIn(r) = {} THEN crowded ELSE crowded \cup {r}
      /\ UNCHANGED tree
  BY DEF Inv, TypeOK, Start, Goto, clone
<1>2. \A q \in Runs \ {r} : ~Locked(q)
  <2>1. \A q \in Runs : r < q => pc[q] = "off"
    BY <1>1 DEF Inv, InTurn, Ended
  <2>2. \A q \in Runs \ {r} : q < r \/ r < q
    BY Bounds DEF Runs
  <2> QED
    BY <1>1, <2>1, <2>2 DEF Locked, Live
<1>3. \A q \in Runs \ {r} : ~Locked(q)' /\ Live(q)' = Live(q)
  BY <1>1, <1>2 DEF Locked, Live
<1>4. r \notin crowded' => \A q \in Runs \ {r} : Clone[q] = Clone[r] => ~Live(q)
  BY <1>1 DEF OthersIn
<1>5. ~(r \notin Sessions /\ pc'[r] \in AtWork)
  BY <1>1 DEF AtWork
<1> QED
  BY <1>3, <1>4, <1>5 DEF KeptInv

LEMMA KeptStep == ASSUME Inv, KeptInv, [Next]_vars PROVE KeptInv'
<1>0. TypeOK /\ InTurn
  BY DEF Inv
<1>1. ASSUME NEW r \in Runs, Start(r) PROVE KeptInv'
  BY <1>1, KeptStart
<1>2. ASSUME NEW r \in Runs, FetchBranch(r) PROVE KeptInv'
  <2>1. /\ pc[r] = "fetch" /\ pc'[r] \in {"recover", "stamp"}
        /\ \A q \in Runs \ {r} : pc'[q] = pc[q]
        /\ UNCHANGED crowded
    BY <1>0, <1>2 DEF TypeOK, FetchBranch, Settle, Goto
  <2>2. \A q \in Runs \ {r} : ~Locked(q)'
    BY <1>0, <2>1, Alone DEF Locked, Live, Ended
  <2>3. \A q \in Runs : (Live(q)' => Live(q)) /\ (Locked(q)' => Locked(q))
    BY <2>1 DEF Locked, Live
  <2>4. pc'[r] \notin AtWork
    BY <2>1 DEF AtWork
  <2> QED
    BY <2>1, <2>2, <2>3, <2>4, KeptStays
<1>3. ASSUME NEW r \in Runs, Reset(r) PROVE KeptInv'
  <2>1. /\ pc[r] = "reset" /\ pc'[r] \in {"before", "stamp"}
        /\ \A q \in Runs \ {r} : pc'[q] = pc[q]
        /\ UNCHANGED crowded
        /\ pc'[r] = "before" => tree'[Clone[r]] = r
    BY <1>0, <1>3, Bounds DEF TypeOK, Reset, Settle, Goto, history
  <2>2. \A q \in Runs \ {r} : ~Locked(q)'
    BY <1>0, <2>1, Alone DEF Locked, Live, Ended
  <2>3. \A q \in Runs : (Live(q)' => Live(q)) /\ (Locked(q)' => Locked(q))
    BY <2>1 DEF Locked, Live
  <2>4. pc'[r] \in AtWork => tree'[Clone[r]] = r
    BY <2>1 DEF AtWork
  <2> QED
    BY <2>1, <2>2, <2>3, <2>4, KeptStays
<1>4. ASSUME NEW r \in Runs, Remove(r) PROVE KeptInv'
  <2>1. /\ pc[r] = "remove" /\ pc'[r] = "done"
        /\ \A q \in Runs \ {r} : pc'[q] = pc[q]
        /\ UNCHANGED crowded
        /\ \A c \in Clones \ {Clone[r]} : tree'[c] = tree[c]
    BY <1>0, <1>4 DEF TypeOK, Remove, RemoveTree, Goto
  <2>2. \A q \in Runs : (Live(q)' => Live(q)) /\ (Locked(q)' => Locked(q) /\ q # r)
    BY <2>1 DEF Locked, Live
  <2>3. \A q \in Runs \ crowded : Locked(q) => Clone[q] # Clone[r] \/ q = r
    BY <2>1 DEF KeptInv, Live
  <2>4. \A q \in Runs \ (crowded \cup Sessions) : Locked(q)' /\ pc'[q] \in AtWork =>
           pc[q] \in AtWork /\ tree'[Clone[q]] = tree[Clone[q]]
    BY <2>1, <2>2, <2>3, Bounds
  <2> QED
    BY <2>1, <2>2, <2>4, KeptStays
<1>5. ASSUME NEW c \in Clones, Dispose(c) PROVE KeptInv'
  <2>1. /\ UNCHANGED <<pc, crowded>>
        /\ \A q \in Runs : Clone[q] = c => ~Live(q)
        /\ \A d \in Clones \ {c} : tree'[d] = tree[d]
    BY <1>0, <1>5 DEF TypeOK, Dispose, RemoveTree, run
  <2>2. \A q \in Runs : (Live(q)' => Live(q)) /\ (Locked(q)' => Locked(q) /\ Clone[q] # c)
    BY <2>1 DEF Locked, Live
  <2> QED
    BY <2>1, <2>2, KeptStays, Bounds
<1>6. ASSUME NEW r \in Runs, Recover(r) \/ Try(r) \/ PushNothing(r) \/ PushStep(r) \/ PushUnread(r)
                             \/ Salvage(r) \/ Stamp(r) \/ Crash(r)
      PROVE  KeptInv'
  <2>1. UNCHANGED <<tree, crowded>>
    BY <1>6 DEF Recover, Try, Setup, SetupFails, Return, RateLimited, Retry, Accept, After,
                PushNothing, PushStep, PushUnread, Salvage, Stamp, Crash, clone, history
  <2>2. \A q \in Runs \ {r} : pc'[q] = pc[q]
    BY <1>0, <1>6 DEF TypeOK, Recover, Try, Setup, SetupFails, Return, RateLimited, Retry, Accept, After,
                PushNothing, PushStep, PushUnread, Salvage, Stamp, Crash, Settle, Goto
  <2>3. Live(r) /\ (Locked(r)' => Locked(r)) /\ (pc'[r] \in AtWork => pc[r] \in AtWork)
    BY <1>0, <1>6 DEF TypeOK, Recover, Try, Setup, SetupFails, Return, RateLimited, Retry, Accept,
                After, PushNothing, PushStep, PushUnread, Salvage, Stamp, Crash, Settle, Goto,
                Locked, Live, AtWork
  <2>4. \A q \in Runs : (Live(q)' => Live(q)) /\ (Locked(q)' => Locked(q))
    BY <2>2, <2>3 DEF Locked, Live
  <2> QED
    BY <2>1, <2>2, <2>3, <2>4, KeptStays
<1>7. ASSUME NEW r \in Runs, SalvageCommit(r) \/ Edit(r) \/ Commit(r) \/ WriteResult(r) PROVE KeptInv'
  BY <1>7, KeptStays DEF SalvageCommit, Edit, Commit, WriteResult, run, clone, history, Locked, Live
<1>8. CASE OthersPush \/ UNCHANGED vars
  BY <1>8, KeptStays DEF OthersPush, vars, run, clone, history, Locked, Live
<1> QED
  BY <1>1, <1>2, <1>3, <1>4, <1>5, <1>6, <1>7, <1>8 DEF Next, Prepare, Finish

\* A session has no budget to spend; a run is only ever about to be recorded as
\* exhausted once it has been through its salvage.
BudgetInv ==
    \A r \in Runs :
        /\ r \in Sessions => ~over[r]
        /\ pc[r] = "salvage" => r \notin Sessions
        /\ final[r] = "exhausted" => pc[r] \in {"stamp", "remove"}

\* A step of r that leaves what the others know alone.
LEMMA BudgetMoved ==
    ASSUME BudgetInv, NEW r \in Runs,
           \A q \in Runs \ {r} : pc'[q] = pc[q] /\ over'[q] = over[q] /\ final'[q] = final[q],
           r \in Sessions => ~over'[r],
           pc'[r] = "salvage" => r \notin Sessions,
           final'[r] = "exhausted" => pc'[r] \in {"stamp", "remove"}
    PROVE  BudgetInv'
<1> SUFFICES ASSUME NEW q \in Runs
             PROVE  /\ q \in Sessions => ~over'[q]
                    /\ pc'[q] = "salvage" => q \notin Sessions
                    /\ final'[q] = "exhausted" => pc'[q] \in {"stamp", "remove"}
  BY DEF BudgetInv
<1>1. CASE q = r
  BY <1>1
<1>2. CASE q # r
  BY <1>2 DEF BudgetInv
<1> QED
  BY <1>1, <1>2

LEMMA BudgetStep == ASSUME TypeOK, BudgetInv, [Next]_vars PROVE BudgetInv'
<1>1. ASSUME NEW r \in Runs, Prepare(r) PROVE BudgetInv'
  <2>1. /\ pc[r] \in {"off", "fetch", "recover", "reset"} /\ UNCHANGED over
        /\ pc'[r] # "salvage" /\ final'[r] \in {final[r], "failed"}
        /\ \A q \in Runs \ {r} : pc'[q] = pc[q] /\ final'[q] = final[q]
    BY <1>1 DEF TypeOK, Prepare, Start, FetchBranch, Recover, Reset, Settle, Goto
  <2> QED
    BY <2>1, BudgetMoved DEF BudgetInv
<1>2. ASSUME NEW r \in Runs, Setup(r) \/ Return(r) \/ Retry(r) \/ Accept(r) PROVE BudgetInv'
  <2>1. /\ pc[r] \in {"before", "agent", "read"} /\ UNCHANGED final
        /\ pc'[r] # "salvage"
        /\ \A q \in Runs \ {r} : pc'[q] = pc[q] /\ over'[q] = over[q]
        /\ r \in Sessions => ~over'[r]
    BY <1>2 DEF TypeOK, Setup, Return, Retry, Accept, Goto, BudgetInv
  <2> QED
    BY <2>1, BudgetMoved DEF BudgetInv
<1>3. ASSUME NEW r \in Runs, SetupFails(r) \/ RateLimited(r) PROVE BudgetInv'
  <2>1. /\ pc[r] \in {"before", "agent"} /\ final'[r] \in {final[r], "limited"}
        /\ pc'[r] # "salvage"
        /\ \A q \in Runs \ {r} : pc'[q] = pc[q] /\ final'[q] = final[q]
    BY <1>3 DEF TypeOK, SetupFails, RateLimited, Goto
  <2>2. over'[r] = FALSE \/ over' = over
    BY <1>3 DEF TypeOK, SetupFails, RateLimited
  <2>3. \A q \in Runs \ {r} : over'[q] = over[q]
    BY <1>3 DEF TypeOK, SetupFails, RateLimited
  <2> QED
    BY <2>1, <2>2, <2>3, BudgetMoved DEF BudgetInv
<1>4. ASSUME NEW r \in Runs, After(r) PROVE BudgetInv'
  <2>1. /\ UNCHANGED over /\ pc'[r] = AfterResult(r)
        /\ \A q \in Runs \ {r} : pc'[q] = pc[q] /\ final'[q] = final[q]
    BY <1>4 DEF TypeOK, After, Goto
  <2>2. AfterResult(r) = "salvage" => over[r]
    BY DEF AfterResult
  <2>3. final'[r] # "exhausted"
    <3>1. got[r].says \in {"none", "complete", "review", "blocked"}
      BY DEF TypeOK, Results, Says, Valid
    <3>2. final'[r] \in {"limited", "review", "failed", got[r].says}
      BY <1>4 DEF TypeOK, After
    <3> QED
      BY <3>1, <3>2
  <2> QED
    BY <2>1, <2>2, <2>3, BudgetMoved DEF BudgetInv
<1>5. ASSUME NEW r \in Runs, PushNothing(r) \/ PushStep(r) \/ PushUnread(r) \/ Salvage(r) \/ Stamp(r)
      PROVE  BudgetInv'
  <2>1. /\ UNCHANGED over /\ pc'[r] \in {"stamp", "remove"}
        /\ \A q \in Runs \ {r} : pc'[q] = pc[q] /\ final'[q] = final[q]
    BY <1>5 DEF TypeOK, PushNothing, PushStep, PushUnread, Salvage, Stamp, Settle, Goto
  <2> QED
    BY <2>1, BudgetMoved DEF BudgetInv
<1>6. ASSUME NEW r \in Runs, Remove(r) \/ Crash(r) PROVE BudgetInv'
  <2>1. /\ over'[r] = FALSE /\ final'[r] = "none" /\ pc'[r] \in {"done", "dead"}
        /\ \A q \in Runs \ {r} : pc'[q] = pc[q] /\ over'[q] = over[q] /\ final'[q] = final[q]
    BY <1>6 DEF TypeOK, Remove, Crash, Forget, Goto
  <2> QED
    BY <2>1, BudgetMoved
<1>7. ASSUME NEW r \in Runs, Edit(r) \/ Commit(r) \/ WriteResult(r) \/ SalvageCommit(r) PROVE BudgetInv'
  BY <1>7 DEF Edit, Commit, WriteResult, SalvageCommit, run, BudgetInv
<1>8. CASE (\E c \in Clones : Dispose(c)) \/ OthersPush \/ UNCHANGED vars
  BY <1>8 DEF Dispose, OthersPush, vars, run, BudgetInv
<1> QED
  BY <1>1, <1>2, <1>3, <1>4, <1>5, <1>6, <1>7, <1>8 DEF Next, Try, Finish

\* None of its changes was thrown away or can be.
Safe(r) == r \notin dropped /\ \A c \in dirty : tree[c] # r

\* A worktree that is taken away drops only what is in it.
LEMMA SafeRemoved ==
    ASSUME TypeOK, NEW r \in Runs, Safe(r), NEW c \in Clones, RemoveTree(c)
    PROVE  Safe(r)'
BY DEF TypeOK, Safe, RemoveTree

\* A run that does not work any more is safe when it was.
LEMMA SafeStays ==
    ASSUME Inv, [Next]_vars, NEW r \in Runs, pc[r] \in Ended \cup {"stamp"}, Safe(r)
    PROVE  Safe(r)'
<1>0. TypeOK /\ TreeInv
  BY DEF Inv
<1>1. ASSUME NEW q \in Runs, FetchBranch(q) \/ Remove(q) PROVE Safe(r)'
  <2>1. RemoveTree(Clone[q]) \/ UNCHANGED <<tree, dirty, dropped>>
    BY <1>1 DEF FetchBranch, Remove
  <2> QED
    BY <1>0, <2>1, SafeRemoved, Bounds DEF Safe
<1>2. ASSUME NEW c \in Clones, Dispose(c) PROVE Safe(r)'
  BY <1>0, <1>2, SafeRemoved DEF Dispose
<1>3. ASSUME NEW q \in Runs, Reset(q) PROVE Safe(r)'
  <2>1. /\ UNCHANGED <<dirty, dropped>> /\ q # r
        /\ tree' = tree \/ (tree[Clone[q]] = Other /\ tree' = [tree EXCEPT ![Clone[q]] = q])
    BY <1>3 DEF Reset, history, Ended
  <2> QED
    BY <1>0, <2>1 DEF TypeOK, Safe
<1>4. ASSUME NEW q \in Runs, Edit(q) PROVE Safe(r)'
  <2>1. /\ UNCHANGED <<tree, dropped>> /\ dirty' = dirty \cup {Clone[q]}
        /\ pc[q] = "agent" /\ q \notin Sessions /\ tree[Clone[q]] # Other
    BY <1>4 DEF Edit, history
  <2>2. tree[Clone[q]] = q
    BY <1>0, <2>1 DEF TreeInv, Locked, Live
  <2>3. q # r
    BY <2>1 DEF Ended
  <2> QED
    BY <2>1, <2>2, <2>3 DEF Safe
<1>5. ASSUME NEW q \in Runs, Commit(q) \/ SalvageCommit(q) PROVE Safe(r)'
  BY <1>5 DEF Commit, SalvageCommit, history, Safe
<1>6. ASSUME NEW q \in Runs, \/ Start(q) \/ Recover(q) \/ Try(q) \/ WriteResult(q) \/ PushNothing(q)
                             \/ PushStep(q) \/ PushUnread(q) \/ Salvage(q) \/ Stamp(q) \/ Crash(q)
      PROVE  Safe(r)'
  <2>1. UNCHANGED <<tree, dirty, dropped>>
    BY <1>6 DEF Start, Recover, Try, Setup, SetupFails, Return, RateLimited, Retry, Accept, After,
                WriteResult, PushNothing, PushStep, PushUnread, Salvage, Stamp, Crash, clone, history
  <2> QED
    BY <2>1 DEF Safe
<1>7. CASE OthersPush \/ UNCHANGED vars
  BY <1>7 DEF OthersPush, vars, clone, history, Safe
<1> QED
  BY <1>1, <1>2, <1>3, <1>4, <1>5, <1>6, <1>7 DEF Next, Prepare, Finish

\* Faults are never taken back.
LEMMA FaultsStay == ASSUME Inv, [Next]_vars, faults' = 0 PROVE faults = 0
<1>1. faults \in Nat /\ (faults' = faults \/ faults' = faults + 1)
  BY Bounds DEF Inv, TypeOK, Next, Prepare, Start, FetchBranch, Recover, Reset, PushLands, Pushed, PushFails, Try, Setup,
     SetupFails, Return, RateLimited, Retry, Accept, After, Edit, Commit, WriteResult, Finish,
     PushNothing, PushStep, PushUnread, SalvageCommit, Salvage, Stamp, Remove, Crash, Dispose,
     OthersPush, Fault, vars
<1> QED
  BY <1>1

\* What was refused stays refused.
LEMMA RefusedGrows == ASSUME Inv, [Next]_vars PROVE refused \subseteq refused'
<1>1. ASSUME NEW r \in Runs, Recover(r) \/ PushStep(r) \/ Salvage(r) PROVE refused \subseteq refused'
  BY <1>1, PushGrows, Bounds DEF Inv, Recover, PushStep, Salvage
<1>2. ASSUME NEW r \in Runs, Prepare(r) \/ Try(r) \/ Edit(r) \/ Commit(r) \/ WriteResult(r) \/ Finish(r)
                             \/ Crash(r),
             ~(Recover(r) \/ PushStep(r) \/ Salvage(r))
      PROVE  refused' = refused
  BY <1>2 DEF Prepare, Start, FetchBranch, Reset, Try, Setup, SetupFails, Return, RateLimited, Retry,
              Accept, After, Edit, Commit, WriteResult, Finish, PushNothing, PushUnread, SalvageCommit,
              Stamp, Remove, Crash, history
<1>3. CASE (\E c \in Clones : Dispose(c)) \/ OthersPush \/ UNCHANGED vars
  BY <1>3 DEF Dispose, OthersPush, vars, history
<1> QED
  BY <1>1, <1>2, <1>3 DEF Next

\* A run makes no commit once it is being recorded.
LEMMA CountStays ==
    ASSUME Inv, [Next]_vars, NEW r \in Runs, pc[r] \in Ended \cup {"stamp"}
    PROVE  count'[r] = count[r]
<1>1. ASSUME NEW q \in Runs, Commit(q) \/ SalvageCommit(q) PROVE count'[r] = count[r]
  <2>1. q # r
    BY <1>1 DEF Commit, SalvageCommit, Ended
  <2> QED
    BY <1>1, <2>1, Bounds DEF Inv, TypeOK, Commit, SalvageCommit
<1>2. OthersPush => count'[r] = count[r]
  BY Bounds DEF Inv, TypeOK, OthersPush
<1>3. ASSUME NEW q \in Runs, Prepare(q) \/ Try(q) \/ Edit(q) \/ WriteResult(q) \/ Finish(q) \/ Crash(q),
             ~SalvageCommit(q)
      PROVE  count' = count
  BY <1>3 DEF Prepare, Start, FetchBranch, Recover, Reset, Try, Setup, SetupFails, Return,
              RateLimited, Retry, Accept, After, Edit, WriteResult, Finish, PushNothing, PushStep,
              PushUnread, Salvage, Stamp, Remove, Crash
<1>4. (\E c \in Clones : Dispose(c)) \/ UNCHANGED vars => count' = count
  BY DEF Dispose, vars
<1> QED
  BY <1>1, <1>2, <1>3, <1>4 DEF Next, Finish

\* Recorded as exhausted, or about to be.
Spent(r) == outcome[r] = "exhausted" \/ (pc[r] = "stamp" /\ final[r] = "exhausted")

HasSalvaged(r) == CommitsOf(r, count[r]) \subseteq remote \cup refused /\ Safe(r)

SpentInv == faults = 0 => \A r \in Runs \ crowded : Spent(r) => HasSalvaged(r)

LEMMA SpentAtEnd == ASSUME Inv, NEW r \in Runs, Spent(r) PROVE pc[r] \in Ended \cup {"stamp"}
BY DEF Inv, DoneInv, Spent

LEMMA SalvagedStays ==
    ASSUME Inv, [Next]_vars, NEW r \in Runs, Spent(r), HasSalvaged(r)
    PROVE  HasSalvaged(r)'
<1>1. pc[r] \in Ended \cup {"stamp"}
  BY SpentAtEnd
<1>2. Safe(r)' /\ count'[r] = count[r]
  BY <1>1, SafeStays, CountStays DEF HasSalvaged
<1>3. CommitsOf(r, count[r])' = CommitsOf(r, count[r])
  BY <1>2 DEF CommitsOf
<1> QED
  BY <1>2, <1>3, RemoteGrows, RefusedGrows DEF HasSalvaged

\* The salvage of a run whose worktree nobody has taken: with no call failing, all it
\* left uncommitted has been committed, and all it has committed is pushed or refused.
LEMMA SalvageDelivers ==
    ASSUME Inv, KeptInv, BudgetInv, NEW r \in Runs \ crowded, Salvage(r), faults' = 0
    PROVE  HasSalvaged(r)'
<1> DEFINE c == Clone[r]
<1>0. /\ TypeOK /\ BranchInv /\ LossInv /\ TreeInv
      /\ c \in Clones /\ Locked(r) /\ pc[r] = "salvage"
      /\ faults \in Nat
  BY Bounds DEF Inv, TypeOK, Salvage, Locked, Live
<1>1. tree[c] = r /\ r # Other
  <2>1. r \notin Sessions
    BY <1>0 DEF BudgetInv
  <2> QED
    BY <1>0, <2>1, Bounds DEF KeptInv, AtWork
<1>2. ~Fault
  BY <1>0 DEF Fault
<1>3. /\ c \notin dirty
      /\ IF Ahead(c) # {} THEN PushLands(c) \/ PushFails(c) ELSE UNCHANGED <<remote, track, refused, faults>>
  BY <1>1, <1>2 DEF Salvage, Salvageable
<1>4. CommitsOf(r, count[r]) \subseteq local[c] /\ track[c] \subseteq remote
  BY <1>0 DEF LossInv, BranchInv
<1>5. local[c] \subseteq remote' \cup refused'
  <2>1. CASE Ahead(c) = {}
    BY <1>3, <1>4, <2>1 DEF Ahead
  <2>2. CASE PushLands(c)
    BY <2>2 DEF PushLands, Pushed
  <2>3. CASE PushFails(c)
    BY <1>2, <1>4, <2>3 DEF PushFails, Ahead
  <2> QED
    BY <1>3, <2>1, <2>2, <2>3
<1>6. UNCHANGED <<count, tree, dirty, dropped>>
  BY DEF Salvage
<1>7. Safe(r)
  BY <1>0, <1>1, <1>3, Bounds DEF Safe, TypeOK, TreeInv
<1> QED
  BY <1>4, <1>5, <1>6, <1>7 DEF HasSalvaged, Safe, CommitsOf

\* Nobody becomes spent but by a salvage.
LEMMA SpentBySalvage ==
    ASSUME Inv, BudgetInv, [Next]_vars, NEW r \in Runs, Spent(r)'
    PROVE  Spent(r) \/ Salvage(r)
<1>0. TypeOK
  BY DEF Inv
<1>1. ASSUME NEW q \in Runs, Salvage(q), q # r PROVE Spent(r)
  BY <1>0, <1>1 DEF TypeOK, Salvage, Settle, Goto, Spent
<1>2. ASSUME NEW q \in Runs, Stamp(q) PROVE Spent(r)
  <2>1. /\ pc[q] = "stamp" /\ pc' = [pc EXCEPT ![q] = "remove"]
        /\ outcome' = [outcome EXCEPT ![q] = final[q]] /\ UNCHANGED final
    BY <1>2 DEF Stamp, Goto
  <2> QED
    BY <1>0, <2>1 DEF TypeOK, Spent
<1>3. ASSUME NEW q \in Runs, \/ Prepare(q) \/ Try(q) \/ PushNothing(q) \/ PushStep(q) \/ PushUnread(q)
                             \/ Remove(q) \/ Crash(q)
      PROVE  Spent(r)
  <2>1. UNCHANGED outcome
    BY <1>3 DEF Prepare, Start, FetchBranch, Recover, Reset, Try, Setup, SetupFails, Return,
                RateLimited, Retry, Accept, After, PushNothing, PushStep, PushUnread, Remove, Crash, Forget
  <2>2. q # r => pc'[r] = pc[r] /\ final'[r] = final[r]
    BY <1>0, <1>3 DEF TypeOK, Prepare, Start, FetchBranch, Recover, Reset, Try, Setup, SetupFails, Return,
                RateLimited, Retry, Accept, After, PushNothing, PushStep, PushUnread, Remove, Crash,
                Forget, Settle, Goto
  <2>3. CASE q = r
    <3>1. CASE PushNothing(r) \/ PushStep(r) \/ PushUnread(r)
      <4>1. pc[r] = "push" /\ final'[r] \in {"failed", final[r]}
        BY <1>0, <3>1 DEF TypeOK, PushNothing, PushStep, PushUnread, Settle
      <4> QED
        BY <2>1, <4>1 DEF BudgetInv, Spent
    <3>2. CASE After(r)
      <4>1. got[r].says \in {"none", "complete", "review", "blocked"}
        BY <1>0 DEF TypeOK, Results, Says, Valid
      <4>2. final'[r] \in {"limited", "review", "failed", got[r].says}
        BY <1>0, <3>2 DEF TypeOK, After
      <4> QED
        BY <2>1, <4>1, <4>2 DEF Spent
    <3>3. CASE \/ Start(r) \/ Recover(r) \/ Setup(r) \/ SetupFails(r) \/ Return(r) \/ RateLimited(r)
               \/ Retry(r) \/ Accept(r) \/ Remove(r) \/ Crash(r)
      <4>1. pc'[r] # "stamp"
        BY <1>0, <3>3 DEF TypeOK, Start, Recover, Setup, SetupFails, Return, RateLimited, Retry,
                          Accept, Remove, Crash, Goto
      <4> QED
        BY <2>1, <4>1 DEF Spent
    <3>4. CASE FetchBranch(r) \/ Reset(r)
      <4>1. pc'[r] = "stamp" => final'[r] = "failed"
        BY <1>0, <3>4 DEF TypeOK, FetchBranch, Reset, Settle, Goto
      <4> QED
        BY <2>1, <4>1 DEF Spent
    <3> QED
      BY <1>3, <2>3, <3>1, <3>2, <3>3, <3>4 DEF Prepare, Try
  <2> QED
    BY <2>1, <2>2, <2>3 DEF Spent
<1>4. ASSUME NEW q \in Runs, Edit(q) \/ Commit(q) \/ WriteResult(q) \/ SalvageCommit(q) PROVE Spent(r)
  BY <1>4 DEF Edit, Commit, WriteResult, SalvageCommit, run, Spent
<1>5. CASE (\E c \in Clones : Dispose(c)) \/ OthersPush \/ UNCHANGED vars
  BY <1>5 DEF Dispose, OthersPush, vars, run, Spent
<1> QED
  BY <1>1, <1>2, <1>3, <1>4, <1>5 DEF Next, Finish

\* The runs that began in a clone that was not theirs alone are not forgotten.
LEMMA CrowdedGrows == ASSUME [Next]_vars PROVE crowded \subseteq crowded'
BY DEF Next, Prepare, Start, FetchBranch, Recover, Reset, Try, Setup, SetupFails, Return, RateLimited,
   Retry, Accept, After, Edit, Commit, WriteResult, Finish, PushNothing, PushStep, PushUnread,
   SalvageCommit, Salvage, Stamp, Remove, Crash, Dispose, OthersPush, history, vars

LEMMA SpentStep == ASSUME Inv, KeptInv, BudgetInv, SpentInv, [Next]_vars PROVE SpentInv'
<1> SUFFICES ASSUME faults' = 0, NEW r \in Runs \ crowded', Spent(r)'
             PROVE  HasSalvaged(r)'
  BY DEF SpentInv
<1>1. faults = 0 /\ r \in Runs \ crowded
  BY FaultsStay, CrowdedGrows
<1>2. CASE Spent(r)
  BY <1>1, <1>2, SalvagedStays DEF SpentInv
<1>3. CASE Salvage(r)
  BY <1>1, <1>3, SalvageDelivers
<1> QED
  BY <1>2, <1>3, SpentBySalvage

\* A run whose turns or whose time were spent has delivered what it had, what it had not
\* committed included, as long as no call fails and it began in a clone of its own: its
\* commits are on the remote or were refused, and no change went with its worktree
\* (_salvage_exhausted_worktree).
THEOREM SpentIsAlwaysSalvaged == Spec => []SpentIsSalvaged
<1>1. Init => KeptInv /\ BudgetInv /\ SpentInv
  BY DEF Init, KeptInv, BudgetInv, SpentInv, Spent, Locked, Live
<1>2. Inv /\ KeptInv /\ BudgetInv /\ SpentInv /\ [Next]_vars => KeptInv' /\ BudgetInv' /\ SpentInv'
  BY KeptStep, BudgetStep, SpentStep DEF Inv
<1>3. SpentInv => SpentIsSalvaged
  BY DEF SpentInv, Spent, HasSalvaged, Safe, SpentIsSalvaged
<1> QED
  BY <1>1, <1>2, <1>3, Invariance, PTL DEF Spec

----------------------------------------------------------------------------
(* What an earlier run left in the clone *)

LEMMA GoneGrows == ASSUME [Next]_vars PROVE gone \subseteq gone'
BY DEF Next, Prepare, Start, FetchBranch, Recover, Reset, Try, Setup, SetupFails, Return, RateLimited,
   Retry, Accept, After, Edit, Commit, WriteResult, Finish, PushNothing, PushStep, PushUnread,
   SalvageCommit, Salvage, Stamp, Remove, Crash, Dispose, OthersPush, history, vars

\* A run that is not a session gets to work by way of the reset.
LEMMA WorkByReset ==
    ASSUME Inv, [Next]_vars, NEW r \in Runs \ Sessions, pc'[r] \in AtWork
    PROVE  pc[r] \in AtWork \/ pc[r] = "reset"
<1>0. TypeOK
  BY DEF Inv
<1>1. ASSUME Prepare(r) PROVE pc[r] = "reset"
  BY <1>0, <1>1 DEF TypeOK, Prepare, Start, FetchBranch, Recover, Reset, Settle, Goto, AtWork
<1>2. ASSUME Try(r) PROVE pc[r] \in AtWork
  BY <1>2 DEF Try, Setup, SetupFails, Return, RateLimited, Retry, Accept, After, AtWork
<1>3. ASSUME Finish(r) PROVE pc[r] \in AtWork
  BY <1>0, <1>3 DEF TypeOK, Finish, PushNothing, PushStep, PushUnread, SalvageCommit, Salvage, Stamp,
                    Remove, Goto, AtWork
<1>4. ~Crash(r)
  BY <1>0 DEF TypeOK, Crash, Goto, AtWork
<1>5. ASSUME NEW q \in Runs \ {r}, Prepare(q) \/ Try(q) \/ Finish(q) \/ Crash(q), ~SalvageCommit(q)
      PROVE  pc'[r] = pc[r]
  BY <1>0, <1>5 DEF TypeOK, Prepare, Start, FetchBranch, Recover, Reset, Try, Setup, SetupFails, Return,
            RateLimited, Retry, Accept, After, Finish, PushNothing, PushStep, PushUnread, Salvage, Stamp,
            Remove, Crash, Settle, Goto
<1>6. ASSUME NEW q \in Runs, Edit(q) \/ Commit(q) \/ WriteResult(q) \/ SalvageCommit(q) PROVE pc' = pc
  BY <1>6 DEF Edit, Commit, WriteResult, SalvageCommit, run
<1>7. (\E c \in Clones : Dispose(c)) \/ OthersPush \/ UNCHANGED vars => pc' = pc
  BY DEF Dispose, OthersPush, vars, run
<1> QED
  BY <1>1, <1>2, <1>3, <1>4, <1>5, <1>6, <1>7 DEF Next, Finish

LEMMA EarlierStep == Inv /\ EarlierRunsRecovered /\ [Next]_vars => EarlierRunsRecovered'
<1> SUFFICES ASSUME Inv, EarlierRunsRecovered, [Next]_vars,
                    NEW r \in Runs \ Sessions, pc'[r] \in AtWork,
                    NEW q \in Runs, q < r, Clone[q] = Clone[r]
             PROVE  CommitsOf(q, count[q])' \subseteq remote' \cup refused' \cup gone'
  BY DEF EarlierRunsRecovered, AtWork
<1>1. pc[r] \in AtWork \/ pc[r] = "reset"
  BY WorkByReset
<1>2. pc[q] \in Ended
  BY <1>1 DEF Inv, InTurn, AtWork
<1>3. count'[q] = count[q]
  BY <1>2, CountStays
<1>4. CommitsOf(q, count[q])' = CommitsOf(q, count[q])
  BY <1>3 DEF CommitsOf
<1>5. CommitsOf(q, count[q]) \subseteq remote \cup refused \cup gone
  <2>1. CASE pc[r] \in AtWork
    BY <2>1 DEF EarlierRunsRecovered, AtWork
  <2>2. CASE pc[r] = "reset"
    <3>1. Ahead(Clone[r]) \subseteq remote \cup refused
      BY <2>2 DEF Inv, LossInv
    <3>2. track[Clone[r]] \subseteq remote
      BY Bounds DEF Inv, BranchInv
    <3>3. local[Clone[q]] \subseteq remote \cup refused
      BY <3>1, <3>2 DEF Ahead
    <3> QED
      BY <3>3 DEF Inv, LossInv, NothingLostInSilence
  <2> QED
    BY <1>1, <2>1, <2>2
<1>6. remote \subseteq remote' /\ refused \subseteq refused' /\ gone \subseteq gone'
  BY RemoteGrows, RefusedGrows, GoneGrows
<1> QED
  BY <1>4, <1>5, <1>6

\* Once a later run of a clone is at work, whatever an earlier one made there is on the
\* remote, unless it was refused, its push failed, or it went with a hosted clone
\* (_recover_unpushed_commits): this much of LaterRunsRecover holds.
THEOREM EarlierIsAlwaysRecovered == Spec => []EarlierRunsRecovered
<1>1. Init => EarlierRunsRecovered
  BY DEF Init, EarlierRunsRecovered
<1> QED
  BY <1>1, EarlierStep, Invariance, PTL DEF Spec
==============================================================================
