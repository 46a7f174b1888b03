--------------------------- MODULE Dispatch_proofs ---------------------------
(***************************************************************************)
(* Proofs about Dispatch, for every backlog, every assignment of           *)
(* components and any number of ticks, sessions, launches and failures.    *)
(***************************************************************************)
EXTENDS Dispatch, TLAPS

\* There is work to look at.
Backlog == Items # {}

(* Types *)

LEMMA Bounds ==
    /\ NumSteps \in Nat /\ MaxLaunches \in Nat /\ MaxActs \in Nat /\ MaxFaults \in Nat
    /\ StopOn \in [Steps -> 1..3]
    /\ Target \in [Sessions -> Items]
    /\ BlockedBy \in [Items -> SUBSET Items]
    /\ Through \in [Items -> 0..NumSteps]
    /\ Ticks \cap Sessions = {}
BY DispatchAssumption

LEMMA AnItemTypes == ASSUME Backlog PROVE AnItem \in Items
BY DEF Backlog, AnItem

LEMMA UnseenTypes == Unseen \in [Items -> [Steps -> Status]]
BY DEF Unseen, Status

LEMMA FaultTypes == ASSUME faults \in 0..MaxFaults, Fault PROVE faults' \in 0..MaxFaults
BY Bounds DEF Fault

LEMMA ActTypes == ASSUME acts \in 0..MaxActs, Act PROVE acts' \in 0..MaxActs
BY Bounds DEF Act

LEMMA ClaimTypes ==
    ASSUME NEW S \in SUBSET Items
    PROVE  ClaimsOf(S) \in [labels : SUBSET AllComponents, all : BOOLEAN]
BY DEF ClaimsOf, AllComponents

LEMMA NothingTypes == NothingClaimed \in [labels : SUBSET AllComponents, all : BOOLEAN]
BY DEF NothingClaimed

\* What a process keeps of the labels.
ReadTypes ==
    /\ view \in [Procs -> [Items -> [Steps -> Status]]]
    /\ barred \in [Procs -> [Items -> SUBSET Items]]
    /\ level \in [Procs -> 0..3]

PlaceTypes ==
    /\ pc \in [Procs -> {"off", "waking", "next", "unlink", "admit", "steps", "lock",
                         "announce", "run", "sweep"}]
    /\ queue \in [Procs -> SUBSET Items]
    /\ item \in [Procs -> Items]
    /\ at \in [Procs -> 1..(NumSteps + 1)]

OwnTypes ==
    /\ claims \in [Procs -> [labels : SUBSET AllComponents, all : BOOLEAN]]
    /\ count \in [Procs -> Nat]

HistoryTypes ==
    /\ seen \in [Procs -> SUBSET Items]
    /\ charged \in [Procs -> Int]
    /\ unlocked \in [Procs -> Nat]
    /\ raised \in [Procs -> Nat]
    /\ late \in [Procs -> Nat]
    /\ held \subseteq Items \X Items

GithubTypes ==
    /\ status \in [Items -> [Steps -> Status]]
    /\ announced \subseteq Items \X Steps
    /\ open \subseteq Items
    /\ blockedby \in [Items -> SUBSET Items]
    /\ blocks \in [Items -> SUBSET Items]
    /\ pause \in {"none", "set", "expired"}
    /\ stop \in 0..3

LEMMA TypeParts ==
    /\ TypeOK <=> /\ GithubTypes /\ PlaceTypes /\ ReadTypes /\ OwnTypes /\ HistoryTypes
                  /\ acts \in 0..MaxActs /\ faults \in 0..MaxFaults
    /\ TypeOK' <=> /\ GithubTypes' /\ PlaceTypes' /\ ReadTypes' /\ OwnTypes' /\ HistoryTypes'
                   /\ acts' \in 0..MaxActs /\ faults' \in 0..MaxFaults
BY DEF TypeOK, GithubTypes, PlaceTypes, ReadTypes, OwnTypes, HistoryTypes

LEMMA ForgetTypes ==
    ASSUME Backlog, TypeOK, NEW p \in Procs, Forget(p),
           pc' = [pc EXCEPT ![p] = "off"]
    PROVE  PlaceTypes' /\ ReadTypes' /\ OwnTypes' /\ HistoryTypes'
<1> USE TypeParts
<1>1. PlaceTypes'
  <2>1. 1 \in 1..(NumSteps + 1)
    BY Bounds
  <2> QED
    BY <2>1, AnItemTypes DEF PlaceTypes, Forget
<1>2. ReadTypes'
  BY UnseenTypes DEF ReadTypes, Forget
<1>3. OwnTypes'
  BY NothingTypes DEF OwnTypes, Forget
<1>4. HistoryTypes'
  BY DEF HistoryTypes, Forget
<1> QED
  BY <1>1, <1>2, <1>3, <1>4

LEMMA FetchTypes ==
    ASSUME TypeOK, NEW p \in Procs, Fetch(p)
    PROVE  PlaceTypes' /\ ReadTypes' /\ OwnTypes' /\ HistoryTypes'
<1> USE TypeParts
<1> DEFINE mine == IF p \in Ticks THEN open ELSE {Target[p]}
           busy == {i \in mine : InFlight(status, i)}
<1>0. mine \in SUBSET Items /\ busy \in SUBSET Items
  <2>1. p \notin Ticks => Target[p] \in Items
    BY Bounds DEF Procs
  <2> QED
    BY <2>1 DEF GithubTypes
<1>1. PlaceTypes'
  BY <1>0 DEF PlaceTypes, Fetch
<1>2. ReadTypes'
  BY <1>0, UnseenTypes DEF ReadTypes, GithubTypes, Fetch
<1>3. OwnTypes'
  <2>1. ClaimsOf(busy) \in [labels : SUBSET AllComponents, all : BOOLEAN]
    BY <1>0, ClaimTypes
  <2> QED
    BY <2>1 DEF OwnTypes, Fetch
<1>4. HistoryTypes'
  BY <1>0 DEF HistoryTypes, Fetch
<1> QED
  BY <1>1, <1>2, <1>3, <1>4

\* Leaving an item touches the place and what was read of it.
LEMMA LeaveTypes ==
    ASSUME Backlog, TypeOK, NEW p \in Procs, Leave(p), UNCHANGED queue
    PROVE  PlaceTypes' /\ ReadTypes'
<1> USE TypeParts
<1>1. PlaceTypes'
  <2>1. 1 \in 1..(NumSteps + 1)
    BY Bounds
  <2> QED
    BY <2>1, AnItemTypes DEF PlaceTypes, Leave
<1>2. view' \in [Procs -> [Items -> [Steps -> Status]]]
  BY UnseenTypes DEF PlaceTypes, ReadTypes, Leave
<1>3. barred' \in [Procs -> [Items -> SUBSET Items]] /\ level' \in [Procs -> 0..3]
  BY DEF PlaceTypes, ReadTypes, Leave
<1> QED
  BY <1>1, <1>2, <1>3 DEF ReadTypes

LEMMA HaltedTypes ==
    ASSUME NEW labels \in [Items -> [Steps -> Status]], NEW i \in Items, NEW S
    PROVE  Halted(labels, i, S) \in [Items -> [Steps -> Status]]
BY DEF Halted, Status

LEMMA LabelledTypes ==
    ASSUME NEW labels \in [Items -> [Steps -> Status]], NEW i \in Items, NEW s \in Steps,
           NEW new \in Status
    PROVE  Labelled(labels, i, s, new) \in [Items -> [Steps -> Status]]
BY DEF Labelled

LEMMA WithoutTypes ==
    ASSUME NEW labels \in [Items -> [Steps -> Status]], NEW i \in Items, NEW s \in Steps,
           NEW old \in Status
    PROVE  Without(labels, i, s, old) \in [Items -> [Steps -> Status]]
<1>1. labels[i][s] \in Status /\ "none" \in Status
  BY DEF Status
<1> QED
  BY <1>1, LabelledTypes DEF Without

LEMMA EnterTypes ==
    ASSUME TypeOK, NEW p \in Procs, NEW i \in Items, Enter(p, i), pause' \in {"none", "set", "expired"}
    PROVE  TypeOK'
<1> USE TypeParts
<1>1. status' \in [Items -> [Steps -> Status]]
  BY HaltedTypes DEF GithubTypes, Enter
<1>2. view' \in [Procs -> [Items -> [Steps -> Status]]]
  <2>1. view[p] \in [Items -> [Steps -> Status]]
    BY DEF ReadTypes
  <2>2. Halted(view[p], i, Stranded(p, i)) \in [Items -> [Steps -> Status]]
    BY <2>1, HaltedTypes
  <2> QED
    BY <2>2 DEF ReadTypes, Enter
<1>3. GithubTypes'
  BY <1>1 DEF GithubTypes, Enter
<1>4. PlaceTypes'
  BY DEF PlaceTypes, Enter
<1>5. ReadTypes'
  BY <1>2 DEF ReadTypes, Enter
<1> QED
  BY <1>3, <1>4, <1>5 DEF Enter, own, history, OwnTypes, HistoryTypes

LEMMA TypeWaking ==
    ASSUME Backlog, TypeOK, NEW p \in Procs, Wake(p) \/ WakeExpired(p) \/ WakeUnlink(p)
    PROVE  TypeOK'
<1> USE TypeParts
<1>1. CASE Wake(p)
  BY <1>1, FetchTypes DEF Wake, github, markers, GithubTypes
<1>2. CASE WakeExpired(p)
  BY <1>2 DEF WakeExpired, github, markers, read, own, history, GithubTypes, PlaceTypes,
              ReadTypes, OwnTypes, HistoryTypes
<1>3. CASE WakeUnlink(p)
  <2>1. GithubTypes'
    BY <1>3 DEF WakeUnlink, github, GithubTypes
  <2>2. PlaceTypes' /\ ReadTypes' /\ OwnTypes' /\ HistoryTypes'
    <3>1. CASE Fetch(p)
      BY <3>1, FetchTypes
    <3>2. CASE pc' = [pc EXCEPT ![p] = "off"] /\ UNCHANGED <<queue, item, at, read, own, history>>
      BY <3>2 DEF read, own, history, PlaceTypes, ReadTypes, OwnTypes, HistoryTypes
    <3> QED
      BY <1>3, <3>1, <3>2 DEF WakeUnlink
  <2> QED
    BY <1>3, <2>1, <2>2 DEF WakeUnlink
<1> QED
  BY <1>1, <1>2, <1>3

LEMMA TypeTaking ==
    ASSUME TypeOK, NEW p \in Procs, NEW i \in Items,
           Take(p, i) \/ TakeExpired(p, i) \/ TakeUnlink(p, i) \/ PassOver(p, i)
    PROVE  TypeOK'
<1>1. CASE Take(p, i)
  <2>1. pause' \in {"none", "set", "expired"} /\ Enter(p, i)
    BY <1>1 DEF Take
  <2> QED
    BY <2>1, EnterTypes
<1>2. CASE TakeUnlink(p, i)
  BY <1>2, EnterTypes DEF TakeUnlink
<1>3. CASE TakeExpired(p, i) \/ PassOver(p, i)
  <2>1. PlaceTypes'
    BY <1>3, TypeParts DEF TakeExpired, PassOver, PlaceTypes
  <2> QED
    BY <1>3, <2>1, TypeParts DEF TakeExpired, PassOver, github, markers, read, own, history,
                                 GithubTypes, ReadTypes, OwnTypes, HistoryTypes
<1> QED
  BY <1>1, <1>2, <1>3

LEMMA TypeAdmit ==
    ASSUME Backlog, TypeOK, NEW p \in Procs, Admit(p)
    PROVE  TypeOK'
<1> USE TypeParts
<1>1. blockedby' \in [Items -> SUBSET Items] /\ blocks' \in [Items -> SUBSET Items]
  BY DEF Admit, GithubTypes, PlaceTypes
<1>2. faults' \in 0..MaxFaults
  BY FaultTypes DEF Admit
<1>3. PlaceTypes' /\ ReadTypes'
  <2>1. CASE Leave(p)
    BY <2>1, LeaveTypes DEF Admit
  <2>2. CASE /\ pc' = [pc EXCEPT ![p] = "steps"]
             /\ barred' = [barred EXCEPT ![p][item[p]] = {}]
             /\ level' = [level EXCEPT ![p] = IF p \in Ticks THEN stop ELSE 0]
             /\ UNCHANGED <<item, at, view>>
    BY <2>2 DEF Admit, GithubTypes, PlaceTypes, ReadTypes
  <2> QED
    BY <2>1, <2>2 DEF Admit
<1> QED
  BY <1>1, <1>2, <1>3 DEF Admit, markers, own, history, GithubTypes, OwnTypes, HistoryTypes

LEMMA TypeChoosing ==
    ASSUME Backlog, TypeOK, NEW p \in Procs,
           (\E s \in Steps : Choose(p, s) \/ Refuse(p, s)) \/ LeaveItem(p)
    PROVE  TypeOK'
<1> USE TypeParts
<1>1. ASSUME NEW s \in Steps, Choose(p, s) PROVE TypeOK'
  <2>1. at' \in [Procs -> 1..(NumSteps + 1)]
    <3>1. s \in 1..(NumSteps + 1)
      BY Bounds DEF Steps
    <3> QED
      BY <1>1, <3>1 DEF Choose, PlaceTypes
  <2>2. seen' \in [Procs -> SUBSET Items]
    BY <1>1 DEF Choose, Looked, Busy, GithubTypes, HistoryTypes
  <2> QED
    BY <1>1, <2>1, <2>2 DEF Choose, github, markers, read, own, GithubTypes, PlaceTypes,
                            ReadTypes, OwnTypes, HistoryTypes
<1>2. ASSUME NEW s \in Steps, Refuse(p, s) PROVE TypeOK'
  <2>1. at' \in [Procs -> 1..(NumSteps + 1)]
    <3>1. s + 1 \in 1..(NumSteps + 1)
      BY Bounds DEF Steps
    <3> QED
      BY <1>2, <3>1 DEF Refuse, PlaceTypes
  <2>2. faults' \in 0..MaxFaults
    BY <1>2, FaultTypes DEF Refuse
  <2> QED
    BY <1>2, <2>1, <2>2 DEF Refuse, github, markers, read, own, history, GithubTypes, PlaceTypes,
                            ReadTypes, OwnTypes, HistoryTypes
<1>3. CASE LeaveItem(p)
  <2>1. PlaceTypes' /\ ReadTypes'
    BY <1>3, LeaveTypes DEF LeaveItem
  <2> QED
    BY <1>3, <2>1 DEF LeaveItem, github, markers, own, history, GithubTypes, OwnTypes,
                      HistoryTypes
<1> QED
  BY <1>1, <1>2, <1>3

\* Where there is a lock to set or a run to end, at is a step.
AtStep == \A p \in Procs : pc[p] \in {"lock", "announce", "run"} => at[p] \in Steps

LEMMA TypeLocking ==
    ASSUME TypeOK, AtStep, NEW p \in Procs, Lock(p) \/ LockFails(p)
    PROVE  TypeOK'
<1> USE TypeParts
<1>0. item[p] \in Items /\ at[p] \in Steps /\ {"wip", "requested"} \subseteq Status
  BY DEF Lock, LockFails, Launch, AtStep, PlaceTypes, Status
<1>1. late' \in [Procs -> Nat]
  BY DEF Lock, LockFails, Launch, HistoryTypes
<1>2. PlaceTypes'
  BY DEF Lock, LockFails, Launch, PlaceTypes
<1>3. CASE Lock(p)
  <2>1. status' \in [Items -> [Steps -> Status]]
    BY <1>0, <1>3, LabelledTypes DEF Lock, GithubTypes
  <2>2. view' \in [Procs -> [Items -> [Steps -> Status]]]
    <3>1. view[p] \in [Items -> [Steps -> Status]]
      BY DEF ReadTypes
    <3>2. Labelled(view[p], item[p], at[p], "wip") \in [Items -> [Steps -> Status]]
      BY <1>0, <3>1, LabelledTypes
    <3> QED
      BY <1>3, <3>2 DEF Lock, ReadTypes
  <2>3. OwnTypes'
    <3>1. claims[p] \in [labels : SUBSET AllComponents, all : BOOLEAN]
      BY DEF OwnTypes
    <3>2. Components[item[p]] \subseteq AllComponents
      BY <1>0 DEF AllComponents
    <3>3. Claim(claims[p], Components[item[p]]) \in [labels : SUBSET AllComponents, all : BOOLEAN]
      BY <3>1, <3>2 DEF Claim
    <3> QED
      BY <1>3, <3>3 DEF Lock, OwnTypes
  <2>4. seen' \in [Procs -> SUBSET Items] /\ charged' \in [Procs -> Int]
    BY <1>0, <1>3 DEF Lock, HistoryTypes
  <2> QED
    BY <1>1, <1>2, <1>3, <2>1, <2>2, <2>3, <2>4
       DEF Lock, Launch, markers, GithubTypes, ReadTypes, HistoryTypes
<1>4. CASE LockFails(p)
  <2>1. unlocked' \in [Procs -> Nat]
    BY <1>4 DEF LockFails, HistoryTypes
  <2>2. faults' \in 0..MaxFaults
    BY <1>4, FaultTypes DEF LockFails
  <2>3. status' \in [Items -> [Steps -> Status]]
    <3>1. Without(status, item[p], at[p], "requested") \in [Items -> [Steps -> Status]]
      BY <1>0, WithoutTypes DEF GithubTypes
    <3> QED
      BY <1>4, <3>1 DEF LockFails, GithubTypes
  <2>4. view' \in [Procs -> [Items -> [Steps -> Status]]]
    <3>1. view[p] \in [Items -> [Steps -> Status]]
      BY DEF ReadTypes
    <3>2. Without(view[p], item[p], at[p], "requested") \in [Items -> [Steps -> Status]]
      BY <1>0, <3>1, WithoutTypes
    <3> QED
      BY <1>4, <3>2 DEF LockFails, ReadTypes
  <2> QED
    BY <1>1, <1>2, <1>4, <2>1, <2>2, <2>3, <2>4
       DEF LockFails, Launch, markers, own, GithubTypes, ReadTypes, OwnTypes, HistoryTypes
<1> QED
  BY <1>3, <1>4

LEMMA TypeAnnounce ==
    ASSUME TypeOK, AtStep, NEW p \in Procs, Announce(p)
    PROVE  TypeOK'
<1> USE TypeParts
<1>1. item[p] \in Items /\ at[p] \in Steps
  BY DEF Announce, AtStep, PlaceTypes
<1>2. announced' \subseteq Items \X Steps /\ faults' \in 0..MaxFaults
  BY <1>1, FaultTypes DEF Announce, GithubTypes
<1>3. PlaceTypes'
  BY DEF Announce, PlaceTypes
<1> QED
  BY <1>2, <1>3 DEF Announce, markers, read, own, history, GithubTypes, ReadTypes, OwnTypes,
                    HistoryTypes

LEMMA TypeRunning ==
    ASSUME Backlog, TypeOK, AtStep, NEW p \in Procs,
           Complete(p) \/ Halt(p) \/ RateLimited(p)
    PROVE  TypeOK'
<1> USE TypeParts
<1>0. item[p] \in Items /\ at[p] \in Steps /\ {"done", "halted", "wip"} \subseteq Status
  BY DEF Complete, Halt, RateLimited, AtStep, PlaceTypes, Status
<1>1. CASE Complete(p)
  <2>1. status' \in [Items -> [Steps -> Status]]
    BY <1>0, <1>1, LabelledTypes DEF Complete, GithubTypes
  <2>2. view' \in [Procs -> [Items -> [Steps -> Status]]]
    BY <1>0, <1>1, <2>1 DEF Complete, ReadTypes
  <2>3. PlaceTypes'
    <3>1. at[p] + 1 \in 1..(NumSteps + 1)
      BY <1>0, Bounds DEF Steps
    <3> QED
      BY <1>1, <3>1 DEF Complete, PlaceTypes
  <2> QED
    BY <1>1, <2>1, <2>2, <2>3 DEF Complete, markers, own, history, GithubTypes, ReadTypes,
                                  OwnTypes, HistoryTypes
<1>2. CASE Halt(p)
  <2>1. status' \in [Items -> [Steps -> Status]]
    BY <1>0, <1>2, LabelledTypes DEF Halt, GithubTypes
  <2>2. PlaceTypes' /\ ReadTypes'
    BY <1>2, LeaveTypes DEF Halt
  <2> QED
    BY <1>2, <2>1, <2>2 DEF Halt, markers, own, history, GithubTypes, OwnTypes, HistoryTypes
<1>3. CASE RateLimited(p)
  <2>1. status' \in [Items -> [Steps -> Status]]
    <3>1. Without(status, item[p], at[p], "wip") \in [Items -> [Steps -> Status]]
      BY <1>0, WithoutTypes DEF GithubTypes
    <3> QED
      BY <1>3, <3>1 DEF RateLimited, GithubTypes
  <2>2. PlaceTypes' /\ ReadTypes'
    BY <1>3, LeaveTypes DEF RateLimited
  <2>3. OwnTypes'
    <3>1. claims[p] \in [labels : SUBSET AllComponents, all : BOOLEAN]
      BY DEF OwnTypes
    <3>2. Unclaim(claims[p], Components[item[p]]) \in [labels : SUBSET AllComponents, all : BOOLEAN]
      BY <3>1 DEF Unclaim
    <3>3. OneLess(count[p]) \in Nat
      BY DEF OneLess, OwnTypes
    <3> QED
      BY <1>3, <3>2, <3>3 DEF RateLimited, OwnTypes
  <2>4. raised' \in [Procs -> Nat]
    BY <1>3 DEF RateLimited, Raised, HistoryTypes
  <2>5. charged' \in [Procs -> Int] /\ seen' \in [Procs -> SUBSET Items]
    BY <1>3 DEF RateLimited, HistoryTypes
  <2>6. acts' \in 0..MaxActs /\ faults' \in 0..MaxFaults
    BY <1>3, ActTypes, FaultTypes DEF RateLimited
  <2> QED
    BY <1>3, <2>1, <2>2, <2>3, <2>4, <2>5, <2>6 DEF RateLimited, GithubTypes, HistoryTypes
<1> QED
  BY <1>1, <1>2, <1>3

LEMMA TypeEnding ==
    ASSUME Backlog, TypeOK, NEW p \in Procs, Sweep(p) \/ End(p) \/ Crash(p)
    PROVE  TypeOK'
<1> USE TypeParts
<1>1. CASE Sweep(p)
  BY <1>1 DEF Sweep, github, markers, read, own, history, GithubTypes, PlaceTypes,
              ReadTypes, OwnTypes, HistoryTypes
<1>2. CASE End(p)
  <2>1. PlaceTypes' /\ ReadTypes' /\ OwnTypes' /\ HistoryTypes'
    BY <1>2, ForgetTypes DEF End
  <2> QED
    BY <1>2, <2>1 DEF End, github, markers, GithubTypes
<1>3. CASE Crash(p)
  <2>1. PlaceTypes' /\ ReadTypes' /\ OwnTypes' /\ HistoryTypes'
    BY <1>3, ForgetTypes DEF Crash
  <2>2. faults' \in 0..MaxFaults
    BY <1>3, FaultTypes DEF Crash
  <2> QED
    BY <1>3, <2>1, <2>2 DEF Crash, github, markers, GithubTypes
<1> QED
  BY <1>1, <1>2, <1>3

LEMMA TypeAround ==
    ASSUME TypeOK, PauseExpires \/ People \/ UNCHANGED vars
    PROVE  TypeOK'
<1> USE TypeParts
<1>1. CASE PauseExpires
  BY <1>1 DEF PauseExpires, github, place, read, own, history, GithubTypes, PlaceTypes,
              ReadTypes, OwnTypes, HistoryTypes
<1>2. ASSUME NEW n \in Items, CloseOrReopen(n) PROVE TypeOK'
  BY <1>2, ActTypes DEF CloseOrReopen, markers, place, read, own, GithubTypes, PlaceTypes,
                        ReadTypes, OwnTypes, HistoryTypes
<1>3. ASSUME NEW i \in Items, NEW n \in Items, Unblock(i, n) PROVE TypeOK'
  BY <1>3, ActTypes DEF Unblock, markers, place, read, own, GithubTypes, PlaceTypes,
                        ReadTypes, OwnTypes, HistoryTypes
<1>4. CASE SetStop
  <2>1. stop' \in 0..3
    BY <1>4 DEF SetStop
  <2>2. raised' \in [Procs -> Nat]
    BY <1>4 DEF SetStop, Raised, HistoryTypes
  <2> QED
    BY <1>4, <2>1, <2>2, ActTypes DEF SetStop, github, place, read, own, GithubTypes, PlaceTypes,
                                      ReadTypes, OwnTypes, HistoryTypes
<1>5. CASE ClearPause
  BY <1>5 DEF ClearPause, github, place, read, own, history, GithubTypes, PlaceTypes,
              ReadTypes, OwnTypes, HistoryTypes
<1>6. ASSUME NEW i \in Items, NEW s \in Steps, ClearHalt(i, s) PROVE TypeOK'
  <2>1. status' \in [Items -> [Steps -> Status]]
    <3>1. PICK new \in {"none", "done"} : status' = Labelled(status, i, s, new)
      BY <1>6 DEF ClearHalt
    <3>2. new \in Status
      BY DEF Status
    <3> QED
      BY <3>1, <3>2, LabelledTypes DEF GithubTypes
  <2> QED
    BY <1>6, <2>1, ActTypes DEF ClearHalt, markers, place, read, own, history, GithubTypes,
                                PlaceTypes, ReadTypes, OwnTypes, HistoryTypes
<1>7. ASSUME NEW i \in Items, NEW s \in Steps, Instruct(i, s) PROVE TypeOK'
  <2>1. status' \in [Items -> [Steps -> Status]]
    BY <1>7, LabelledTypes DEF Instruct, GithubTypes, Status
  <2> QED
    BY <1>7, <2>1, ActTypes DEF Instruct, markers, place, read, own, GithubTypes, PlaceTypes,
                                ReadTypes, OwnTypes, HistoryTypes
<1>8. CASE UNCHANGED vars
  BY <1>8 DEF vars, github, markers, place, read, own, history, GithubTypes, PlaceTypes,
              ReadTypes, OwnTypes, HistoryTypes
<1> QED
  BY <1>1, <1>2, <1>3, <1>4, <1>5, <1>6, <1>7, <1>8 DEF People

LEMMA AtStepKept ==
    ASSUME TypeOK, AtStep, NEW p \in Procs,
           \E goal \in {"off", "waking", "next", "unlink", "admit", "steps", "sweep"} :
               pc' = [pc EXCEPT ![p] = goal],
           \A q \in Procs \ {p} : at'[q] = at[q]
    PROVE  AtStep'
BY DEF TypeOK, AtStep

LEMMA AtStepStep == ASSUME TypeOK, AtStep, [Next]_vars PROVE AtStep'
<1>1. ASSUME NEW p \in Procs, Wake(p) \/ WakeExpired(p) \/ WakeUnlink(p) PROVE AtStep'
  BY <1>1, AtStepKept DEF TypeOK, Wake, WakeExpired, WakeUnlink, Fetch
<1>2. ASSUME NEW p \in Procs, NEW i \in Items,
             Take(p, i) \/ TakeExpired(p, i) \/ TakeUnlink(p, i)
      PROVE  AtStep'
  BY <1>2, AtStepKept DEF Take, TakeExpired, TakeUnlink, Enter
<1>3. ASSUME NEW p \in Procs, NEW i \in Items, PassOver(p, i) PROVE AtStep'
  BY <1>3 DEF PassOver, AtStep
<1>4. ASSUME NEW p \in Procs, Admit(p) \/ LeaveItem(p) PROVE AtStep'
  BY <1>4, AtStepKept DEF TypeOK, Admit, LeaveItem, Leave
<1>5. ASSUME NEW p \in Procs, NEW s \in Steps, Choose(p, s) PROVE AtStep'
  BY <1>5 DEF TypeOK, AtStep, Choose
<1>6. ASSUME NEW p \in Procs, NEW s \in Steps, Refuse(p, s) PROVE AtStep'
  BY <1>6 DEF TypeOK, AtStep, Refuse
<1>7. ASSUME NEW p \in Procs, Lock(p) \/ LockFails(p) PROVE AtStep'
  BY <1>7 DEF TypeOK, AtStep, Lock, LockFails, Launch
<1>7a. ASSUME NEW p \in Procs, Announce(p) PROVE AtStep'
  BY <1>7a DEF TypeOK, AtStep, Announce
<1>8. ASSUME NEW p \in Procs, Complete(p) \/ Halt(p) \/ RateLimited(p) PROVE AtStep'
  BY <1>8, AtStepKept DEF TypeOK, Complete, Halt, RateLimited, Leave
<1>9. ASSUME NEW p \in Procs, Sweep(p) \/ End(p) \/ Crash(p) PROVE AtStep'
  BY <1>9, AtStepKept DEF TypeOK, Sweep, End, Crash, Forget
<1>10. CASE PauseExpires \/ People \/ UNCHANGED vars
  <2>1. UNCHANGED <<pc, at>>
    BY <1>10 DEF PauseExpires, People, CloseOrReopen, Unblock, SetStop, ClearPause, Instruct, ClearHalt,
                 vars, place
  <2> QED
    BY <2>1 DEF AtStep
<1> QED
  BY <1>1, <1>2, <1>3, <1>4, <1>5, <1>6, <1>7, <1>7a, <1>8, <1>9, <1>10 DEF Next, Work

LEMMA Initially ==
    ASSUME Backlog, Init
    PROVE  TypeOK /\ AtStep
<1> USE TypeParts
<1>1. GithubTypes
  BY Bounds DEF Init, GithubTypes, Status
<1>2. PlaceTypes
  <2>1. 1 \in 1..(NumSteps + 1)
    BY Bounds
  <2> QED
    BY <2>1, AnItemTypes DEF Init, PlaceTypes
<1>3. ReadTypes
  BY UnseenTypes DEF Init, ReadTypes
<1>4. OwnTypes
  BY NothingTypes DEF Init, OwnTypes
<1>5. HistoryTypes
  BY DEF Init, HistoryTypes
<1> QED
  BY <1>1, <1>2, <1>3, <1>4, <1>5, Bounds DEF Init, AtStep

LEMMA TypeStep ==
    ASSUME Backlog, TypeOK, AtStep, [Next]_vars
    PROVE  TypeOK'
BY TypeWaking, TypeTaking, TypeAdmit, TypeChoosing, TypeLocking, TypeAnnounce, TypeRunning, TypeEnding,
   TypeAround DEF Next, Work

\* Types: every variable ranges over what TypeOK says, and a step is locked or run
\* only where there is one.
LEMMA WellFormed == ASSUME Backlog PROVE Spec => [](TypeOK /\ AtStep)
<1>1. Init => TypeOK /\ AtStep
  BY Initially
<1>2. TypeOK /\ AtStep /\ [Next]_vars => TypeOK' /\ AtStep'
  BY TypeStep, AtStepStep
<1> QED
  BY <1>1, <1>2, PTL DEF Spec

\* Types: every variable ranges over what TypeOK says.
THEOREM TypeCorrect == ASSUME Backlog PROVE Spec => []TypeOK
BY WellFormed, PTL

----------------------------------------------------------------------------
(* The launch budget *)

\* A start is counted when its lock is on, and is chosen under the budget; what a
\* rate limit gives back is never more than what was counted.
BudgetInv ==
    \A p \in Procs :
        /\ charged[p] <= count[p]
        /\ count[p] <= MaxLaunches
        /\ pc[p] = "lock" => count[p] < MaxLaunches

\* Numbers and places that a step leaves alone.
LEMMA BudgetKept ==
    ASSUME BudgetInv, UNCHANGED <<charged, count>>,
           \A p \in Procs : pc'[p] = "lock" => pc[p] = "lock"
    PROVE  BudgetInv'
BY DEF BudgetInv

LEMMA BudgetStep == ASSUME TypeOK, BudgetInv, [Next]_vars PROVE BudgetInv'
<1> USE Bounds
<1>1. ASSUME NEW p \in Procs, Wake(p) \/ WakeUnlink(p) PROVE BudgetInv'
  BY <1>1, BudgetKept DEF TypeOK, Wake, WakeUnlink, Fetch, own, history
<1>2. ASSUME NEW p \in Procs, WakeExpired(p) \/ Admit(p) \/ LeaveItem(p) \/ Complete(p) \/ Halt(p) \/ Sweep(p)
      PROVE  BudgetInv'
  BY <1>2, BudgetKept DEF TypeOK, WakeExpired, Admit, LeaveItem, Complete, Halt, Sweep, Leave,
                          own, history
<1>3. ASSUME NEW p \in Procs, NEW i \in Items,
             Take(p, i) \/ TakeExpired(p, i) \/ TakeUnlink(p, i) \/ PassOver(p, i)
      PROVE  BudgetInv'
  BY <1>3, BudgetKept DEF TypeOK, Take, TakeExpired, TakeUnlink, PassOver, Enter, own, history
<1>4. ASSUME NEW p \in Procs, NEW s \in Steps, Choose(p, s) PROVE BudgetInv'
  <2>1. count[p] < MaxLaunches /\ UNCHANGED <<charged, count>>
    BY <1>4 DEF Choose, UnderBudget, own
  <2>2. pc' = [pc EXCEPT ![p] = "lock"]
    BY <1>4 DEF Choose
  <2> QED
    BY <2>1, <2>2 DEF TypeOK, BudgetInv
<1>5. ASSUME NEW p \in Procs, NEW s \in Steps, Refuse(p, s) PROVE BudgetInv'
  BY <1>5, BudgetKept DEF Refuse, own, history
<1>6. ASSUME NEW p \in Procs, Lock(p) PROVE BudgetInv'
  <2>1. /\ count' = [count EXCEPT ![p] = @ + 1]
        /\ charged' = [charged EXCEPT ![p] = @ + 1]
        /\ pc' = [pc EXCEPT ![p] = "announce"]
        /\ count[p] < MaxLaunches
    BY <1>6 DEF Lock, Launch, BudgetInv
  <2> QED
    BY <2>1 DEF TypeOK, BudgetInv
<1>7. ASSUME NEW p \in Procs, LockFails(p) PROVE BudgetInv'
  BY <1>7, BudgetKept DEF TypeOK, LockFails, Launch, own
<1>7a. ASSUME NEW p \in Procs, Announce(p) PROVE BudgetInv'
  BY <1>7a, BudgetKept DEF TypeOK, Announce, own, history
<1>8. ASSUME NEW p \in Procs, RateLimited(p) PROVE BudgetInv'
  <2>1. /\ count' = [count EXCEPT ![p] = OneLess(@)]
        /\ charged' = [charged EXCEPT ![p] = @ - 1]
        /\ pc' = [pc EXCEPT ![p] = "next"]
    BY <1>8 DEF RateLimited, Leave
  <2> QED
    BY <2>1 DEF TypeOK, BudgetInv, OneLess
<1>9. ASSUME NEW p \in Procs, End(p) \/ Crash(p) PROVE BudgetInv'
  <2>1. /\ count' = [count EXCEPT ![p] = 0]
        /\ charged' = [charged EXCEPT ![p] = 0]
        /\ pc' = [pc EXCEPT ![p] = "off"]
    BY <1>9 DEF End, Crash, Forget
  <2> QED
    BY <2>1 DEF TypeOK, BudgetInv
<1>10. CASE PauseExpires \/ People \/ UNCHANGED vars
  <2>1. UNCHANGED <<pc, charged, count>>
    BY <1>10 DEF PauseExpires, People, CloseOrReopen, Unblock, SetStop, ClearPause, Instruct, ClearHalt,
                 vars, place, own, history
  <2> QED
    BY <2>1, BudgetKept
<1> QED
  BY <1>1, <1>2, <1>3, <1>4, <1>5, <1>6, <1>7, <1>7a, <1>8, <1>9, <1>10 DEF Next, Work

\* No run of a process charges more starts than MAX_LAUNCHES_PER_TICK, whatever is
\* given back, fails or is taken away (_should_run, the roll-back on a rate limit).
THEOREM BudgetAlwaysHolds == ASSUME Backlog PROVE Spec => []BudgetHolds
<1>1. Init => BudgetInv
  BY Bounds DEF Init, BudgetInv
<1>2. TypeOK /\ BudgetInv /\ [Next]_vars => BudgetInv'
  BY BudgetStep
<1>3. TypeOK /\ BudgetInv => BudgetHolds
  BY Bounds DEF TypeOK, BudgetInv, BudgetHolds
<1> QED
  BY <1>1, <1>2, <1>3, TypeCorrect, PTL DEF Spec
----------------------------------------------------------------------------
(* Component claims *)

\* A tick's claims cover every item it saw in flight or started and has not given back.
Covered(p) ==
    p \in Ticks => \A j \in seen[p] :
        /\ Components[j] \subseteq claims[p].labels
        /\ Components[j] = {} => claims[p].all

\* What is being started overlaps none of them; what runs overlaps no other.
Spared(p) ==
    /\ pc[p] = "lock" => \A j \in seen[p] : ~Overlap(item[p], j)
    /\ pc[p] \in {"announce", "run"} => \A j \in seen[p] \ {item[p]} : ~Overlap(item[p], j)

SpareInv == \A p \in Procs : Covered(p) /\ Spared(p)

\* Labels and items that a step leaves alone.
LEMMA SpareKept ==
    ASSUME SpareInv, UNCHANGED <<claims, seen>>,
           \A q \in Procs : pc'[q] \in {"lock", "announce", "run"} =>
               pc'[q] = pc[q] /\ item'[q] = item[q]
    PROVE  SpareInv'
BY DEF SpareInv, Covered, Spared

\* A step of p leaves what the others know alone.
LEMMA SpareMoved ==
    ASSUME SpareInv, NEW p \in Procs, Covered(p)', Spared(p)',
           \A q \in Procs \ {p} : /\ claims'[q] = claims[q] /\ seen'[q] = seen[q]
                                  /\ pc'[q] = pc[q] /\ item'[q] = item[q]
    PROVE  SpareInv'
BY DEF SpareInv, Covered, Spared

\* The claims of a set of items cover that set.
LEMMA ClaimsCover ==
    ASSUME NEW S \in SUBSET Items, NEW j \in S
    PROVE  /\ Components[j] \subseteq ClaimsOf(S).labels
           /\ Components[j] = {} => ClaimsOf(S).all
BY DEF ClaimsOf

\* What can be claimed overlaps nothing that the claims cover.
LEMMA CanClaimSpares ==
    ASSUME NEW c, NEW i \in Items, NEW j \in Items, CanClaim(c, Components[i]),
           Components[j] \subseteq c.labels, Components[j] = {} => c.all
    PROVE  ~Overlap(i, j)
BY DEF CanClaim, Overlap

LEMMA FetchSpares ==
    ASSUME TypeOK, SpareInv, NEW p \in Procs, Fetch(p)
    PROVE  SpareInv'
<1> DEFINE mine == IF p \in Ticks THEN open ELSE {Target[p]}
           busy == {i \in mine : InFlight(status, i)}
<1>1. p \in Ticks => busy \in SUBSET Items
  BY DEF TypeOK
<1>2. /\ claims' = [claims EXCEPT ![p] = ClaimsOf(busy)]
      /\ seen' = [seen EXCEPT ![p] = IF p \in Ticks THEN busy ELSE {}]
      /\ pc' = [pc EXCEPT ![p] = "next"]
      /\ item' = item
  BY DEF Fetch
<1>3. claims'[p] = ClaimsOf(busy) /\ pc'[p] = "next" /\ (p \in Ticks => seen'[p] = busy)
  BY <1>2 DEF TypeOK
<1>4. Covered(p)'
  BY <1>1, <1>3, ClaimsCover DEF Covered
<1>5. Spared(p)'
  BY <1>3 DEF Spared
<1> HIDE DEF busy
<1> QED
  BY <1>2, <1>4, <1>5, SpareMoved DEF TypeOK

LEMMA ChooseSpares ==
    ASSUME TypeOK, SpareInv, NEW p \in Procs, NEW s \in Steps, Choose(p, s)
    PROVE  SpareInv'
<1>1. /\ pc' = [pc EXCEPT ![p] = "lock"]
      /\ seen' = [seen EXCEPT ![p] = IF p \in Ticks THEN @ ELSE Busy(p)]
      /\ item' = item /\ claims' = claims
      /\ CanClaim(Claims(p), Components[item[p]])
      /\ item[p] \in Items
  BY DEF Choose, Looked, own, TypeOK
<1>2. CASE p \in Ticks
  <2>1. seen' = seen /\ Claims(p) = claims[p]
    BY <1>1, <1>2 DEF TypeOK, Claims
  <2>2. \A j \in seen[p] : ~Overlap(item[p], j)
    BY <1>1, <1>2, <2>1, CanClaimSpares DEF TypeOK, SpareInv, Covered
  <2>3. Covered(p)' /\ Spared(p)'
    BY <1>1, <2>1, <2>2 DEF TypeOK, SpareInv, Covered, Spared
  <2> QED
    BY <1>1, <2>1, <2>3, SpareMoved DEF TypeOK
<1>3. CASE p \notin Ticks
  <2>1. seen'[p] = Busy(p) /\ Claims(p) = ClaimsOf(Busy(p)) /\ Busy(p) \in SUBSET Items
    BY <1>1, <1>3 DEF TypeOK, Claims, Busy
  <2>2. \A j \in Busy(p) : ~Overlap(item[p], j)
    BY <1>1, <2>1, CanClaimSpares, ClaimsCover
  <2>3. Covered(p)' /\ Spared(p)'
    BY <1>1, <1>3, <2>1, <2>2 DEF TypeOK, Covered, Spared
  <2> QED
    BY <1>1, <2>3, SpareMoved DEF TypeOK
<1> QED
  BY <1>2, <1>3

LEMMA LockSpares ==
    ASSUME TypeOK, SpareInv, NEW p \in Procs, Lock(p)
    PROVE  SpareInv'
<1> DEFINE i == item[p]
<1>1. /\ pc[p] = "lock"
      /\ pc' = [pc EXCEPT ![p] = "announce"]
      /\ claims' = [claims EXCEPT ![p] = Claim(@, Components[i])]
      /\ seen' = [seen EXCEPT ![p] = @ \cup {i}]
      /\ item' = item
  BY DEF Lock, Launch
<1>2. /\ claims'[p] = Claim(claims[p], Components[i])
      /\ seen'[p] = seen[p] \cup {i}
      /\ pc'[p] = "announce"
      /\ claims[p] \in [labels : SUBSET AllComponents, all : BOOLEAN]
  BY <1>1 DEF TypeOK
<1>3. /\ claims[p].labels \subseteq claims'[p].labels
      /\ Components[i] \subseteq claims'[p].labels
  BY <1>2 DEF Claim
<1>4. (claims[p].all => claims'[p].all) /\ (Components[i] = {} => claims'[p].all)
  BY <1>2 DEF Claim
<1>5. Covered(p)'
  BY <1>2, <1>3, <1>4 DEF SpareInv, Covered
<1>6. Spared(p)'
  BY <1>1, <1>2 DEF SpareInv, Spared
<1> QED
  BY <1>1, <1>5, <1>6, SpareMoved DEF TypeOK

LEMMA RateLimitSpares ==
    ASSUME TypeOK, SpareInv, NEW p \in Procs, RateLimited(p)
    PROVE  SpareInv'
<1> DEFINE i == item[p]
<1>1. /\ pc[p] = "run"
      /\ pc' = [pc EXCEPT ![p] = "next"]
      /\ claims' = [claims EXCEPT ![p] = Unclaim(@, Components[i])]
      /\ seen' = [seen EXCEPT ![p] = @ \ {i}]
      /\ item' = [item EXCEPT ![p] = AnItem]
  BY DEF RateLimited, Leave
<1>2. /\ claims'[p] = Unclaim(claims[p], Components[i])
      /\ seen'[p] = seen[p] \ {i}
      /\ pc'[p] = "next"
      /\ claims[p] \in [labels : SUBSET AllComponents, all : BOOLEAN]
  BY <1>1 DEF TypeOK
<1>3. \A j \in seen'[p] : ~Overlap(i, j)
  BY <1>1, <1>2 DEF SpareInv, Spared
<1>4. \A j \in seen'[p] : Components[j] # {} /\ Components[i] # {} /\ Components[i] \cap Components[j] = {}
  BY <1>3 DEF Overlap
<1>5. \A j \in seen'[p] : claims'[p].labels = claims[p].labels \ Components[i]
  BY <1>2, <1>4 DEF Unclaim
<1>6. Covered(p)'
  BY <1>2, <1>4, <1>5 DEF SpareInv, Covered
<1>7. Spared(p)'
  BY <1>2 DEF Spared
<1> QED
  BY <1>1, <1>6, <1>7, SpareMoved DEF TypeOK

LEMMA SpareStep == ASSUME TypeOK, SpareInv, [Next]_vars PROVE SpareInv'
<1>1. ASSUME NEW p \in Procs, Wake(p) PROVE SpareInv'
  BY <1>1, FetchSpares DEF Wake
<1>2. ASSUME NEW p \in Procs, WakeUnlink(p) PROVE SpareInv'
  <2>1. CASE Fetch(p)
    BY <2>1, FetchSpares
  <2>2. CASE pc' = [pc EXCEPT ![p] = "off"] /\ UNCHANGED <<queue, item, at, read, own, history>>
    BY <2>2, SpareKept DEF TypeOK, own, history
  <2> QED
    BY <1>2, <2>1, <2>2 DEF WakeUnlink
<1>3. ASSUME NEW p \in Procs, WakeExpired(p) \/ Admit(p) \/ LeaveItem(p) \/ Complete(p) \/ Halt(p) \/ Sweep(p)
      PROVE  SpareInv'
  BY <1>3, SpareKept DEF TypeOK, WakeExpired, Admit, LeaveItem, Complete, Halt, Sweep, Leave,
                         own, history
<1>4. ASSUME NEW p \in Procs, NEW i \in Items,
             Take(p, i) \/ TakeExpired(p, i) \/ TakeUnlink(p, i) \/ PassOver(p, i)
      PROVE  SpareInv'
  BY <1>4, SpareKept DEF TypeOK, Take, TakeExpired, TakeUnlink, PassOver, Enter, own, history
<1>5. ASSUME NEW p \in Procs, NEW s \in Steps, Choose(p, s) PROVE SpareInv'
  BY <1>5, ChooseSpares
<1>6. ASSUME NEW p \in Procs, NEW s \in Steps, Refuse(p, s) PROVE SpareInv'
  BY <1>6, SpareKept DEF Refuse, own, history
<1>7. ASSUME NEW p \in Procs, Lock(p) PROVE SpareInv'
  BY <1>7, LockSpares
<1>8. ASSUME NEW p \in Procs, LockFails(p) PROVE SpareInv'
  <2>1. /\ pc[p] = "lock" /\ pc' = [pc EXCEPT ![p] = "announce"]
        /\ item' = item /\ claims' = claims /\ seen' = seen
    BY <1>8 DEF LockFails, Launch, own
  <2>2. Covered(p)' /\ Spared(p)'
    BY <2>1 DEF TypeOK, SpareInv, Covered, Spared
  <2> QED
    BY <2>1, <2>2, SpareMoved DEF TypeOK
<1>8a. ASSUME NEW p \in Procs, Announce(p) PROVE SpareInv'
  <2>1. /\ pc[p] = "announce" /\ pc'[p] = "run" /\ UNCHANGED <<item, claims, seen>>
        /\ \A q \in Procs \ {p} : pc'[q] = pc[q]
    BY <1>8a DEF TypeOK, Announce, own, history
  <2>2. Covered(p)' /\ Spared(p)'
    BY <2>1 DEF SpareInv, Covered, Spared
  <2> QED
    BY <2>1, <2>2, SpareMoved
<1>9. ASSUME NEW p \in Procs, RateLimited(p) PROVE SpareInv'
  BY <1>9, RateLimitSpares
<1>10. ASSUME NEW p \in Procs, End(p) \/ Crash(p) PROVE SpareInv'
  <2>1. /\ pc' = [pc EXCEPT ![p] = "off"]
        /\ item' = [item EXCEPT ![p] = AnItem]
        /\ claims' = [claims EXCEPT ![p] = NothingClaimed]
        /\ seen' = [seen EXCEPT ![p] = {}]
    BY <1>10 DEF End, Crash, Forget
  <2>2. Covered(p)' /\ Spared(p)'
    BY <2>1 DEF TypeOK, Covered, Spared
  <2> QED
    BY <2>1, <2>2, SpareMoved DEF TypeOK
<1>11. CASE PauseExpires \/ People \/ UNCHANGED vars
  <2>1. UNCHANGED <<pc, item, claims, seen>>
    BY <1>11 DEF PauseExpires, People, CloseOrReopen, Unblock, SetStop, ClearPause, Instruct, ClearHalt,
                 vars, place, own, history
  <2> QED
    BY <2>1, SpareKept
<1> QED
  BY <1>1, <1>2, <1>3, <1>4, <1>5, <1>6, <1>7, <1>8, <1>8a, <1>9, <1>10, <1>11 DEF Next, Work

\* A step starts only on an item that overlaps nothing its process saw in flight, or
\* started and did not give back: what a rate limit gives back is never a claim that
\* another item still needs (ComponentClaims.release, the roll-back in process_work_item).
THEOREM StartsAlwaysSpareSeen == ASSUME Backlog PROVE Spec => []StartsSpareSeen
<1>1. Init => SpareInv
  BY DEF Init, SpareInv, Covered, Spared
<1>2. TypeOK /\ SpareInv /\ [Next]_vars => SpareInv'
  BY SpareStep
<1>3. SpareInv => StartsSpareSeen
  BY DEF SpareInv, Spared, StartsSpareSeen
<1> QED
  BY <1>1, <1>2, <1>3, TypeCorrect, PTL DEF Spec

----------------------------------------------------------------------------
(* Items that wait *)

\* Where a process has an item in hand.
AtItem == {"admit", "steps", "lock", "announce", "run"}

\* What a process knows of an item that is held by an issue: nothing of it has run,
\* the label is among those it read for as long as it has the item to admit, and it is
\* not at work on it.
Waits(p, i, n) ==
    /\ view[p][i] = Unseen[i]
    /\ i \in queue[p] => n \in barred[p][i]
    /\ pc[p] = "admit" /\ item[p] = i => n \in barred[p][i]
    /\ pc[p] \in {"steps", "lock", "announce", "run"} => item[p] # i

\* A pair of item and blocker that nobody has undone: the blocker is open, the label is
\* on the item, nothing of it has run, and no process has it at work.
HeldInv ==
    \A pair \in held :
        /\ pair[2] \in open
        /\ pair[2] \in blockedby[pair[1]]
        /\ status[pair[1]] = Unseen[pair[1]]
        /\ \A p \in Procs : Waits(p, pair[1], pair[2])

\* An item in hand is no longer in the queue.
InHand == \A p \in Procs : pc[p] \in AtItem => item[p] \notin queue[p]

LEMMA UnseenIs == \A i \in Items, s \in Steps : Unseen[i][s] = "none"
BY DEF Unseen

LEMMA InHandStep == ASSUME TypeOK, InHand, [Next]_vars PROVE InHand'
<1> USE DEF AtItem
<1>1. ASSUME NEW p \in Procs, NEW goal, goal \notin AtItem, pc' = [pc EXCEPT ![p] = goal],
             \A q \in Procs \ {p} : item'[q] = item[q] /\ queue'[q] = queue[q]
      PROVE  InHand'
  BY <1>1 DEF TypeOK, InHand
<1>2. ASSUME NEW p \in Procs, Wake(p) \/ WakeUnlink(p) PROVE InHand'
  <2>1. pc' = [pc EXCEPT ![p] = "next"] \/ pc' = [pc EXCEPT ![p] = "off"]
    BY <1>2 DEF Wake, WakeUnlink, Fetch
  <2>2. \A q \in Procs \ {p} : item'[q] = item[q] /\ queue'[q] = queue[q]
    BY <1>2 DEF TypeOK, Wake, WakeUnlink, Fetch
  <2> QED
    BY <1>1, <2>1, <2>2
<1>3. ASSUME NEW p \in Procs, WakeExpired(p) \/ LeaveItem(p) \/ Halt(p) \/ RateLimited(p) \/ Sweep(p)
      PROVE  InHand'
  <2>1. pc' = [pc EXCEPT ![p] = "waking"] \/ pc' = [pc EXCEPT ![p] = "next"]
           \/ pc' = [pc EXCEPT ![p] = "sweep"]
    BY <1>3 DEF WakeExpired, LeaveItem, Halt, RateLimited, Sweep, Leave
  <2>2. \A q \in Procs \ {p} : item'[q] = item[q] /\ queue'[q] = queue[q]
    BY <1>3 DEF TypeOK, WakeExpired, LeaveItem, Halt, RateLimited, Sweep, Leave
  <2> QED
    BY <1>1, <2>1, <2>2
<1>4. ASSUME NEW p \in Procs, End(p) \/ Crash(p) PROVE InHand'
  <2>1. pc' = [pc EXCEPT ![p] = "off"]
    BY <1>4 DEF End, Crash
  <2>2. \A q \in Procs \ {p} : item'[q] = item[q] /\ queue'[q] = queue[q]
    BY <1>4 DEF TypeOK, End, Crash, Forget
  <2> QED
    BY <1>1, <2>1, <2>2
<1>5. ASSUME NEW p \in Procs, NEW i \in Items, Take(p, i) \/ TakeUnlink(p, i) PROVE InHand'
  <2>1. /\ pc' = [pc EXCEPT ![p] = "admit"] /\ queue' = [queue EXCEPT ![p] = @ \ {i}]
        /\ item' = [item EXCEPT ![p] = i]
    BY <1>5 DEF Take, TakeUnlink, Enter
  <2>2. item'[p] \notin queue'[p]
    BY <2>1 DEF TypeOK
  <2>3. \A q \in Procs \ {p} : pc'[q] = pc[q] /\ item'[q] = item[q] /\ queue'[q] = queue[q]
    BY <2>1 DEF TypeOK
  <2> QED
    BY <2>2, <2>3 DEF InHand
<1>6. ASSUME NEW p \in Procs, NEW i \in Items, TakeExpired(p, i) \/ PassOver(p, i) PROVE InHand'
  BY <1>6 DEF TypeOK, InHand, TakeExpired, PassOver
<1>7. ASSUME NEW p \in Procs, Admit(p) PROVE InHand'
  <2>1. pc[p] = "admit" /\ queue' = queue
    BY <1>7 DEF Admit
  <2>2. CASE Leave(p)
    <3>1. pc' = [pc EXCEPT ![p] = "next"] /\ \A q \in Procs \ {p} : item'[q] = item[q]
      BY <2>2 DEF TypeOK, Leave
    <3> QED
      BY <1>1, <2>1, <3>1
  <2>3. CASE pc' = [pc EXCEPT ![p] = "steps"] /\ item' = item
    BY <2>1, <2>3 DEF TypeOK, InHand
  <2> QED
    BY <1>7, <2>2, <2>3 DEF Admit
<1>8. ASSUME NEW p \in Procs, NEW s \in Steps, Choose(p, s) \/ Refuse(p, s) PROVE InHand'
  BY <1>8 DEF TypeOK, InHand, Choose, Refuse
<1>9. ASSUME NEW p \in Procs, Lock(p) \/ LockFails(p) \/ Announce(p) \/ Complete(p) PROVE InHand'
  BY <1>9 DEF TypeOK, InHand, Lock, LockFails, Launch, Announce, Complete
<1>10. CASE PauseExpires \/ People \/ UNCHANGED vars
  <2>1. UNCHANGED <<pc, item, queue>>
    BY <1>10 DEF PauseExpires, People, CloseOrReopen, Unblock, SetStop, ClearPause, Instruct, ClearHalt,
                 vars, place
  <2> QED
    BY <2>1 DEF InHand
<1> QED
  BY <1>2, <1>3, <1>4, <1>5, <1>6, <1>7, <1>8, <1>9, <1>10 DEF Next, Work

\* A step of p that leaves the issues alone, and lets no held item in.
LEMMA HeldKept ==
    ASSUME TypeOK, HeldInv, NEW p \in Procs, UNCHANGED <<open, held>>,
           \A pair \in held : /\ pair[2] \in blockedby'[pair[1]]
                              /\ status'[pair[1]] = status[pair[1]]
                              /\ Waits(p, pair[1], pair[2])',
           \A q \in Procs \ {p} : /\ pc'[q] = pc[q] /\ item'[q] = item[q] /\ queue'[q] = queue[q]
                                  /\ view'[q] = view[q] /\ barred'[q] = barred[q]
    PROVE  HeldInv'
<1> SUFFICES ASSUME NEW pair \in held, NEW q \in Procs
             PROVE  /\ pair[2] \in open' /\ pair[2] \in blockedby'[pair[1]]
                    /\ status'[pair[1]] = Unseen[pair[1]]
                    /\ Waits(q, pair[1], pair[2])'
  BY DEF HeldInv, Unseen
<1>1. Waits(q, pair[1], pair[2])'
  <2>1. CASE q = p
    BY <2>1
  <2>2. CASE q # p
    BY <2>2 DEF HeldInv, Waits, Unseen
  <2> QED
    BY <2>1, <2>2
<1> QED
  BY <1>1 DEF HeldInv

\* The facts about a held pair that the steps below start from.
LEMMA HeldFacts ==
    ASSUME TypeOK, HeldInv, NEW pair \in held, NEW p \in Procs
    PROVE  /\ pair[1] \in Items /\ pair[2] \in Items /\ pair[2] \in open
           /\ pair[2] \in blockedby[pair[1]]
           /\ status[pair[1]] = Unseen[pair[1]]
           /\ Waits(p, pair[1], pair[2])
BY DEF TypeOK, HeldInv

\* A process that fetches reads the labels as they are.
LEMMA FetchWaits ==
    ASSUME Backlog, TypeOK, HeldInv, NEW p \in Procs, Fetch(p), UNCHANGED github
    PROVE  HeldInv'
<1> DEFINE mine == IF p \in Ticks THEN open ELSE {Target[p]}
<1>1. /\ pc' = [pc EXCEPT ![p] = "next"] /\ queue' = [queue EXCEPT ![p] = mine]
      /\ view' = [view EXCEPT ![p] = [i \in Items |-> IF i \in mine THEN status[i] ELSE Unseen[i]]]
      /\ barred' = [barred EXCEPT ![p] = [i \in Items |-> IF i \in mine THEN blockedby[i] ELSE {}]]
      /\ item' = item /\ held' = held
  BY DEF Fetch
<1> HIDE DEF mine
<1>2. /\ pc'[p] = "next" /\ queue'[p] = mine
      /\ \A i \in Items : /\ view'[p][i] = IF i \in mine THEN status[i] ELSE Unseen[i]
                          /\ barred'[p][i] = IF i \in mine THEN blockedby[i] ELSE {}
  BY <1>1 DEF TypeOK
<1>3. \A pair \in held : Waits(p, pair[1], pair[2])'
  <2> SUFFICES ASSUME NEW pair \in held PROVE Waits(p, pair[1], pair[2])'
    OBVIOUS
  <2>1. pair[1] \in Items /\ pair[2] \in blockedby[pair[1]] /\ status[pair[1]] = Unseen[pair[1]]
    BY HeldFacts
  <2> QED
    BY <1>2, <2>1 DEF Waits, Unseen
<1>4. \A q \in Procs \ {p} : /\ pc'[q] = pc[q] /\ item'[q] = item[q] /\ queue'[q] = queue[q]
                             /\ view'[q] = view[q] /\ barred'[q] = barred[q]
  BY <1>1 DEF TypeOK
<1>5. \A pair \in held : pair[2] \in blockedby'[pair[1]] /\ status'[pair[1]] = status[pair[1]]
  BY HeldFacts DEF github
<1> QED
  BY <1>1, <1>3, <1>4, <1>5, HeldKept DEF github

\* A process that enters an item finds nothing stranded on a held one.
LEMMA EnterWaits ==
    ASSUME TypeOK, HeldInv, NEW p \in Procs, NEW i \in Items, i \in queue[p], Enter(p, i)
    PROVE  HeldInv'
<1>1. /\ status' = Halted(status, i, Stranded(p, i))
      /\ view' = [view EXCEPT ![p] = Halted(@, i, Stranded(p, i))]
      /\ pc' = [pc EXCEPT ![p] = "admit"] /\ queue' = [queue EXCEPT ![p] = @ \ {i}]
      /\ item' = [item EXCEPT ![p] = i]
      /\ UNCHANGED <<open, blockedby, barred, held>>
  BY DEF Enter, history
<1>2. ASSUME NEW pair \in held
      PROVE  /\ status'[pair[1]] = status[pair[1]]
             /\ Waits(p, pair[1], pair[2])'
  <2>0. /\ pair[1] \in Items
        /\ status[pair[1]] = Unseen[pair[1]]
        /\ view[p][pair[1]] = Unseen[pair[1]]
        /\ pair[1] \in queue[p] => pair[2] \in barred[p][pair[1]]
    BY <1>2, HeldFacts DEF Waits
  <2>1. i = pair[1] => Stranded(p, i) = {}
    BY <2>0, UnseenIs DEF Stranded, Outlived
  <2>2. Halted(status, i, Stranded(p, i))[pair[1]] = status[pair[1]]
    <3>1. CASE i = pair[1]
      <4>1. status[i] \in [Steps -> Status]
        BY DEF TypeOK
      <4>2. Halted(status, i, {})[i] = [s \in Steps |-> status[i][s]]
        BY DEF TypeOK, Halted
      <4> QED
        BY <2>1, <3>1, <4>1, <4>2
    <3>2. CASE i # pair[1]
      BY <2>0, <3>2 DEF TypeOK, Halted
    <3> QED
      BY <3>1, <3>2
  <2>3. Halted(view[p], i, Stranded(p, i))[pair[1]] = view[p][pair[1]]
    <3>0. view[p] \in [Items -> [Steps -> Status]]
      BY DEF TypeOK
    <3>1. CASE i = pair[1]
      <4>1. view[p][i] \in [Steps -> Status]
        BY <3>0
      <4>2. Halted(view[p], i, {})[i] = [s \in Steps |-> view[p][i][s]]
        BY <3>0 DEF Halted
      <4> QED
        BY <2>1, <3>1, <4>1, <4>2
    <3>2. CASE i # pair[1]
      BY <2>0, <3>0, <3>2 DEF Halted
    <3> QED
      BY <3>1, <3>2
  <2>4. view'[p] = Halted(view[p], i, Stranded(p, i))
    BY <1>1 DEF TypeOK
  <2>5. /\ pc'[p] = "admit" /\ item'[p] = i /\ queue'[p] = queue[p] \ {i}
        /\ barred'[p] = barred[p]
    BY <1>1 DEF TypeOK
  <2>6. Waits(p, pair[1], pair[2])'
    BY <2>0, <2>3, <2>4, <2>5 DEF Waits, Unseen
  <2> QED
    BY <1>1, <2>2, <2>6
<1>3. \A q \in Procs \ {p} : /\ pc'[q] = pc[q] /\ item'[q] = item[q] /\ queue'[q] = queue[q]
                             /\ view'[q] = view[q] /\ barred'[q] = barred[q]
  BY <1>1 DEF TypeOK
<1>4. \A pair \in held : pair[2] \in blockedby'[pair[1]]
  BY <1>1, HeldFacts
<1> QED
  BY <1>1, <1>2, <1>3, <1>4, HeldKept

\* A process that leaves an item, having touched no held one.
LEMMA LeaveWaits ==
    ASSUME TypeOK, HeldInv, InHand, NEW p \in Procs, pc[p] \in AtItem, Leave(p),
           UNCHANGED <<queue, open, held>>,
           \A pair \in held : /\ pair[2] \in blockedby'[pair[1]]
                              /\ status'[pair[1]] = status[pair[1]]
    PROVE  HeldInv'
<1>1. /\ pc'[p] = "next"
      /\ \A i \in Items : view'[p][i] = IF i = item[p] THEN Unseen[i] ELSE view[p][i]
      /\ \A i \in Items : i # item[p] => barred'[p][i] = barred[p][i]
      /\ queue'[p] = queue[p] /\ item[p] \notin queue[p]
  BY DEF TypeOK, Leave, InHand
<1>2. ASSUME NEW pair \in held PROVE Waits(p, pair[1], pair[2])'
  BY <1>1, <1>2, HeldFacts DEF Waits, Unseen
<1>3. \A q \in Procs \ {p} : /\ pc'[q] = pc[q] /\ item'[q] = item[q] /\ queue'[q] = queue[q]
                             /\ view'[q] = view[q] /\ barred'[q] = barred[q]
  BY DEF TypeOK, Leave
<1> QED
  BY <1>2, <1>3, HeldKept

\* A held item is not admitted: its label is among those that were read, and its
\* blocker is open, whatever could not be read or cleared.
LEMMA AdmitWaits ==
    ASSUME TypeOK, HeldInv, InHand, NEW p \in Procs, Admit(p)
    PROVE  HeldInv'
<1> DEFINE i == item[p]
<1>1. PICK unread \in SUBSET barred[p][i], gone \in SUBSET (barred[p][i] \ open) :
         /\ blockedby' = [blockedby EXCEPT ![i] = @ \ gone]
         /\ IF ~Started(p) /\ \E n \in barred[p][i] \ gone : StillBlocked(n, unread)
            THEN Leave(p)
            ELSE /\ pc' = [pc EXCEPT ![p] = "steps"]
                 /\ barred' = [barred EXCEPT ![p][i] = {}]
                 /\ UNCHANGED <<item, view>>
  BY DEF Admit
<1>2. pc[p] = "admit" /\ UNCHANGED <<status, open, queue, held>> /\ i \in Items
  BY DEF Admit, history, TypeOK
<1>3. ASSUME NEW pair \in held
      PROVE  pair[2] \in blockedby'[pair[1]] /\ status'[pair[1]] = status[pair[1]]
  <2>1. pair[1] \in Items /\ pair[2] \in open /\ pair[2] \in blockedby[pair[1]]
    BY <1>3, HeldFacts
  <2>2. pair[2] \notin gone
    BY <2>1
  <2> QED
    BY <1>1, <1>2, <2>1, <2>2 DEF TypeOK
<1>4. CASE Leave(p)
  BY <1>2, <1>3, <1>4, LeaveWaits DEF AtItem
<1>5. CASE ~(~Started(p) /\ \E n \in barred[p][i] \ gone : StillBlocked(n, unread))
  <2>1. ASSUME NEW pair \in held, pair[1] = i PROVE FALSE
    <3>1. /\ pair[2] \in open /\ view[p][i] = Unseen[i] /\ pair[2] \in barred[p][i]
      BY <1>2, <2>1, HeldFacts DEF Waits
    <3>2. ~Started(p)
      BY <1>2, <3>1, UnseenIs DEF Started
    <3>3. pair[2] \in barred[p][i] \ gone /\ StillBlocked(pair[2], unread)
      BY <3>1 DEF StillBlocked
    <3> QED
      BY <1>5, <3>2, <3>3
  <2>2. /\ pc' = [pc EXCEPT ![p] = "steps"]
        /\ barred' = [barred EXCEPT ![p][i] = {}]
        /\ UNCHANGED <<item, view>>
    BY <1>1, <1>5
  <2>3. /\ pc'[p] = "steps" /\ \A j \in Items : j # i => barred'[p][j] = barred[p][j]
    BY <2>2 DEF TypeOK
  <2>4. ASSUME NEW pair \in held PROVE Waits(p, pair[1], pair[2])'
    <3>1. pair[1] # i /\ pair[1] \in Items /\ Waits(p, pair[1], pair[2])
      BY <2>1, <2>4, HeldFacts
    <3> QED
      BY <1>2, <2>2, <2>3, <3>1 DEF Waits, Unseen
  <2>5. \A q \in Procs \ {p} : /\ pc'[q] = pc[q] /\ item'[q] = item[q] /\ queue'[q] = queue[q]
                               /\ view'[q] = view[q] /\ barred'[q] = barred[q]
    BY <1>2, <2>2 DEF TypeOK
  <2> QED
    BY <1>2, <1>3, <2>4, <2>5, HeldKept
<1> QED
  BY <1>1, <1>4, <1>5

\* A process that knows no less than before and has no item in hand.
LEMMA MovedWaits ==
    ASSUME TypeOK, HeldInv, NEW p \in Procs, UNCHANGED <<status, open, blockedby, view, barred, held>>,
           pc'[p] \notin AtItem, queue'[p] \subseteq queue[p],
           \A q \in Procs \ {p} : pc'[q] = pc[q] /\ item'[q] = item[q] /\ queue'[q] = queue[q]
    PROVE  HeldInv'
<1>1. ASSUME NEW pair \in held
      PROVE  /\ pair[2] \in blockedby'[pair[1]]
             /\ Waits(p, pair[1], pair[2])'
  BY <1>1, HeldFacts DEF AtItem, Waits, Unseen
<1> QED
  BY <1>1, HeldKept

\* A process at work on an item is at work on none that is held.
LEMMA WorkWaits ==
    ASSUME TypeOK, HeldInv, NEW p \in Procs, pc[p] \in {"steps", "lock", "announce", "run"},
           pc'[p] \in {"steps", "lock", "announce", "run"},
           UNCHANGED <<open, blockedby, held, barred, item, queue>>,
           \A i \in Items \ {item[p]} : status'[i] = status[i] /\ view'[p][i] = view[p][i],
           \A q \in Procs \ {p} : pc'[q] = pc[q] /\ view'[q] = view[q]
    PROVE  HeldInv'
<1>1. ASSUME NEW pair \in held
      PROVE  /\ pair[2] \in blockedby'[pair[1]]
             /\ status'[pair[1]] = status[pair[1]]
             /\ Waits(p, pair[1], pair[2])'
  <2>1. pair[1] \in Items \ {item[p]} /\ Waits(p, pair[1], pair[2])
        /\ pair[2] \in blockedby[pair[1]]
    BY <1>1, HeldFacts DEF Waits
  <2> QED
    BY <2>1 DEF Waits, Unseen
<1> QED
  BY <1>1, HeldKept

LEMMA LabelledElsewhere ==
    ASSUME NEW labels \in [Items -> [Steps -> Status]], NEW i, NEW s, NEW new,
           NEW j \in Items, j # i
    PROVE  Labelled(labels, i, s, new)[j] = labels[j]
BY DEF Labelled

LEMMA HeldStep == ASSUME Backlog, TypeOK, InHand, HeldInv, [Next]_vars PROVE HeldInv'
<1>1. ASSUME NEW p \in Procs, Wake(p) PROVE HeldInv'
  BY <1>1, FetchWaits DEF Wake
<1>2. ASSUME NEW p \in Procs, WakeUnlink(p) PROVE HeldInv'
  <2>1. CASE Fetch(p)
    BY <1>2, <2>1, FetchWaits DEF WakeUnlink
  <2>2. CASE pc' = [pc EXCEPT ![p] = "off"] /\ UNCHANGED <<queue, item, at, read, own, history>>
    BY <1>2, <2>2, MovedWaits DEF TypeOK, WakeUnlink, github, read, history, AtItem
  <2> QED
    BY <1>2, <2>1, <2>2 DEF WakeUnlink
<1>3. ASSUME NEW p \in Procs, WakeExpired(p) \/ Sweep(p) PROVE HeldInv'
  BY <1>3, MovedWaits DEF TypeOK, WakeExpired, Sweep, github, read, history, AtItem
<1>4. ASSUME NEW p \in Procs, NEW i \in Items, Take(p, i) \/ TakeUnlink(p, i) PROVE HeldInv'
  <2>1. i \in queue[p] /\ Enter(p, i)
    BY <1>4 DEF Take, TakeUnlink, IsNext
  <2> QED
    BY <2>1, EnterWaits
<1>5. ASSUME NEW p \in Procs, NEW i \in Items, TakeExpired(p, i) PROVE HeldInv'
  BY <1>5, MovedWaits DEF TypeOK, TakeExpired, github, read, history, AtItem
<1>6. ASSUME NEW p \in Procs, NEW i \in Items, PassOver(p, i) PROVE HeldInv'
  <2>1. pc[p] = "next" /\ queue'[p] \subseteq queue[p]
        /\ \A q \in Procs \ {p} : queue'[q] = queue[q]
    BY <1>6 DEF TypeOK, PassOver
  <2> QED
    BY <1>6, <2>1, MovedWaits DEF PassOver, github, read, history, AtItem
<1>7. ASSUME NEW p \in Procs, Admit(p) PROVE HeldInv'
  BY <1>7, AdmitWaits
<1>8. ASSUME NEW p \in Procs, NEW s \in Steps, Choose(p, s) \/ Refuse(p, s) PROVE HeldInv'
  <2>1. /\ pc[p] = "steps" /\ pc'[p] \in {"steps", "lock", "announce", "run"}
        /\ UNCHANGED <<status, open, blockedby, held, barred, item, queue, view>>
        /\ \A q \in Procs \ {p} : pc'[q] = pc[q]
    BY <1>8 DEF TypeOK, Choose, Refuse, github, read, history
  <2> QED
    BY <2>1, WorkWaits
<1>9. ASSUME NEW p \in Procs, LeaveItem(p) PROVE HeldInv'
  <2>1. /\ pc[p] \in AtItem /\ Leave(p) /\ UNCHANGED <<queue, open, held, blockedby, status>>
    BY <1>9 DEF LeaveItem, AtItem, github, history
  <2> QED
    BY <2>1, LeaveWaits, HeldFacts
<1>10. ASSUME NEW p \in Procs, Lock(p) \/ LockFails(p) \/ Announce(p) \/ Complete(p)
       PROVE  HeldInv'
  <2>1. /\ pc[p] \in {"steps", "lock", "announce", "run"} /\ pc'[p] \in {"steps", "lock", "announce", "run"}
        /\ UNCHANGED <<open, blockedby, held, barred, item, queue>>
        /\ \A q \in Procs \ {p} : pc'[q] = pc[q] /\ view'[q] = view[q]
    BY <1>10 DEF TypeOK, Lock, LockFails, Launch, Announce, Complete, read, history
  <2>2. ASSUME NEW i \in Items \ {item[p]}
        PROVE  status'[i] = status[i] /\ view'[p][i] = view[p][i]
    <3>0. status \in [Items -> [Steps -> Status]] /\ view[p] \in [Items -> [Steps -> Status]]
      BY DEF TypeOK
    <3>1. CASE Lock(p)
      <4>1. /\ status' = Labelled(status, item[p], at[p], "wip")
            /\ view'[p] = Labelled(view[p], item[p], at[p], "wip")
        BY <3>1 DEF TypeOK, Lock
      <4> QED
        BY <3>0, <4>1, LabelledElsewhere
    <3>2. CASE LockFails(p)
      <4>1. /\ \/ status' = status
               \/ status' = Without(status, item[p], at[p], "requested")
            /\ view'[p] = Without(view[p], item[p], at[p], "requested")
        BY <3>2 DEF TypeOK, LockFails
      <4> QED
        BY <3>0, <4>1, LabelledElsewhere DEF Without
    <3>2a. CASE Announce(p)
      BY <3>2a DEF Announce, read
    <3>3. CASE Complete(p)
      <4>1. /\ status' = Labelled(status, item[p], at[p], "done")
            /\ view'[p][i] = view[p][i]
        BY <3>3 DEF TypeOK, Complete
      <4> QED
        BY <3>0, <4>1, LabelledElsewhere
    <3> QED
      BY <1>10, <3>1, <3>2, <3>2a, <3>3
  <2> QED
    BY <2>1, <2>2, WorkWaits
<1>11. ASSUME NEW p \in Procs, Halt(p) \/ RateLimited(p) PROVE HeldInv'
  <2>1. /\ pc[p] = "run" /\ Leave(p) /\ UNCHANGED <<queue, open, held, blockedby>>
        /\ \/ \E new : status' = Labelled(status, item[p], at[p], new)
           \/ UNCHANGED status
    BY <1>11 DEF Halt, RateLimited, Without, history
  <2>2. \A pair \in held : /\ pair[2] \in blockedby'[pair[1]]
                           /\ status'[pair[1]] = status[pair[1]]
    <3> SUFFICES ASSUME NEW pair \in held
                 PROVE  /\ pair[2] \in blockedby'[pair[1]]
                        /\ status'[pair[1]] = status[pair[1]]
      OBVIOUS
    <3>1. pair[1] \in Items /\ pair[1] # item[p] /\ pair[2] \in blockedby[pair[1]]
      BY <2>1, HeldFacts DEF Waits
    <3>2. status \in [Items -> [Steps -> Status]]
      BY DEF TypeOK
    <3> QED
      BY <2>1, <3>1, <3>2, LabelledElsewhere
  <2> QED
    BY <2>1, <2>2, LeaveWaits DEF AtItem
<1>12. ASSUME NEW p \in Procs, End(p) \/ Crash(p) PROVE HeldInv'
  <2>1. /\ pc'[p] = "off" /\ queue'[p] = {} /\ view'[p] = Unseen
        /\ UNCHANGED <<status, open, blockedby, held>>
        /\ \A q \in Procs \ {p} : /\ pc'[q] = pc[q] /\ item'[q] = item[q] /\ queue'[q] = queue[q]
                                  /\ view'[q] = view[q] /\ barred'[q] = barred[q]
    BY <1>12 DEF TypeOK, End, Crash, Forget, github
  <2>2. \A pair \in held : Waits(p, pair[1], pair[2])' /\ pair[2] \in blockedby'[pair[1]]
    BY <2>1, HeldFacts DEF Waits, Unseen
  <2> QED
    BY <2>1, <2>2, HeldKept
<1>13. ASSUME UNCHANGED <<status, pc, item, queue, view, barred>>,
              held' \subseteq held,
              \A pair \in held' : pair[2] \in open' /\ pair[2] \in blockedby'[pair[1]]
       PROVE  HeldInv'
  BY <1>13 DEF HeldInv, Waits, Unseen
<1>14. CASE PauseExpires \/ SetStop \/ ClearPause \/ UNCHANGED vars
  <2>1. UNCHANGED <<status, open, blockedby, held, pc, item, queue, view, barred>>
    BY <1>14 DEF PauseExpires, SetStop, ClearPause, vars, github, place, read, history
  <2> QED
    BY <1>13, <2>1, HeldFacts DEF HeldInv
<1>15. ASSUME NEW n \in Items, CloseOrReopen(n) PROVE HeldInv'
  <2>1. /\ UNCHANGED <<status, blockedby, pc, item, queue, view, barred>>
        /\ held' = {pair \in held : pair[2] # n}
        /\ open' = (open \ {n}) \cup ({n} \ open)
    BY <1>15 DEF CloseOrReopen, place, read
  <2> QED
    BY <1>13, <2>1 DEF HeldInv
<1>16. ASSUME NEW i \in Items, NEW n \in Items, Unblock(i, n) PROVE HeldInv'
  <2>1. /\ UNCHANGED <<status, open, pc, item, queue, view, barred>>
        /\ held' = held \ {<<i, n>>}
        /\ blockedby' = [blockedby EXCEPT ![i] = @ \ {n}]
    BY <1>16 DEF Unblock, place, read
  <2>2. ASSUME NEW pair \in held' PROVE pair[2] \in blockedby'[pair[1]]
    <3>1. /\ pair \in Items \X Items /\ pair # <<i, n>>
          /\ pair[2] \in blockedby[pair[1]]
      BY <2>1, <2>2 DEF TypeOK, HeldInv
    <3>2. pair[1] # i \/ pair[2] # n
      BY <3>1
    <3> QED
      BY <2>1, <3>1, <3>2 DEF TypeOK
  <2> QED
    BY <1>13, <2>1, <2>2 DEF HeldInv
<1>17. ASSUME NEW i \in Items, NEW s \in Steps, ClearHalt(i, s) PROVE HeldInv'
  <2>1. /\ UNCHANGED <<open, blockedby, held, pc, item, queue, view, barred>>
        /\ status[i][s] = "halted"
        /\ \E new : status' = Labelled(status, i, s, new)
    BY <1>17 DEF ClearHalt, place, read, history
  <2>2. \A pair \in held : status'[pair[1]] = status[pair[1]]
    <3> SUFFICES ASSUME NEW pair \in held PROVE status'[pair[1]] = status[pair[1]]
      OBVIOUS
    <3>1. pair[1] \in Items /\ status[pair[1]] = Unseen[pair[1]]
      BY DEF TypeOK, HeldInv
    <3>2. pair[1] # i
      BY <2>1, <3>1, UnseenIs
    <3>3. status \in [Items -> [Steps -> Status]]
      BY DEF TypeOK
    <3> QED
      BY <2>1, <3>1, <3>2, <3>3, LabelledElsewhere
  <2> QED
    BY <2>1, <2>2 DEF HeldInv, Waits, Unseen
<1>18. ASSUME NEW i \in Items, NEW s \in Steps, Instruct(i, s) PROVE HeldInv'
  <2>1. /\ UNCHANGED <<open, blockedby, pc, item, queue, view, barred>>
        /\ held' = {pair \in held : pair[1] # i}
        /\ \E new : status' = Labelled(status, i, s, new)
    BY <1>18 DEF Instruct, place, read
  <2>2. \A pair \in held' : status'[pair[1]] = status[pair[1]]
    <3> SUFFICES ASSUME NEW pair \in held' PROVE status'[pair[1]] = status[pair[1]]
      OBVIOUS
    <3>1. pair[1] \in Items /\ pair[1] # i
      BY <2>1 DEF TypeOK
    <3>2. status \in [Items -> [Steps -> Status]]
      BY DEF TypeOK
    <3> QED
      BY <2>1, <3>1, <3>2, LabelledElsewhere
  <2> QED
    BY <2>1, <2>2 DEF HeldInv, Waits, Unseen
<1> QED
  BY <1>1, <1>2, <1>3, <1>4, <1>5, <1>6, <1>7, <1>8, <1>9, <1>10, <1>11, <1>12, <1>14,
     <1>15, <1>16, <1>17, <1>18 DEF Next, Work, People

\* An item that nobody has put a status on waits while an issue it has waited for since
\* then is open: no process takes it to work, and no step of it gets a status, whatever
\* cannot be read or cleared (_is_blocked_from_starting, _clear_satisfied_blocks).  A
\* person's request or skip ends the wait (_work_item_has_started).
THEOREM BlockedAlwaysWaits == ASSUME Backlog PROVE Spec => []BlockedWaits
<1>1. Init => InHand /\ HeldInv
  <2> SUFFICES ASSUME Init PROVE InHand /\ HeldInv
    OBVIOUS
  <2>1. InHand
    BY DEF Init, InHand, AtItem
  <2>2. ASSUME NEW pair \in held
        PROVE  /\ pair[2] \in open /\ pair[2] \in blockedby[pair[1]]
               /\ status[pair[1]] = Unseen[pair[1]]
               /\ \A p \in Procs : Waits(p, pair[1], pair[2])
    <3>1. pair[1] \in Items /\ pair[2] \in Items /\ pair[2] \in BlockedBy[pair[1]]
      BY <2>2 DEF Init
    <3>2. Through[pair[1]] = 0
      BY <3>1, DispatchAssumption
    <3>3. status[pair[1]] = Unseen[pair[1]]
      <4>1. \A s \in Steps : ~(s <= 0)
        BY Bounds DEF Steps
      <4>2. status[pair[1]] = [s \in Steps |-> IF s <= Through[pair[1]] THEN "done" ELSE "none"]
        BY <3>1 DEF Init
      <4> QED
        BY <3>1, <3>2, <4>1, <4>2 DEF Unseen
    <3> QED
      BY <3>1, <3>3 DEF Init, Waits
  <2> QED
    BY <2>1, <2>2 DEF HeldInv
<1>2. Backlog /\ TypeOK /\ InHand /\ HeldInv /\ [Next]_vars => InHand' /\ HeldInv'
  BY InHandStep, HeldStep
<1>3. TypeOK /\ HeldInv => BlockedWaits
  <2> SUFFICES ASSUME TypeOK, HeldInv, NEW pair \in held
               PROVE  /\ \A s \in Steps : status[pair[1]][s] = "none"
                      /\ \A p \in Procs : pc[p] \in {"steps", "lock", "announce", "run"} => item[p] # pair[1]
    BY DEF BlockedWaits
  <2>1. pair[1] \in Items /\ status[pair[1]] = Unseen[pair[1]]
    BY DEF TypeOK, HeldInv
  <2>2. \A p \in Procs : Waits(p, pair[1], pair[2])
    BY DEF HeldInv
  <2> QED
    BY <2>1, <2>2, UnseenIs DEF Waits
<1> QED
  BY <1>1, <1>2, <1>3, TypeCorrect, PTL DEF Spec

----------------------------------------------------------------------------
(* Controls *)

\* A tick that has an item in hand which it has no claim on yet, while a marker is in
\* force that it did not see when it looked, may still start a step of it.
Exposed(p) ==
    /\ pc[p] \in AtItem
    /\ CanClaim(claims[p], Components[item[p]])
    /\ pause = "set" \/ (pc[p] # "admit" /\ level[p] < stop)

\* Every start while a marker was in force is paid for by its being set, or by a lock
\* that failed, and the one that may still come is paid for too.
Paid(p) ==
    /\ pc[p] \in {"off", "waking"} => late[p] = 0
    /\ pc[p] = "lock" => CanClaim(claims[p], Components[item[p]]) /\ level[p] < StopOn[at[p]]
    /\ late[p] <= raised[p] + unlocked[p]
    /\ Exposed(p) => late[p] < raised[p] + unlocked[p]

ControlInv == \A p \in Ticks : Paid(p)

LEMMA TicksRun == \A p \in Ticks : p \in Procs
BY DEF Procs

LEMMA HistoryNumbers ==
    ASSUME TypeOK, NEW p \in Procs
    PROVE  late[p] \in Nat /\ raised[p] \in Nat /\ unlocked[p] \in Nat
BY DEF TypeOK

\* Markers that nobody sets: no tick is exposed that was not.
LEMMA ControlKept ==
    ASSUME ControlInv,
           UNCHANGED <<late, raised, unlocked, claims, pc, item, at, level>>,
           pause' = pause \/ pause' # "set",
           stop' = stop \/ \A p \in Ticks : level[p] < stop' => level[p] < stop
    PROVE  ControlInv'
BY DEF ControlInv, Paid, Exposed

\* A step of one process leaves what the other ticks have paid alone.
LEMMA ControlMoved ==
    ASSUME ControlInv, NEW p \in Procs, p \in Ticks => Paid(p)',
           pause' = pause \/ pause' # "set", stop' = stop,
           \A q \in Procs \ {p} :
               /\ pc'[q] = pc[q] /\ item'[q] = item[q] /\ at'[q] = at[q] /\ level'[q] = level[q]
               /\ claims'[q] = claims[q] /\ late'[q] = late[q] /\ raised'[q] = raised[q]
               /\ unlocked'[q] = unlocked[q]
    PROVE  ControlInv'
<1> SUFFICES ASSUME NEW q \in Ticks PROVE Paid(q)'
  BY DEF ControlInv
<1>1. CASE q = p
  BY <1>1
<1>2. CASE q # p
  BY <1>2, TicksRun DEF ControlInv, Paid, Exposed
<1> QED
  BY <1>1, <1>2

\* A tick that has nothing in hand after a step that starts nothing.
LEMMA ControlAway ==
    ASSUME TypeOK, ControlInv, NEW p \in Procs,
           pc'[p] \notin AtItem,
           p \in Ticks /\ pc'[p] \in {"off", "waking"} => pc[p] \in {"off", "waking"},
           pause' = pause \/ pause' # "set",
           UNCHANGED <<stop, late, raised, unlocked>>,
           \A q \in Procs \ {p} : /\ pc'[q] = pc[q] /\ item'[q] = item[q] /\ at'[q] = at[q]
                                  /\ level'[q] = level[q] /\ claims'[q] = claims[q]
    PROVE  ControlInv'
<1>1. p \in Ticks => Paid(p)'
  BY DEF ControlInv, Paid, Exposed, AtItem
<1> QED
  BY <1>1, ControlMoved

\* Setting a marker pays for one start of every tick that is awake.
LEMMA ControlRaised ==
    ASSUME TypeOK, ControlInv, Raised, UNCHANGED <<late, unlocked>>,
           \A q \in Ticks :
               \/ /\ pc'[q] = pc[q] /\ item'[q] = item[q] /\ at'[q] = at[q]
                  /\ level'[q] = level[q] /\ claims'[q] = claims[q]
               \/ pc'[q] = "next" /\ pc[q] # "off"
    PROVE  ControlInv'
<1> SUFFICES ASSUME NEW q \in Ticks PROVE Paid(q)'
  BY DEF ControlInv
<1>1. q \in Procs /\ Paid(q)
  BY TicksRun DEF ControlInv
<1>2. late[q] \in Nat /\ raised[q] \in Nat /\ unlocked[q] \in Nat
  BY <1>1, HistoryNumbers
<1>3. raised'[q] = IF pc[q] # "off" THEN raised[q] + 1 ELSE 0
  BY <1>1 DEF Raised
<1>4. CASE pc[q] = "off"
  <2>1. late[q] = 0 /\ pc'[q] = "off"
    BY <1>1, <1>4 DEF Paid
  <2> QED
    BY <1>2, <1>3, <1>4, <2>1 DEF Paid, Exposed, AtItem
<1>5. CASE pc[q] # "off"
  <2>1. late'[q] < raised'[q] + unlocked'[q] /\ late'[q] <= raised'[q] + unlocked'[q]
    BY <1>1, <1>2, <1>3, <1>5 DEF Paid
  <2>2. pc'[q] \in {"off", "waking"} => late'[q] = 0
    BY <1>1, <1>5 DEF Paid
  <2>3. pc'[q] = "lock" =>
           CanClaim(claims'[q], Components[item'[q]]) /\ level'[q] < StopOn[at'[q]]
    BY <1>1 DEF Paid
  <2> QED
    BY <2>1, <2>2, <2>3 DEF Paid
<1> QED
  BY <1>4, <1>5

\* What has been claimed cannot be claimed again.
LEMMA ClaimedOnce ==
    ASSUME NEW c \in [labels : SUBSET AllComponents, all : BOOLEAN], NEW i \in Items
    PROVE  ~CanClaim(Claim(c, Components[i]), Components[i])
<1>1. CASE Components[i] = {}
  <2>1. Claim(c, Components[i]) = [c EXCEPT !.all = TRUE]
    BY <1>1 DEF Claim
  <2>2. Claim(c, Components[i]).all = TRUE
    BY <2>1
  <2> QED
    BY <2>2 DEF CanClaim
<1>2. CASE Components[i] # {}
  <2>1. Claim(c, Components[i]) = [c EXCEPT !.labels = @ \cup Components[i]]
    BY <1>2 DEF Claim
  <2>2. Components[i] \subseteq Claim(c, Components[i]).labels
    BY <2>1
  <2> QED
    BY <1>2, <2>2 DEF CanClaim
<1> QED
  BY <1>1, <1>2

LEMMA AtLevel ==
    ASSUME TypeOK, AtStep, NEW p \in Procs, pc[p] = "lock",
           level[p] < StopOn[at[p]], stop >= StopOn[at[p]]
    PROVE  level[p] < stop
<1>1. at[p] \in Steps
  BY DEF AtStep
<1>1a. level[p] \in Int /\ stop \in Int
  BY DEF TypeOK
<1>2. StopOn[at[p]] \in Int
  BY <1>1, Bounds
<1> QED
  BY <1>1a, <1>2

\* A start under a marker spends what was paid for it: with a lock the claim keeps the
\* tick from a second one, without it the failed lock pays.
LEMMA LaunchPaid ==
    ASSUME TypeOK, AtStep, ControlInv, NEW p \in Procs, p \in Ticks, Lock(p) \/ LockFails(p)
    PROVE  Paid(p)'
<1>1. /\ pc[p] = "lock" /\ pc'[p] = "announce"
      /\ late'[p] = IF InForce(at[p]) THEN late[p] + 1 ELSE late[p]
      /\ UNCHANGED <<pause, stop, item, at, level, raised>>
      /\ item[p] \in Items
  BY TicksRun DEF TypeOK, Lock, LockFails, Launch, markers
<1>2. Paid(p) /\ late[p] \in Nat /\ raised[p] \in Nat /\ unlocked[p] \in Nat
  BY HistoryNumbers DEF ControlInv
<1>3. InForce(at[p]) => Exposed(p)
  <2>1. CanClaim(claims[p], Components[item[p]]) /\ level[p] < StopOn[at[p]]
    BY <1>1, <1>2 DEF Paid
  <2>2. stop >= StopOn[at[p]] => level[p] < stop
    BY <1>1, <2>1, AtLevel
  <2> QED
    BY <1>1, <2>1, <2>2 DEF InForce, Exposed, AtItem
<1>4. CASE Lock(p)
  <2>1. claims'[p] = Claim(claims[p], Components[item[p]]) /\ unlocked' = unlocked
    BY <1>4 DEF TypeOK, Lock
  <2>2. ~CanClaim(claims'[p], Components[item'[p]])
    <3>1. claims[p] \in [labels : SUBSET AllComponents, all : BOOLEAN] /\ item'[p] = item[p]
      BY <1>1 DEF TypeOK
    <3> QED
      BY <1>1, <2>1, <3>1, ClaimedOnce
  <2>3. late'[p] <= raised'[p] + unlocked'[p]
    BY <1>1, <1>2, <1>3, <2>1 DEF Paid
  <2> QED
    BY <1>1, <2>2, <2>3 DEF Paid, Exposed
<1>5. CASE LockFails(p)
  <2>1. claims' = claims /\ unlocked'[p] = unlocked[p] + 1
    BY <1>5 DEF TypeOK, LockFails, own
  <2>2. late'[p] <= raised'[p] + unlocked'[p]
    BY <1>1, <1>2, <1>3, <2>1 DEF Paid
  <2>3. Exposed(p)' => Exposed(p)
    BY <1>1, <2>1 DEF Exposed, AtItem
  <2>4. Exposed(p) => late'[p] < raised'[p] + unlocked'[p]
    BY <1>1, <1>2, <2>1 DEF Paid
  <2> QED
    BY <1>1, <2>2, <2>3, <2>4 DEF Paid
<1> QED
  BY <1>4, <1>5

\* What a step of p leaves alone of every other process.
Apart(p) ==
    \A q \in Procs \ {p} :
        /\ pc'[q] = pc[q] /\ item'[q] = item[q] /\ at'[q] = at[q] /\ level'[q] = level[q]
        /\ claims'[q] = claims[q] /\ late'[q] = late[q] /\ raised'[q] = raised[q]
        /\ unlocked'[q] = unlocked[q]

\* A tick that goes on with its item, with nothing claimed, spent or set meanwhile.
LEMMA ControlGoesOn ==
    ASSUME TypeOK, ControlInv, NEW p \in Procs, Apart(p),
           UNCHANGED <<pause, stop, late, raised, unlocked, claims, item>>,
           pc[p] \in AtItem, pc'[p] \in AtItem,
           p \in Ticks => /\ pc'[p] = "lock" => /\ CanClaim(claims[p], Components[item[p]])
                                                /\ level'[p] < StopOn[at'[p]]
                          /\ \/ level'[p] = level[p] /\ pc[p] # "admit"
                             \/ level'[p] = stop
    PROVE  ControlInv'
<1>1. ASSUME p \in Ticks PROVE Paid(p)'
  <2>1. Exposed(p)' => Exposed(p)
    BY <1>1 DEF Exposed, AtItem, TypeOK
  <2> QED
    BY <1>1, <2>1 DEF ControlInv, Paid, AtItem
<1> QED
  BY <1>1, ControlMoved DEF Apart

LEMMA ControlStep == ASSUME TypeOK, AtStep, ControlInv, [Next]_vars PROVE ControlInv'
<1>1. ASSUME NEW p \in Procs, Wake(p) PROVE ControlInv'
  BY <1>1, ControlAway DEF TypeOK, Wake, Fetch, markers, AtItem
<1>2. ASSUME NEW p \in Procs, WakeUnlink(p) PROVE ControlInv'
  <2>1. /\ pc[p] = "waking" /\ pause' = "none"
        /\ UNCHANGED <<stop, late, raised, unlocked>>
        /\ pc' = [pc EXCEPT ![p] = "off"] \/ pc' = [pc EXCEPT ![p] = "next"]
    BY <1>2 DEF WakeUnlink, Fetch, history
  <2>2. pc'[p] \notin AtItem
    BY <2>1 DEF TypeOK, AtItem
  <2>3. \A q \in Procs \ {p} : /\ pc'[q] = pc[q] /\ item'[q] = item[q] /\ at'[q] = at[q]
                               /\ level'[q] = level[q] /\ claims'[q] = claims[q]
    <3>1. \A q \in Procs \ {p} : pc'[q] = pc[q]
      BY <2>1 DEF TypeOK
    <3>2. \A q \in Procs \ {p} : /\ item'[q] = item[q] /\ at'[q] = at[q]
                                 /\ level'[q] = level[q] /\ claims'[q] = claims[q]
      BY <1>2 DEF TypeOK, WakeUnlink, Fetch, read, own
    <3> QED
      BY <3>1, <3>2
  <2> QED
    BY <2>1, <2>2, <2>3, ControlAway
<1>3. ASSUME NEW p \in Procs, WakeExpired(p) \/ Sweep(p) PROVE ControlInv'
  BY <1>3, ControlAway DEF TypeOK, WakeExpired, Sweep, ItemsDone, markers, read, own, history, AtItem
<1>4. ASSUME NEW p \in Procs, NEW i \in Items, Take(p, i) \/ TakeUnlink(p, i) PROVE ControlInv'
  <2>1. /\ pc'[p] = "admit" /\ pc[p] \in {"next", "unlink"} /\ pause' = "none"
        /\ UNCHANGED <<stop, level, claims, late, raised, unlocked>>
        /\ Apart(p)
    BY <1>4 DEF TypeOK, Take, TakeUnlink, Enter, own, history, Apart
  <2>2. p \in Ticks => Paid(p)'
    BY <2>1 DEF ControlInv, Paid, Exposed
  <2> QED
    BY <2>1, <2>2, ControlMoved DEF Apart
<1>5. ASSUME NEW p \in Procs, NEW i \in Items, TakeExpired(p, i) \/ PassOver(p, i) PROVE ControlInv'
  BY <1>5, ControlAway DEF TypeOK, TakeExpired, PassOver, markers, read, own, history, AtItem
<1>6. ASSUME NEW p \in Procs, Admit(p) PROVE ControlInv'
  <2>1. pc[p] = "admit" /\ UNCHANGED <<pause, stop, claims, late, raised, unlocked>>
    BY <1>6 DEF Admit, markers, own, history
  <2>2. CASE Leave(p)
    <3>1. /\ pc'[p] = "next"
          /\ \A q \in Procs \ {p} : /\ pc'[q] = pc[q] /\ item'[q] = item[q] /\ at'[q] = at[q]
                                    /\ level'[q] = level[q] /\ claims'[q] = claims[q]
      BY <2>1, <2>2 DEF TypeOK, Leave
    <3> QED
      BY <2>1, <3>1, ControlAway DEF AtItem
  <2>3. CASE /\ pc' = [pc EXCEPT ![p] = "steps"]
             /\ level' = [level EXCEPT ![p] = IF p \in Ticks THEN stop ELSE 0]
             /\ UNCHANGED <<item, at>>
    <3>1. /\ pc'[p] = "steps" /\ (p \in Ticks => level'[p] = stop) /\ Apart(p)
      BY <2>1, <2>3 DEF TypeOK, Apart
    <3> QED
      BY <2>1, <2>3, <3>1, ControlGoesOn DEF AtItem
  <2> QED
    BY <1>6, <2>2, <2>3 DEF Admit
<1>7. ASSUME NEW p \in Procs, NEW s \in Steps, Choose(p, s) PROVE ControlInv'
  <2>1. /\ pc[p] = "steps" /\ pc'[p] = "lock" /\ at'[p] = s
        /\ UNCHANGED <<pause, stop, claims, item, level, late, raised, unlocked>>
        /\ Apart(p)
        /\ CanClaim(Claims(p), Components[item[p]]) /\ level[p] < StopOn[s]
    BY <1>7 DEF TypeOK, Choose, IsNextStep, Ready, markers, read, own, Apart
  <2>2. p \in Ticks => CanClaim(claims[p], Components[item[p]])
    BY <2>1 DEF Claims
  <2> QED
    BY <2>1, <2>2, ControlGoesOn DEF AtItem
<1>8. ASSUME NEW p \in Procs, NEW s \in Steps, Refuse(p, s) PROVE ControlInv'
  <2>1. /\ pc[p] = "steps" /\ pc' = pc
        /\ UNCHANGED <<pause, stop, claims, item, level, late, raised, unlocked>>
        /\ Apart(p)
    BY <1>8 DEF TypeOK, Refuse, markers, read, own, history, Apart
  <2> QED
    BY <2>1, ControlGoesOn DEF AtItem
<1>9. ASSUME NEW p \in Procs, LeaveItem(p) \/ Halt(p) PROVE ControlInv'
  <2>1. /\ Leave(p) /\ pc[p] \in AtItem
        /\ UNCHANGED <<pause, stop, claims, late, raised, unlocked>>
    BY <1>9 DEF LeaveItem, Halt, markers, own, history, AtItem
  <2>2. /\ pc'[p] = "next"
        /\ \A q \in Procs \ {p} : /\ pc'[q] = pc[q] /\ item'[q] = item[q] /\ at'[q] = at[q]
                                  /\ level'[q] = level[q] /\ claims'[q] = claims[q]
    BY <2>1 DEF TypeOK, Leave
  <2> QED
    BY <2>1, <2>2, ControlAway DEF AtItem
<1>10. ASSUME NEW p \in Procs, Lock(p) \/ LockFails(p) PROVE ControlInv'
  <2>1. UNCHANGED <<pause, stop>> /\ Apart(p)
    BY <1>10 DEF TypeOK, Lock, LockFails, Launch, markers, own, Apart
  <2>2. p \in Ticks => Paid(p)'
    BY <1>10, LaunchPaid
  <2> QED
    BY <2>1, <2>2, ControlMoved DEF Apart
<1>10a. ASSUME NEW p \in Procs, Announce(p) PROVE ControlInv'
  <2>1. /\ pc[p] = "announce" /\ pc'[p] = "run"
        /\ UNCHANGED <<pause, stop, claims, item, level, late, raised, unlocked>>
        /\ Apart(p)
    BY <1>10a DEF TypeOK, Announce, markers, read, own, history, Apart
  <2> QED
    BY <2>1, ControlGoesOn DEF AtItem
<1>11. ASSUME NEW p \in Procs, Complete(p) PROVE ControlInv'
  <2>1. /\ pc[p] = "run" /\ pc'[p] = "steps"
        /\ UNCHANGED <<pause, stop, claims, item, level, late, raised, unlocked>>
        /\ Apart(p)
    BY <1>11 DEF TypeOK, Complete, markers, own, history, Apart
  <2> QED
    BY <2>1, ControlGoesOn DEF AtItem
<1>12. ASSUME NEW p \in Procs, RateLimited(p) PROVE ControlInv'
  <2>1. /\ Raised /\ UNCHANGED <<late, unlocked>> /\ Leave(p) /\ pc[p] = "run"
        /\ claims' = [claims EXCEPT ![p] = Unclaim(@, Components[item[p]])]
    BY <1>12 DEF RateLimited
  <2>2. /\ pc'[p] = "next"
        /\ \A q \in Procs \ {p} : /\ pc'[q] = pc[q] /\ item'[q] = item[q] /\ at'[q] = at[q]
                                  /\ level'[q] = level[q] /\ claims'[q] = claims[q]
    BY <2>1 DEF TypeOK, Leave
  <2> QED
    BY <2>1, <2>2, TicksRun, ControlRaised
<1>13. ASSUME NEW p \in Procs, End(p) \/ Crash(p) PROVE ControlInv'
  <2>1. /\ pc'[p] = "off" /\ late'[p] = 0 /\ raised'[p] = 0 /\ unlocked'[p] = 0
        /\ UNCHANGED <<pause, stop>> /\ Apart(p)
    BY <1>13 DEF TypeOK, End, Crash, Forget, markers, Apart
  <2>2. Paid(p)'
    BY <2>1 DEF Paid, Exposed, AtItem
  <2> QED
    BY <2>1, <2>2, ControlMoved DEF Apart
<1>14. CASE SetStop
  <2>1. UNCHANGED <<pause, pc, item, at, level, claims, late, unlocked>>
    BY <1>14 DEF SetStop, place, read, own
  <2>2. CASE Raised
    BY <2>1, <2>2, ControlRaised
  <2>3. CASE raised' = raised /\ ~(stop' > stop)
    <3>1. stop \in 0..3 /\ stop' \in 0..3
      BY <1>14 DEF TypeOK, SetStop
    <3>2. ASSUME NEW p \in Ticks, level[p] < stop' PROVE level[p] < stop
      <4>1. level[p] \in 0..3
        BY TicksRun DEF TypeOK
      <4> QED
        BY <2>3, <3>1, <3>2, <4>1
    <3> QED
      BY <2>1, <2>3, <3>2, ControlKept
  <2> QED
    BY <1>14, <2>2, <2>3 DEF SetStop
<1>15. CASE PauseExpires \/ ClearPause \/ UNCHANGED vars
  BY <1>15, ControlKept DEF PauseExpires, ClearPause, vars, markers, place, read, own, history
<1>16. ASSUME \/ \E n \in Items : CloseOrReopen(n)
              \/ \E i \in Items, n \in Items : Unblock(i, n)
              \/ \E i \in Items, s \in Steps : Instruct(i, s) \/ ClearHalt(i, s)
       PROVE  ControlInv'
  <2>1. UNCHANGED <<pause, stop, late, raised, unlocked, claims, pc, item, at, level>>
    BY <1>16 DEF CloseOrReopen, Unblock, Instruct, ClearHalt, markers, place, read, own, history
  <2> QED
    BY <2>1, ControlKept
<1> QED
  BY <1>1, <1>2, <1>3, <1>4, <1>5, <1>6, <1>7, <1>8, <1>9, <1>10, <1>10a, <1>11, <1>12, <1>13,
     <1>14, <1>15, <1>16 DEF Next, Work, People

\* A tick starts no more steps under a pause or a stop than one for each time one was
\* set, and one for each lock that failed: what it started with a lock it cannot claim
\* again, and the next item is asked for both (_check_controls, is_pipeline_stopped).
THEOREM ControlsAlwaysTakeHold == ASSUME Backlog PROVE Spec => []ControlsTakeHold
<1>1. Init => ControlInv
  BY TicksRun DEF Init, ControlInv, Paid, Exposed, AtItem
<1>2. TypeOK /\ AtStep /\ ControlInv /\ [Next]_vars => ControlInv'
  BY ControlStep
<1>3. ControlInv => ControlsTakeHold
  BY DEF ControlInv, Paid, ControlsTakeHold
<1> QED
  BY <1>1, <1>2, <1>3, WellFormed, PTL DEF Spec
=============================================================================
