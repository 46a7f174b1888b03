--------------------------- MODULE ItemWrites_proofs ---------------------------
(***************************************************************************)
(* Proofs about ItemWrites, for any steps, sections and labels, any number *)
(* of attempts, retries, edits, reruns and failures.                       *)
(***************************************************************************)
EXTENDS ItemWrites, TLAPS

(* The order of the effects *)

LEMMA Bounds ==
    /\ Person \notin Writers
    /\ Whole \notin Sections
    /\ Section \in [Writers -> Sections \cup {Whole}]
    /\ Requested \in [Writers -> SUBSET Labels] /\ Allowed \in [Writers -> SUBSET Labels]
    /\ Raisers \subseteq Writers /\ Opening \subseteq Writers
    /\ MaxAttempts \in Nat /\ MaxRetries \in Nat /\ MaxEdits \in Nat /\ MaxReruns \in Nat
    /\ MaxFaults \in Nat /\ MaxAttempts > 0
    /\ Writers \subseteq Authors /\ Person \in Authors
BY ItemWritesAssumption DEF Authors

LEMMA Numbers ==
    /\ MaxAttempts \in Nat /\ MaxRetries \in Nat /\ MaxEdits \in Nat /\ MaxReruns \in Nat
    /\ MaxFaults \in Nat /\ MaxAttempts > 0
BY ItemWritesAssumption

\* Counting up to a bound, or without one.
LEMMA OneMore ==
    /\ \A n \in Nat : n + 1 \in Nat
    /\ \A m \in Nat : \A n \in 0..m : n \in Nat /\ (n < m => n + 1 \in 0..m)
    /\ \A m \in Nat \ {0} : 1 \in 1..m /\ \A n \in 1..m : n < m => n + 1 \in 1..m
OBVIOUS

LEMMA OrderIs ==
    /\ DOMAIN Order = 1..7
    /\ Order[1] = "begin" /\ Order[2] = "stamp" /\ Order[3] = "labels" /\ Order[4] = "body"
    /\ Order[5] = "issue" /\ Order[6] = "refresh" /\ Order[7] = "ready"
BY DEF Order

\* A set of places in the order has a first one.
LEMMA FirstOf ==
    ASSUME NEW S \in SUBSET (1..7), S # {}
    PROVE  First(S) \in S /\ \A n \in S : First(S) <= n
<1>1. \E k \in S : \A n \in S : k <= n
  <2>1. CASE 1 \in S
    BY <2>1
  <2>2. CASE 1 \notin S /\ 2 \in S
    BY <2>2
  <2>3. CASE 1 \notin S /\ 2 \notin S /\ 3 \in S
    BY <2>3
  <2>4. CASE S \subseteq {4, 5, 6, 7} /\ 4 \in S
    BY <2>4
  <2>5. CASE S \subseteq {5, 6, 7} /\ 5 \in S
    BY <2>5
  <2>6. CASE S \subseteq {6, 7} /\ 6 \in S
    BY <2>6
  <2>7. CASE S = {7}
    BY <2>7
  <2>8. 1..7 = {1, 2, 3, 4, 5, 6, 7}
    OBVIOUS
  <2>9. S \subseteq {1, 2, 3, 4, 5, 6, 7}
    BY <2>8
  <2> QED
    BY <2>9, <2>1, <2>2, <2>3, <2>4, <2>5, <2>6, <2>7
<1> QED
  BY <1>1 DEF First

LEMMA AfterIs ==
    ASSUME NEW w \in Writers, NEW n \in 1..7
    PROVE  After(w, Order[n]) = Following(w, Order[n])
<1>1. n \in DOMAIN Order
  BY OrderIs
<1> QED
  BY <1>1 DEF After, Step

\* What comes after: an effect later in the order that is asked for, or nothing.
LEMMA AfterIsLater ==
    ASSUME NEW w \in Writers, NEW n \in 1..7
    PROVE  \/ After(w, Order[n]) = "done"
           \/ \E k \in (n + 1)..7 : Asks(w, Order[k]) /\ After(w, Order[n]) = Enter(w, Order[k])
<1> DEFINE later == Later(w, Order[n])
<1>1. \A k \in later : k \in (n + 1)..7 /\ Asks(w, Order[k])
  BY OrderIs DEF Later
<1>2. later \in SUBSET (1..7)
  BY <1>1
<1>3. later # {} => First(later) \in later
  BY <1>2, FirstOf
<1>4. After(w, Order[n]) = IF later = {} THEN "done" ELSE Enter(w, Order[First(later)])
  BY AfterIs DEF Following
<1> HIDE DEF later
<1> QED
  BY <1>1, <1>3, <1>4

\* The status comes first.
LEMMA AfterBegin ==
    ASSUME NEW w \in Writers
    PROVE  After(w, "begin") = "stamp"
<1> DEFINE later == Later(w, Order[1])
<1>1. 2 \in later /\ \A k \in later : k \in 2..7
  BY OrderIs DEF Later, Asks
<1>2. First(later) \in later /\ First(later) <= 2
  BY <1>1, FirstOf
<1>3. First(later) = 2
  BY <1>1, <1>2
<1>4. After(w, Order[1]) = IF later = {} THEN "done" ELSE Enter(w, Order[First(later)])
  BY AfterIs DEF Following
<1> QED
  BY <1>1, <1>3, <1>4, OrderIs DEF Enter

\* The same, effect by effect.
Start(w) == IF Replaces(w) THEN "look" ELSE "get"

LEMMA AfterThat ==
    ASSUME NEW w \in Writers
    PROVE  /\ After(w, "stamp") \in {"labels", Start(w), "issue", "refresh", "ready", "done"}
           /\ After(w, "labels") \in {Start(w), "issue", "refresh", "ready", "done"}
           /\ After(w, "body") \in {"issue", "refresh", "ready", "done"}
           /\ After(w, "issue") \in {"refresh", "ready", "done"}
           /\ After(w, "refresh") \in {"ready", "done"}
           /\ After(w, "ready") = "done"
           /\ \A what \in {"stamp", "labels", "body", "issue", "refresh"} :
                 After(w, what) = "ready" => w \in Opening
<1>1. \A n \in 2..7 : \/ After(w, Order[n]) = "done"
                      \/ \E k \in (n + 1)..7 : Asks(w, Order[k]) /\ After(w, Order[n]) = Enter(w, Order[k])
  BY AfterIsLater
<1>2. \A k \in 3..7 : Enter(w, Order[k]) = IF k = 4 THEN Start(w) ELSE Order[k]
  BY OrderIs DEF Enter, Start
<1>3. Asks(w, "ready") => w \in Opening
  BY DEF Asks
<1>4. \A n \in 2..7 : \/ After(w, Order[n]) = "done"
                      \/ \E k \in (n + 1)..7 : /\ After(w, Order[n]) = IF k = 4 THEN Start(w) ELSE Order[k]
                                               /\ k = 7 => w \in Opening
  BY <1>1, <1>2, <1>3, OrderIs
<1>5. Start(w) \in {"look", "get"}
  BY DEF Start
<1>6. After(w, "stamp") \in {"labels", Start(w), "issue", "refresh", "ready", "done"}
      /\ (After(w, "stamp") = "ready" => w \in Opening)
  BY <1>4, <1>5, OrderIs
<1>7. After(w, "labels") \in {Start(w), "issue", "refresh", "ready", "done"}
      /\ (After(w, "labels") = "ready" => w \in Opening)
  BY <1>4, <1>5, OrderIs
<1>8. After(w, "body") \in {"issue", "refresh", "ready", "done"}
      /\ (After(w, "body") = "ready" => w \in Opening)
  BY <1>4, <1>5, OrderIs
<1>9. After(w, "issue") \in {"refresh", "ready", "done"}
      /\ (After(w, "issue") = "ready" => w \in Opening)
  BY <1>4, <1>5, OrderIs
<1>10. After(w, "refresh") \in {"ready", "done"}
       /\ (After(w, "refresh") = "ready" => w \in Opening)
  BY <1>4, <1>5, OrderIs
<1>11. After(w, "ready") = "done"
  BY <1>4, OrderIs
<1> QED
  BY <1>6, <1>7, <1>8, <1>9, <1>10, <1>11

----------------------------------------------------------------------------
(* Types *)

ItemTypes ==
    /\ body \in Bodies
    /\ snaps \subseteq (Writers \X Proses)
    /\ labels \subseteq Labels
    /\ raised \in [Writers -> Nat]
    /\ opened \subseteq Opening

CallTypes ==
    /\ pc \in [Writers -> Places]
    /\ tries \in [Writers -> 0..MaxRetries]
    /\ faults \in 0..MaxFaults

MemoryTypes ==
    /\ asked \in [Writers -> Bodies]
    /\ read \in [Writers -> Bodies]
    /\ kept \in [Writers -> Proses]
    /\ pending \in [Writers -> SUBSET Labels]
    /\ attempt \in [Writers -> 1..MaxAttempts]
    /\ stamped \subseteq Writers

WriteTypes ==
    /\ checked \subseteq Items
    /\ buried \subseteq Items
    /\ since \in [Writers -> SUBSET Proses]
    /\ displaced \subseteq (Writers \X Proses)
    /\ rivals \in [Writers -> Nat]

CountTypes ==
    /\ stamps \in [Writers -> Nat]
    /\ verdict \in [Writers -> {"none", "written", "refused", "unresolved", "raised", "given up"}]
    /\ lost \in [Writers -> Nat]
    /\ edits \in 0..MaxEdits
    /\ reruns \in 0..MaxReruns

\* TypeOK without the bounds on what is counted.
Shape == ItemTypes /\ CallTypes /\ MemoryTypes /\ WriteTypes /\ CountTypes

LEMMA PlacesHold ==
    ASSUME NEW w \in Writers
    PROVE  /\ {After(w, what) : what \in {"begin", "stamp", "labels", "body", "issue", "refresh", "ready"}}
                \subseteq Places
           /\ {"off", "look", "snap", "keep", "get", "put", "verify", "done", "dead", "labels"} \subseteq Places
BY AfterBegin, AfterThat DEF Start, Places

LEMMA CallsTyped ==
    ASSUME CallTypes, NEW w \in Writers, NEW where \in Places,
           Answered(w, where) \/ Resend(w) \/ Raise(w, where)
    PROVE  CallTypes'
BY Bounds DEF CallTypes, Answered, Resend, Raise, Goto, Fault

LEMMA BodyTypes ==
    /\ FirstBody \in Bodies /\ FirstBody.prose \in Proses
    /\ \A b \in Bodies : b.prose \in Proses /\ b.todos \in Todos /\ Checked(b) \subseteq Items
    /\ \A todos \in Todos, w \in Writers : [prose |-> <<w, 0>>, todos |-> todos, torn |-> {}] \in Bodies
<1>1. 0 \in 0..MaxEdits
  BY Bounds
<1>2. FirstBody \in Bodies
  BY <1>1, Bounds DEF FirstBody, Bodies, Todos, Torn, Proses
<1>3. \A b \in Bodies : b.prose \in Proses /\ b.todos \in Todos /\ Checked(b) \subseteq Items
  BY DEF Bodies, Checked
<1>4. \A todos \in Todos, w \in Writers : [prose |-> <<w, 0>>, todos |-> todos, torn |-> {}] \in Bodies
  BY <1>1, Bounds DEF Bodies, Proses, Torn
<1> QED
  BY <1>2, <1>3, <1>4

\* A patch holds its section, in a body that it makes into another.
LEMMA PatchTypes ==
    ASSUME NEW w \in Writers, ~Replaces(w)
    PROVE  /\ Section[w] \in Sections
           /\ \A content \in SUBSET Ticks : [FirstBody EXCEPT !.todos[Section[w]] = content] \in Bodies
           /\ \A b \in Bodies : SectionOf(w, b) \in SUBSET Ticks
<1>1. Section[w] \in Sections
  BY Bounds DEF Replaces
<1>2. \A b \in Bodies : SectionOf(w, b) \in SUBSET Ticks
  BY <1>1 DEF Bodies, Todos, SectionOf
<1>3. \A content \in SUBSET Ticks : [FirstBody EXCEPT !.todos[Section[w]] = content] \in Bodies
  BY <1>1, BodyTypes DEF Bodies, Todos
<1> QED
  BY <1>1, <1>2, <1>3

\* The body that a patch makes: its section, and the rest as it was read.
LEMMA PatchedIs ==
    ASSUME MemoryTypes, NEW w \in Writers, ~Replaces(w), NEW b \in Bodies
    PROVE  /\ Patched(w, b) \in Bodies
           /\ Patched(w, b).prose = b.prose
           /\ SectionOf(w, Patched(w, b)) = SectionOf(w, asked[w])
           /\ \A s \in Sections \ {Section[w]} : Patched(w, b).todos[s] = b.todos[s]
BY PatchTypes DEF MemoryTypes, Patched, SectionOf, Bodies, Todos

LEMMA WritesTyped ==
    ASSUME WriteTypes, NEW who \in Authors, NEW b \in Bodies, Write(who, b)
    PROVE  /\ body' = b
           /\ checked' \subseteq Items
           /\ since' \in [Writers -> SUBSET Proses]
           /\ rivals' \in [Writers -> Nat]
<1>1. checked' \subseteq Items
  BY BodyTypes DEF WriteTypes, Write
<1>2. since' \in [Writers -> SUBSET Proses]
  BY BodyTypes DEF WriteTypes, Write
<1>3. rivals' \in [Writers -> Nat]
  BY DEF WriteTypes, Write
<1> QED
  BY <1>1, <1>2, <1>3 DEF Write

LEMMA LandsTyped ==
    ASSUME ItemTypes, MemoryTypes, WriteTypes, NEW w \in Writers, Land(w)
    PROVE  body' \in Bodies /\ WriteTypes'
<1> DEFINE b == IF Replaces(w) THEN asked[w] ELSE Patched(w, read[w])
<1>1. b \in Bodies /\ w \in Authors
  BY PatchedIs, Bounds DEF MemoryTypes
<1>2. Write(w, b)
  BY DEF Land
<1>3. buried' \subseteq Items
  BY BodyTypes DEF Land, ItemTypes, WriteTypes
<1>4. displaced' \subseteq (Writers \X Proses)
  BY BodyTypes DEF Land, ItemTypes, WriteTypes
<1> QED
  BY <1>1, <1>2, <1>3, <1>4, WritesTyped DEF WriteTypes

LEMMA ForgotTyped ==
    ASSUME MemoryTypes, NEW w \in Writers, Forget(w), stamped' = stamped
    PROVE  MemoryTypes'
BY BodyTypes, Bounds DEF MemoryTypes, Forget

LEMMA AttemptsTyped ==
    ASSUME CallTypes, MemoryTypes, CountTypes, NEW w \in Writers, EndAttempt(w)
    PROVE  /\ attempt' \in [Writers -> 1..MaxAttempts]
           /\ verdict' \in [Writers -> {"none", "written", "refused", "unresolved", "raised", "given up"}]
           /\ pc' \in [Writers -> Places]
<1>1. After(w, "body") \in Places /\ "get" \in Places
  BY PlacesHold
<1>2. CASE MoreAttempts(attempt[w])
  <2>1. attempt[w] + 1 \in 1..MaxAttempts
    BY <1>2, Numbers DEF MemoryTypes, MoreAttempts
  <2> QED
    BY <1>1, <1>2, <2>1 DEF CallTypes, MemoryTypes, CountTypes, EndAttempt, Goto
<1>3. CASE ~MoreAttempts(attempt[w])
  BY <1>1, <1>3 DEF CallTypes, MemoryTypes, CountTypes, EndAttempt, Goto
<1> QED
  BY <1>2, <1>3

\* Whose places are whose, and who has a status.
PlaceInv ==
    /\ \A w \in Writers : pc[w] \in {"look", "snap", "keep"} => Replaces(w)
    /\ \A w \in Writers : pc[w] \in {"get", "verify"} => ~Replaces(w)
    /\ \A w \in Writers : pc[w] = "ready" => w \in Opening
    /\ \A w \in Writers : pc[w] \in {"off", "stamp"} => w \notin stamped

LEMMA ShapeBeginning ==
    ASSUME Shape, PlaceInv, NEW w \in Writers, Begin(w) \/ Stamp(w) \/ Crash(w) \/ Reclaim(w) \/ SendBack(w)
    PROVE  Shape'
<1> USE DEF Shape
<1>1. CASE Begin(w)
  <2>1. asked' \in [Writers -> Bodies]
    <3>1. CASE Replaces(w)
      BY <1>1, <3>1, BodyTypes DEF Begin, ItemTypes, MemoryTypes
    <3>2. CASE ~Replaces(w)
      BY <1>1, <3>2, PatchTypes DEF Begin, MemoryTypes
    <3> QED
      BY <3>1, <3>2
  <2>2. attempt' \in [Writers -> 1..MaxAttempts]
    BY <1>1, Bounds DEF Begin, MemoryTypes
  <2>3. CallTypes'
    BY <1>1, PlacesHold DEF Begin, Goto, CallTypes
  <2>4. verdict' \in [Writers -> {"none", "written", "refused", "unresolved", "raised", "given up"}]
        /\ rivals' \in [Writers -> Nat]
    BY <1>1 DEF Begin, CountTypes, WriteTypes
  <2> QED
    BY <1>1, <2>1, <2>2, <2>3, <2>4 DEF Begin, item, spent, ItemTypes, MemoryTypes, WriteTypes, CountTypes
<1>2. CASE Stamp(w)
  <2>1. CallTypes'
    BY <1>2, PlacesHold DEF Stamp, Goto, CallTypes
  <2>2. pending' \in [Writers -> SUBSET Labels] /\ stamps' \in [Writers -> Nat]
    BY <1>2, Bounds, OneMore DEF Stamp, Clears, MemoryTypes, CountTypes
  <2> QED
    BY <1>2, <2>1, <2>2 DEF Stamp, item, spent, ItemTypes, MemoryTypes, WriteTypes, CountTypes
<1>3. CASE Crash(w)
  <2>1. MemoryTypes'
    BY <1>3, ForgotTyped DEF Crash
  <2>2. CallTypes'
    BY <1>3, PlacesHold, Bounds DEF Crash, Goto, Fault, CallTypes
  <2> QED
    BY <1>3, <2>1, <2>2 DEF Crash, item, history, spent, ItemTypes, WriteTypes, CountTypes
<1>4. CASE Reclaim(w)
  BY <1>4, PlacesHold DEF Reclaim, Goto, item, history, spent, ItemTypes, CallTypes, MemoryTypes, WriteTypes,
                          CountTypes
<1>5. CASE SendBack(w)
  <2>1. reruns' \in 0..MaxReruns
    BY <1>5, Numbers, OneMore DEF SendBack, CountTypes
  <2> QED
    BY <1>5, <2>1, PlacesHold DEF SendBack, Goto, item, history, ItemTypes, CallTypes, MemoryTypes, WriteTypes,
                                  CountTypes
<1> QED
  BY <1>1, <1>2, <1>3, <1>4, <1>5

LEMMA ShapeLabelling ==
    ASSUME Shape, NEW w \in Writers, NEW l \in Labels, Label(w, l) \/ LabelLost(w, l)
    PROVE  Shape'
<1> USE DEF Shape
<1>1. AfterLabel(w, l) \in Places
  BY PlacesHold DEF AfterLabel
<1>2. CallTypes'
  BY <1>1, CallsTyped DEF Label, LabelLost
<1>3. labels' \subseteq Labels /\ pending' \in [Writers -> SUBSET Labels]
  BY DEF Label, LabelLost, LabelDone, ItemTypes, MemoryTypes
<1> QED
  BY <1>2, <1>3 DEF Label, LabelLost, history, spent, ItemTypes, MemoryTypes, WriteTypes, CountTypes

LEMMA ShapeReplacing ==
    ASSUME Shape, NEW w \in Writers, Look(w) \/ Snap(w) \/ Keep(w) \/ SnapLost(w)
    PROVE  Shape'
<1> USE DEF Shape
<1>1. CallTypes'
  BY PlacesHold, CallsTyped DEF Look, Snap, Keep, SnapLost, AfterSnapLost
<1>2. kept' \in [Writers -> Proses]
  BY BodyTypes DEF Look, Snap, Keep, SnapLost, ItemTypes, MemoryTypes, item
<1>3. snaps' \subseteq (Writers \X Proses)
  BY DEF Look, Snap, Keep, SnapLost, ItemTypes, MemoryTypes, item
<1>4. verdict' \in [Writers -> {"none", "written", "refused", "unresolved", "raised", "given up"}]
  BY DEF Look, Snap, Keep, SnapLost, CountTypes, history
<1> QED
  BY <1>1, <1>2, <1>3, <1>4 DEF Look, Snap, Keep, SnapLost, item, history, spent, ItemTypes, MemoryTypes,
                                WriteTypes, CountTypes

LEMMA ShapePatching ==
    ASSUME Shape, NEW w \in Writers, Miss(w) \/ Get(w) \/ Verify(w) \/ GetLost(w)
    PROVE  Shape'
<1> USE DEF Shape
<1>1. CASE Get(w)
  <2>1. CallTypes'
    BY <1>1, PlacesHold, CallsTyped DEF Get, AfterRefusal
  <2>2. read' \in [Writers -> Bodies]
    BY <1>1 DEF Get, ItemTypes, MemoryTypes
  <2>3. verdict' \in [Writers -> {"none", "written", "refused", "unresolved", "raised", "given up"}]
    BY <1>1 DEF Get, CountTypes
  <2> QED
    BY <1>1, <2>1, <2>2, <2>3 DEF Get, item, spent, ItemTypes, MemoryTypes, WriteTypes, CountTypes
<1>2. CASE Verify(w)
  <2>1. /\ pc' \in [Writers -> Places]
        /\ attempt' \in [Writers -> 1..MaxAttempts]
        /\ verdict' \in [Writers -> {"none", "written", "refused", "unresolved", "raised", "given up"}]
    <3>1. CASE EndAttempt(w)
      BY <3>1, AttemptsTyped
    <3>2. CASE Goto(w, After(w, "body")) /\ verdict' = [verdict EXCEPT ![w] = "written"] /\ UNCHANGED attempt
      BY <3>2, PlacesHold DEF Goto, CallTypes, MemoryTypes, CountTypes
    <3> QED
      BY <1>2, <3>1, <3>2 DEF Verify
  <2>2. tries' \in [Writers -> 0..MaxRetries] /\ faults' \in 0..MaxFaults
    BY <1>2, Bounds DEF Verify, CallTypes
  <2> QED
    BY <1>2, <2>1, <2>2 DEF Verify, item, spent, ItemTypes, CallTypes, MemoryTypes, WriteTypes, CountTypes
<1>3. CASE GetLost(w)
  <2>1. /\ CallTypes'
        /\ attempt' \in [Writers -> 1..MaxAttempts]
        /\ verdict' \in [Writers -> {"none", "written", "refused", "unresolved", "raised", "given up"}]
    <3>1. CASE AttemptLost(w)
      <4>1. tries' \in [Writers -> 0..MaxRetries] /\ faults' \in 0..MaxFaults
        BY <3>1, Bounds DEF AttemptLost, Fault, CallTypes
      <4> QED
        BY <3>1, <4>1, AttemptsTyped DEF AttemptLost, CallTypes
    <3>2. CASE Resend(w) /\ UNCHANGED <<attempt, verdict>>
      BY <3>2, PlacesHold, CallsTyped DEF MemoryTypes, CountTypes
    <3> QED
      BY <1>3, <3>1, <3>2 DEF GetLost
  <2> QED
    BY <1>3, <2>1 DEF GetLost, item, spent, ItemTypes, MemoryTypes, WriteTypes, CountTypes
<1>4. CASE Miss(w)
  <2>1. CallTypes'
    BY <1>4, PlacesHold, CallsTyped DEF Miss
  <2>2. verdict' \in [Writers -> {"none", "written", "refused", "unresolved", "raised", "given up"}]
    BY <1>4 DEF Miss, CountTypes
  <2> QED
    BY <1>4, <2>1, <2>2 DEF Miss, item, spent, ItemTypes, MemoryTypes, WriteTypes, CountTypes
<1> QED
  BY <1>1, <1>2, <1>3, <1>4

LEMMA ShapeWriting ==
    ASSUME Shape, NEW w \in Writers, Put(w) \/ PutLost(w)
    PROVE  Shape'
<1> USE DEF Shape
<1>1. CASE Put(w)
  <2>1. CallTypes'
    BY <1>1, PlacesHold, CallsTyped DEF Put
  <2>2. body' \in Bodies /\ WriteTypes'
    BY <1>1, LandsTyped DEF Put
  <2>3. verdict' \in [Writers -> {"none", "written", "refused", "unresolved", "raised", "given up"}]
    BY <1>1 DEF Put, CountTypes
  <2> QED
    BY <1>1, <2>1, <2>2, <2>3 DEF Put, spent, ItemTypes, MemoryTypes, CountTypes
<1>2. CASE PutLost(w)
  <2>1. body' \in Bodies /\ WriteTypes'
    BY <1>2, LandsTyped DEF PutLost, ItemTypes, WriteTypes
  <2>2. /\ CallTypes'
        /\ attempt' \in [Writers -> 1..MaxAttempts]
        /\ verdict' \in [Writers -> {"none", "written", "refused", "unresolved", "raised", "given up"}]
    <3>1. CASE AttemptLost(w)
      <4>1. tries' \in [Writers -> 0..MaxRetries] /\ faults' \in 0..MaxFaults
        BY <3>1, Bounds DEF AttemptLost, Fault, CallTypes
      <4> QED
        BY <3>1, <4>1, AttemptsTyped DEF AttemptLost, CallTypes
    <3>2. CASE Resend(w) /\ UNCHANGED <<attempt, verdict>>
      BY <3>2, PlacesHold, CallsTyped DEF MemoryTypes, CountTypes
    <3>3. CASE Raise(w, After(w, "body")) /\ verdict' = [verdict EXCEPT ![w] = "raised"] /\ UNCHANGED attempt
      BY <3>3, PlacesHold, CallsTyped DEF MemoryTypes, CountTypes
    <3> QED
      BY <1>2, <3>1, <3>2, <3>3 DEF PutLost
  <2> QED
    BY <1>2, <2>1, <2>2 DEF PutLost, spent, ItemTypes, MemoryTypes, CountTypes
<1> QED
  BY <1>1, <1>2

LEMMA ShapeRest ==
    ASSUME Shape, PlaceInv, NEW w \in Writers,
           Issue(w) \/ IssueLost(w) \/ Refresh(w) \/ RefreshLost(w) \/ Ready(w) \/ ReadyLost(w)
    PROVE  Shape'
<1> USE DEF Shape
<1>1. CallTypes'
  BY PlacesHold, CallsTyped DEF Issue, IssueLost, Refresh, RefreshLost, Ready, ReadyLost
<1>2. raised' \in [Writers -> Nat] /\ lost' \in [Writers -> Nat]
  <2>1. raised' = raised \/ raised' = [raised EXCEPT ![w] = @ + 1]
    BY DEF Issue, IssueLost, Refresh, RefreshLost, Ready, ReadyLost, item
  <2>2. lost' = lost \/ lost' = [lost EXCEPT ![w] = @ + 1]
    BY DEF Issue, IssueLost, Refresh, RefreshLost, Ready, ReadyLost, history
  <2>3. raised' \in [Writers -> Nat]
    BY <2>1, OneMore DEF ItemTypes
  <2>4. lost' \in [Writers -> Nat]
    BY <2>2, OneMore DEF CountTypes
  <2> QED
    BY <2>3, <2>4
<1>3. opened' \subseteq Opening
  BY DEF Issue, IssueLost, Refresh, RefreshLost, Ready, ReadyLost, item, ItemTypes, PlaceInv
<1>4. MemoryTypes'
  BY ForgotTyped DEF Issue, IssueLost, Refresh, RefreshLost, Ready, ReadyLost, MemoryTypes
<1> QED
  BY <1>1, <1>2, <1>3, <1>4 DEF Issue, IssueLost, Refresh, RefreshLost, Ready, ReadyLost, item, history, spent,
                                ItemTypes, WriteTypes, CountTypes

LEMMA ShapeEdited == ASSUME Shape, Edit PROVE Shape'
<1> USE DEF Shape
<1>1. edits' \in 0..MaxEdits
  BY Numbers, OneMore DEF Edit, CountTypes
<1>2. \E b \in Bodies : Write(Person, b)
  <2>1. CASE Write(Person, [body EXCEPT !.prose = <<Person, edits'>>])
    <3>1. [body EXCEPT !.prose = <<Person, edits'>>] \in Bodies
      BY <1>1, Bounds DEF ItemTypes, Bodies, Proses
    <3> QED
      BY <2>1, <3>1
  <2>2. ASSUME NEW i \in Items, Write(Person, [body EXCEPT !.todos[i[1]] = @ \cup {i[2]}])
        PROVE  \E b \in Bodies : Write(Person, b)
    <3>1. [body EXCEPT !.todos[i[1]] = @ \cup {i[2]}] \in Bodies
      BY DEF ItemTypes, Bodies, Todos, Items
    <3> QED
      BY <2>2, <3>1
  <2>3. ASSUME NEW s \in Sections, Write(Person, [body EXCEPT !.torn = @ \cup {s}])
        PROVE  \E b \in Bodies : Write(Person, b)
    <3>1. [body EXCEPT !.torn = @ \cup {s}] \in Bodies
      BY DEF ItemTypes, Bodies, Torn
    <3> QED
      BY <2>3, <3>1
  <2> QED
    BY <2>1, <2>2, <2>3 DEF Edit
<1>3. /\ body' \in Bodies /\ checked' \subseteq Items
      /\ since' \in [Writers -> SUBSET Proses] /\ rivals' \in [Writers -> Nat]
  BY <1>2, WritesTyped, Bounds
<1> QED
  BY <1>1, <1>3 DEF Edit, run, ItemTypes, CallTypes, MemoryTypes, WriteTypes, CountTypes

LEMMA ShapeStep == ASSUME Shape, PlaceInv, [Next]_vars PROVE Shape'
<1>1. CASE UNCHANGED vars
  BY <1>1 DEF vars, item, run, history, spent, Shape, ItemTypes, CallTypes, MemoryTypes, WriteTypes, CountTypes
<1> QED
  BY <1>1, ShapeBeginning, ShapeLabelling, ShapeReplacing, ShapePatching, ShapeWriting, ShapeRest, ShapeEdited
     DEF Next, Works, Fails

Fits(w, where) ==
    /\ where \in {"look", "snap", "keep"} => Replaces(w)
    /\ where \in {"get", "verify"} => ~Replaces(w)
    /\ where = "ready" => w \in Opening

LEMMA AfterFits ==
    ASSUME NEW w \in Writers, NEW what \in {"stamp", "labels", "body", "issue", "refresh", "ready"}
    PROVE  Fits(w, After(w, what)) /\ After(w, what) \notin {"off", "stamp"}
BY AfterThat DEF Fits, Start

LEMMA PlaceMoved ==
    ASSUME Shape, PlaceInv, NEW w \in Writers, Fits(w, pc'[w]),
           pc'[w] \in {"off", "stamp"} => w \notin stamped',
           \A v \in Writers \ {w} : pc'[v] = pc[v] /\ (v \in stamped' <=> v \in stamped)
    PROVE  PlaceInv'
BY DEF PlaceInv, Fits

LEMMA CallMoved ==
    ASSUME Shape, NEW w \in Writers, NEW where,
           Answered(w, where) \/ Resend(w) \/ Raise(w, where)
    PROVE  pc'[w] \in {pc[w], where} /\ \A v \in Writers \ {w} : pc'[v] = pc[v]
BY DEF Shape, CallTypes, Answered, Resend, Raise, Goto

LEMMA AttemptMoved ==
    ASSUME Shape, NEW w \in Writers, EndAttempt(w)
    PROVE  pc'[w] \in {"get", After(w, "body")} /\ \A v \in Writers \ {w} : pc'[v] = pc[v]
BY DEF Shape, CallTypes, EndAttempt, Goto

\* A body write without a target ends where it begins.
LEMMA MissMoves ==
    ASSUME Shape, NEW w \in Writers, Miss(w)
    PROVE  /\ pc[w] \in {"look", "get"} /\ pc'[w] = After(w, "body")
           /\ \A v \in Writers \ {w} : pc'[v] = pc[v] /\ verdict'[v] = verdict[v]
           /\ verdict'[w] = "unresolved"
           /\ UNCHANGED <<item, asked, read, kept, attempt, stamped, checked, buried, since, displaced,
                          stamps, rivals, lost, spent, faults>>
BY DEF Miss, Answered, Goto, Shape, CallTypes, CountTypes

LEMMA PlaceStep == ASSUME Shape, PlaceInv, [Next]_vars PROVE PlaceInv'
<1>1. ASSUME NEW w \in Writers, Begin(w) PROVE PlaceInv'
  <2>1. /\ pc'[w] = "stamp" /\ w \notin stamped
        /\ stamped' = stamped
        /\ \A v \in Writers \ {w} : pc'[v] = pc[v]
    BY <1>1, AfterBegin DEF Begin, Goto, Shape, CallTypes, PlaceInv
  <2> QED
    BY <2>1, PlaceMoved DEF Fits
<1>2. ASSUME NEW w \in Writers, Stamp(w) PROVE PlaceInv'
  <2>1. /\ pc'[w] = After(w, "stamp")
        /\ stamped' = stamped \cup {w}
        /\ \A v \in Writers \ {w} : pc'[v] = pc[v]
    BY <1>2 DEF Stamp, Goto, Shape, CallTypes
  <2> QED
    BY <2>1, PlaceMoved, AfterFits
<1>3. ASSUME NEW w \in Writers, Crash(w) \/ Reclaim(w) \/ SendBack(w) PROVE PlaceInv'
  <2>1. /\ pc'[w] \in {"dead", "off"}
        /\ pc'[w] = "off" => w \notin stamped'
        /\ \A v \in Writers \ {w} : pc'[v] = pc[v] /\ (v \in stamped' <=> v \in stamped)
    BY <1>3 DEF Crash, Reclaim, SendBack, Goto, Shape, CallTypes
  <2> QED
    BY <2>1, PlaceMoved DEF Fits
<1>4. ASSUME NEW w \in Writers, NEW l \in Labels, Label(w, l) \/ LabelLost(w, l) PROVE PlaceInv'
  <2>1. pc'[w] \in {pc[w], "labels", After(w, "labels")} /\ \A v \in Writers \ {w} : pc'[v] = pc[v]
    BY <1>4, CallMoved DEF Label, LabelLost, AfterLabel
  <2>2. stamped' = stamped /\ pc[w] = "labels"
    BY <1>4 DEF Label, LabelLost, LabelCall
  <2> QED
    BY <2>1, <2>2, PlaceMoved, AfterFits DEF Fits
<1>5. ASSUME NEW w \in Writers, Look(w) \/ Snap(w) \/ Keep(w) \/ SnapLost(w) PROVE PlaceInv'
  <2>1. pc'[w] \in {pc[w], "put", "snap", "keep", After(w, "body")} /\ \A v \in Writers \ {w} : pc'[v] = pc[v]
    BY <1>5, CallMoved DEF Look, Snap, Keep, SnapLost, AfterSnapLost
  <2>2. stamped' = stamped /\ pc[w] \in {"look", "snap", "keep"}
    BY <1>5 DEF Look, Snap, Keep, SnapLost
  <2>3. Replaces(w)
    BY <2>2 DEF PlaceInv
  <2> QED
    BY <2>1, <2>2, <2>3, PlaceMoved, AfterFits DEF Fits
<1>6. ASSUME NEW w \in Writers, Get(w) \/ GetLost(w) \/ Verify(w) PROVE PlaceInv'
  <2>1. pc'[w] \in {pc[w], "put", "get", After(w, "body")} /\ \A v \in Writers \ {w} : pc'[v] = pc[v]
    BY <1>6, CallMoved, AttemptMoved DEF Get, GetLost, Verify, AttemptLost, AfterRefusal, Goto, Shape, CallTypes
  <2>2. stamped' = stamped /\ pc[w] \in {"get", "verify"}
    BY <1>6 DEF Get, GetLost, Verify
  <2>3. ~Replaces(w)
    BY <2>2 DEF PlaceInv
  <2> QED
    BY <2>1, <2>2, <2>3, PlaceMoved, AfterFits DEF Fits
<1>7. ASSUME NEW w \in Writers, Put(w) \/ PutLost(w) PROVE PlaceInv'
  <2>1. /\ pc'[w] \in {pc[w], After(w, "body")} \/ (~Replaces(w) /\ pc'[w] \in {"verify", "get"})
        /\ \A v \in Writers \ {w} : pc'[v] = pc[v]
    BY <1>7, CallMoved, AttemptMoved DEF Put, PutLost, AttemptLost
  <2>2. stamped' = stamped /\ pc[w] = "put"
    BY <1>7 DEF Put, PutLost
  <2> QED
    BY <2>1, <2>2, PlaceMoved, AfterFits DEF Fits
<1>8. ASSUME NEW w \in Writers,
             Issue(w) \/ IssueLost(w) \/ Refresh(w) \/ RefreshLost(w) \/ Ready(w) \/ ReadyLost(w)
      PROVE  PlaceInv'
  <2>1. /\ pc'[w] \in {pc[w], "dead", After(w, "issue"), After(w, "refresh"), After(w, "ready")}
        /\ \A v \in Writers \ {w} : pc'[v] = pc[v]
    BY <1>8, CallMoved DEF Issue, IssueLost, Refresh, RefreshLost, Ready, ReadyLost
  <2>2. stamped' = stamped /\ pc[w] \in {"issue", "refresh", "ready"}
    BY <1>8 DEF Issue, IssueLost, Refresh, RefreshLost, Ready, ReadyLost
  <2>3. Fits(w, pc[w])
    BY <2>2 DEF PlaceInv, Fits
  <2>4. Fits(w, pc'[w]) /\ pc'[w] \notin {"off", "stamp"}
    BY <2>1, <2>2, <2>3, AfterFits DEF Fits
  <2> QED
    BY <2>1, <2>2, <2>4, PlaceMoved
<1>9. ASSUME NEW w \in Writers, Miss(w) PROVE PlaceInv'
  BY <1>9, MissMoves, PlaceMoved, AfterFits
<1>10. CASE Edit \/ UNCHANGED vars
  BY <1>10 DEF Edit, vars, run, PlaceInv
<1> QED
  BY <1>1, <1>2, <1>3, <1>4, <1>5, <1>6, <1>7, <1>8, <1>9, <1>10 DEF Next, Works, Fails

----------------------------------------------------------------------------
(* What is counted *)

\* The places of a step that has its status and has not come to its work item.
Ahead == {"labels", "look", "snap", "keep", "get", "put", "verify", "issue"}

StampCount(w) == stamps[w] <= reruns + (IF w \in stamped THEN 1 ELSE 0)

RaiseCount(w) ==
    /\ raised[w] <= stamps[w] + lost[w]
    /\ pc[w] \in Ahead => raised[w] < stamps[w] + lost[w]
    /\ lost[w] <= faults

CountInv == \A w \in Writers : StampCount(w) /\ RaiseCount(w)

\* A step whose counts a step of the model leaves alone.
LEMMA CountKept ==
    ASSUME Shape, Shape', CountInv,
           UNCHANGED <<stamps, reruns, raised, lost>>, stamped' = stamped, faults' >= faults,
           \A w \in Writers : pc'[w] \in Ahead => pc[w] \in Ahead
    PROVE  CountInv'
<1>1. \A m, n, f \in Nat : m <= n /\ f >= n => m <= f
  OBVIOUS
<1>2. \A w \in Writers : StampCount(w)'
  BY DEF CountInv, StampCount
<1>3. \A w \in Writers : RaiseCount(w)'
  <2>1. faults \in Nat /\ faults' \in Nat
    BY Numbers, OneMore DEF Shape, CallTypes
  <2>2. \A w \in Writers : lost[w] \in Nat
    BY DEF Shape, CountTypes
  <2> QED
    BY <1>1, <2>1, <2>2 DEF CountInv, RaiseCount
<1> QED
  BY <1>2, <1>3 DEF CountInv

LEMMA FaultsGrow ==
    ASSUME Shape, [Next]_vars
    PROVE  faults' >= faults
<1>1. faults' = faults \/ Fault
  BY DEF Next, Works, Fails, Begin, Stamp, Crash, Reclaim, SendBack, Label, LabelLost, Look, Snap, Keep,
         Miss, SnapLost, Get, GetLost, Verify, AttemptLost, Put, PutLost, Issue, IssueLost, Refresh, RefreshLost,
         Ready, ReadyLost, Answered, Resend, Raise, Edit, vars
<1>2. faults \in Nat
  BY Numbers DEF Shape, CallTypes
<1> QED
  BY <1>1, <1>2 DEF Fault

\* Arithmetic of the counts.
LEMMA Sums ==
    /\ \A s, r \in Nat : s <= r + 0 => s + 1 <= r + 1
    /\ \A s, r \in Nat : s <= r + 1 => s <= (r + 1) + 0
    /\ \A s, r, b \in Nat : s <= r + b => s <= (r + 1) + b
    /\ \A x, s, l \in Nat : x <= s + l => x < (s + 1) + l /\ x <= (s + 1) + l
    /\ \A x, s, l \in Nat : x < s + l => x + 1 <= s + l /\ x <= s + l
    /\ \A x, s, l \in Nat : x < s + l => x + 1 < s + (l + 1) /\ x + 1 <= s + (l + 1)
    /\ \A l, f \in Nat : l <= f => l + 1 <= f + 1 /\ l <= f + 1
OBVIOUS

LEMMA StampCounted == ASSUME Shape, PlaceInv, CountInv, NEW w \in Writers, Stamp(w) PROVE CountInv'
<1>1. /\ w \notin stamped /\ stamped' = stamped \cup {w} /\ w \in stamped'
      /\ reruns' = reruns /\ raised' = raised /\ lost' = lost /\ faults' = faults
      /\ stamps' = [stamps EXCEPT ![w] = @ + 1]
      /\ \A v \in Writers \ {w} : pc'[v] = pc[v] /\ (v \in stamped' <=> v \in stamped)
  BY DEF PlaceInv, Stamp, Goto, item, spent, Shape, CallTypes
<1>2. /\ stamps'[w] = stamps[w] + 1
      /\ \A v \in Writers \ {w} : stamps'[v] = stamps[v]
  BY <1>1 DEF Shape, CountTypes
<1>3. stamps[w] \in Nat /\ raised[w] \in Nat /\ lost[w] \in Nat
  BY DEF Shape, CountTypes, ItemTypes
<1>4. reruns \in Nat
  BY Numbers, OneMore DEF Shape, CountTypes
<1>5. stamps[w] <= reruns + 0 /\ raised[w] <= stamps[w] + lost[w] /\ lost[w] <= faults
  BY <1>1 DEF CountInv, StampCount, RaiseCount
<1>6. StampCount(w)'
  BY <1>1, <1>2, <1>3, <1>4, <1>5, Sums DEF StampCount
<1>7. RaiseCount(w)'
  BY <1>1, <1>2, <1>3, <1>5, Sums DEF RaiseCount
<1>8. \A v \in Writers \ {w} : StampCount(v)' /\ RaiseCount(v)'
  BY <1>1, <1>2 DEF CountInv, StampCount, RaiseCount
<1> QED
  BY <1>6, <1>7, <1>8 DEF CountInv

LEMMA SendBackCounted == ASSUME Shape, CountInv, NEW w \in Writers, SendBack(w) PROVE CountInv'
<1>1. /\ w \in stamped /\ w \notin stamped'
      /\ reruns' = reruns + 1 /\ raised' = raised /\ lost' = lost /\ faults' = faults /\ stamps' = stamps
      /\ pc'[w] = "off"
      /\ \A v \in Writers \ {w} : pc'[v] = pc[v] /\ (v \in stamped' <=> v \in stamped)
  BY DEF SendBack, Goto, item, history, Shape, CallTypes
<1>2. \A v \in Writers : stamps[v] \in Nat
  BY DEF Shape, CountTypes
<1>3. reruns \in Nat
  BY Numbers, OneMore DEF Shape, CountTypes
<1>4. StampCount(w)'
  <2>1. stamps[w] <= reruns + 1
    BY <1>1 DEF CountInv, StampCount
  <2> QED
    BY <1>1, <1>2, <1>3, <2>1, Sums DEF StampCount
<1>5. \A v \in Writers \ {w} : StampCount(v)'
  <2> TAKE v \in Writers \ {w}
  <2>1. CASE v \in stamped
    <3>1. stamps[v] <= reruns + 1
      BY <2>1 DEF CountInv, StampCount
    <3>2. stamps[v] <= (reruns + 1) + 1
      BY <3>1, <1>2, <1>3, Sums
    <3> QED
      BY <1>1, <2>1, <3>2 DEF StampCount
  <2>2. CASE v \notin stamped
    <3>1. stamps[v] <= reruns + 0
      BY <2>2 DEF CountInv, StampCount
    <3>2. stamps[v] <= (reruns + 1) + 0
      BY <3>1, <1>2, <1>3, Sums
    <3> QED
      BY <1>1, <2>2, <3>2 DEF StampCount
  <2> QED
    BY <2>1, <2>2
<1>6. \A v \in Writers : RaiseCount(v)'
  BY <1>1 DEF CountInv, RaiseCount, Ahead
<1> QED
  BY <1>4, <1>5, <1>6 DEF CountInv

\* A work item is raised, and the answer comes or is lost.
LEMMA IssueCounted ==
    ASSUME Shape, CountInv, NEW w \in Writers, Issue(w) \/ IssueLost(w)
    PROVE  CountInv'
<1>1. /\ pc[w] = "issue" /\ stamped' = stamped /\ reruns' = reruns /\ stamps' = stamps
      /\ \A v \in Writers \ {w} : pc'[v] = pc[v]
  BY CallMoved DEF Issue, IssueLost, history, spent
<1>2. stamps[w] \in Nat /\ raised[w] \in Nat /\ lost[w] \in Nat /\ \A v \in Writers : lost[v] \in Nat
  BY DEF Shape, CountTypes, ItemTypes
<1>3. faults \in Nat
  BY Numbers, OneMore DEF Shape, CallTypes
<1>4. raised[w] < stamps[w] + lost[w] /\ \A v \in Writers : lost[v] <= faults
  BY <1>1 DEF CountInv, RaiseCount, Ahead
<1>5. \A v \in Writers : StampCount(v)'
  BY <1>1 DEF CountInv, StampCount
<1>6. faults' = faults \/ faults' = faults + 1
  BY DEF Issue, IssueLost, Answered, Resend, Raise, Fault
<1>7. \A v \in Writers : lost[v] <= faults'
  BY <1>2, <1>3, <1>4, <1>6, Sums
<1>8. \A v \in Writers \ {w} : RaiseCount(v)'
  <2>1. \A v \in Writers \ {w} : raised'[v] = raised[v] /\ lost'[v] = lost[v]
    BY DEF Issue, IssueLost, history, Shape, CountTypes, ItemTypes
  <2> QED
    BY <1>1, <1>7, <2>1 DEF CountInv, RaiseCount
<1>9. RaiseCount(w)'
  <2>1. CASE Issue(w)
    <3>1. raised'[w] = raised[w] + 1 /\ lost' = lost /\ pc'[w] = After(w, "issue")
      BY <2>1 DEF Issue, Answered, Goto, history, Shape, CallTypes, ItemTypes
    <3>2. pc'[w] \notin Ahead
      BY <3>1, AfterThat DEF Ahead
    <3>3. raised[w] + 1 <= stamps[w] + lost[w]
      BY <1>2, <1>4, Sums
    <3> QED
      BY <1>1, <1>7, <3>1, <3>2, <3>3 DEF RaiseCount
  <2>2. CASE IssueLost(w) /\ UNCHANGED <<raised, lost>>
    <3>1. raised[w] <= stamps[w] + lost[w]
      BY <1>2, <1>4, Sums
    <3> QED
      BY <1>1, <1>4, <1>7, <2>2, <3>1 DEF RaiseCount
  <2>3. CASE /\ IssueLost(w)
             /\ raised' = [raised EXCEPT ![w] = @ + 1]
             /\ lost' = [lost EXCEPT ![w] = @ + 1]
    <3>1. raised'[w] = raised[w] + 1 /\ lost'[w] = lost[w] + 1
      BY <2>3 DEF Shape, CountTypes, ItemTypes
    <3>2. faults' = faults + 1
      BY <2>3 DEF IssueLost, Resend, Raise, Fault
    <3>3. /\ raised[w] + 1 < stamps[w] + (lost[w] + 1)
          /\ raised[w] + 1 <= stamps[w] + (lost[w] + 1)
      BY <1>2, <1>4, Sums
    <3>4. lost[w] + 1 <= faults + 1
      BY <1>2, <1>3, <1>4, Sums
    <3> QED
      BY <1>1, <3>1, <3>2, <3>3, <3>4 DEF RaiseCount
  <2> QED
    BY <2>1, <2>2, <2>3 DEF IssueLost
<1> QED
  BY <1>5, <1>8, <1>9 DEF CountInv

LEMMA CountStep == ASSUME Shape, PlaceInv, CountInv, [Next]_vars PROVE CountInv'
<1>1. ASSUME NEW w \in Writers, Stamp(w) \/ SendBack(w) \/ Issue(w) \/ IssueLost(w) PROVE CountInv'
  BY <1>1, StampCounted, SendBackCounted, IssueCounted
<1> DEFINE kept_ == /\ UNCHANGED <<stamps, reruns, raised, lost>> /\ stamped' = stamped
                    /\ \A w \in Writers : pc'[w] \in Ahead => pc[w] \in Ahead
<1>2. kept_ => CountInv'
  BY ShapeStep, FaultsGrow, CountKept
<1>3. ASSUME NEW w \in Writers, Begin(w) \/ Reclaim(w) \/ Crash(w) PROVE kept_
  <2>1. pc'[w] \in {"stamp", "off", "dead"} /\ \A v \in Writers \ {w} : pc'[v] = pc[v]
    BY <1>3, AfterBegin DEF Begin, Reclaim, Crash, Goto, Shape, CallTypes
  <2> QED
    BY <1>3, <2>1 DEF Begin, Reclaim, Crash, item, history, spent, Ahead
<1>4. ASSUME NEW w \in Writers, NEW l \in Labels, Label(w, l) \/ LabelLost(w, l) PROVE kept_
  <2>1. pc[w] \in Ahead /\ \A v \in Writers \ {w} : pc'[v] = pc[v]
    BY <1>4, CallMoved DEF Label, LabelLost, LabelCall, Ahead
  <2> QED
    BY <1>4, <2>1 DEF Label, LabelLost, history, spent
<1>5. ASSUME NEW w \in Writers, Look(w) \/ Snap(w) \/ Keep(w) \/ SnapLost(w) PROVE kept_
  <2>1. pc[w] \in Ahead /\ \A v \in Writers \ {w} : pc'[v] = pc[v]
    BY <1>5, CallMoved DEF Look, Snap, Keep, SnapLost, Ahead
  <2> QED
    BY <1>5, <2>1 DEF Look, Snap, Keep, SnapLost, item, history, spent
<1>6. ASSUME NEW w \in Writers, Get(w) \/ GetLost(w) \/ Verify(w) PROVE kept_
  <2>1. pc[w] \in Ahead /\ \A v \in Writers \ {w} : pc'[v] = pc[v]
    BY <1>6, CallMoved, AttemptMoved DEF Get, GetLost, Verify, AttemptLost, Goto, Shape, CallTypes, Ahead
  <2> QED
    BY <1>6, <2>1 DEF Get, GetLost, Verify, item, spent
<1>7. ASSUME NEW w \in Writers, Put(w) \/ PutLost(w) PROVE kept_
  <2>1. pc[w] \in Ahead /\ \A v \in Writers \ {w} : pc'[v] = pc[v]
    BY <1>7, CallMoved, AttemptMoved DEF Put, PutLost, AttemptLost, Ahead
  <2> QED
    BY <1>7, <2>1 DEF Put, PutLost, spent
<1>8. ASSUME NEW w \in Writers, Refresh(w) \/ RefreshLost(w) \/ Ready(w) \/ ReadyLost(w) PROVE kept_
  <2>1. /\ pc'[w] \in {pc[w], "dead", After(w, "refresh"), After(w, "ready")} /\ pc[w] \in {"refresh", "ready"}
        /\ \A v \in Writers \ {w} : pc'[v] = pc[v]
    BY <1>8, CallMoved DEF Refresh, RefreshLost, Ready, ReadyLost
  <2>2. pc'[w] \notin Ahead
    BY <2>1, AfterThat DEF Ahead
  <2> QED
    BY <1>8, <2>1, <2>2 DEF Refresh, RefreshLost, Ready, ReadyLost, item, history, spent
<1>9. ASSUME NEW w \in Writers, Miss(w) PROVE kept_
  BY <1>9, MissMoves DEF item, spent, Ahead
<1>10. CASE Edit \/ UNCHANGED vars
  BY <1>10, <1>2 DEF Edit, vars, item, run, history, spent
<1> QED
  BY <1>1, <1>2, <1>3, <1>4, <1>5, <1>6, <1>7, <1>8, <1>9, <1>10 DEF Next, Works, Fails

\* The inductive invariant of the types and the counts.
CountedInv == Shape /\ PlaceInv /\ CountInv

LEMMA CountedStarts == Init => CountedInv
<1> SUFFICES ASSUME Init PROVE CountedInv
  OBVIOUS
<1> USE DEF Init
<1>1. 0 \in 0..MaxEdits /\ 0 \in 0..MaxReruns /\ 0 \in 0..MaxFaults /\ 0 \in 0..MaxRetries /\ 1 \in 1..MaxAttempts
  BY Numbers
<1>2. Shape
  BY <1>1, BodyTypes DEF Shape, ItemTypes, CallTypes, MemoryTypes, WriteTypes, CountTypes, Places
<1>3. PlaceInv
  BY DEF PlaceInv
<1>4. CountInv
  BY DEF CountInv, StampCount, RaiseCount, Ahead
<1> QED
  BY <1>2, <1>3, <1>4 DEF CountedInv

LEMMA CountedStep == CountedInv /\ [Next]_vars => CountedInv'
BY ShapeStep, PlaceStep, CountStep DEF CountedInv

\* The inductive invariant holds: types, places and counts (_apply_result).
THEOREM Counted == Spec => []CountedInv
BY CountedStarts, CountedStep, PTL DEF Spec

\* However often a step is done again, it raises a work item once for each
\* status that is recorded for it, and once more for each answer that is lost.
THEOREM RaisedOnceAlways == Spec => []RaisedOnce
<1>1. CountedInv => RaisedOnce
  BY DEF CountedInv, CountInv, RaiseCount, RaisedOnce
<1> QED
  BY <1>1, Counted, PTL

\* Every variable keeps its type, and what is counted its bound.
THEOREM TypeCorrect == Spec => []TypeOK
<1>1. CountedInv => TypeOK
  <2> SUFFICES ASSUME CountedInv PROVE TypeOK
    OBVIOUS
  <2>1. Shape /\ CountInv
    BY DEF CountedInv
  <2>2. \A s, r, m, b \in Nat : s <= r + b /\ r <= m /\ b <= 1 => s \in 0..(1 + m)
    OBVIOUS
  <2>3. \A x, s, l, r, f \in Nat : x <= s + l /\ s \in 0..(1 + r) /\ l <= f => x \in 0..(1 + r + f)
    OBVIOUS
  <2>4. \A l, f, m \in Nat : l <= f /\ f <= m => l \in 0..m /\ l <= m
    OBVIOUS
  <2>5. reruns \in Nat /\ faults \in Nat /\ reruns <= MaxReruns /\ faults <= MaxFaults
    <3>1. \A m \in Nat : \A n \in 0..m : n \in Nat /\ n <= m
      OBVIOUS
    <3>2. reruns \in 0..MaxReruns /\ faults \in 0..MaxFaults
      BY <2>1 DEF Shape, CountTypes, CallTypes
    <3> QED
      BY <3>1, <3>2, Numbers
  <2>6. \A w \in Writers : stamps[w] \in Nat /\ lost[w] \in Nat /\ raised[w] \in Nat
    BY <2>1 DEF Shape, CountTypes, ItemTypes
  <2>7. \A w \in Writers : stamps[w] \in 0..(1 + MaxReruns)
    <3> TAKE w \in Writers
    <3>1. \E b \in {0, 1} : stamps[w] <= reruns + b
      BY <2>1 DEF CountInv, StampCount
    <3> QED
      BY <3>1, <2>2, <2>5, <2>6, Numbers
  <2>8. \A w \in Writers : lost[w] \in 0..MaxFaults /\ lost[w] <= MaxFaults
    BY <2>1, <2>4, <2>5, <2>6, Numbers DEF CountInv, RaiseCount
  <2>9. \A w \in Writers : raised[w] \in 0..(1 + MaxReruns + MaxFaults)
    <3> TAKE w \in Writers
    <3>1. raised[w] <= stamps[w] + lost[w]
      BY <2>1 DEF CountInv, RaiseCount
    <3> QED
      BY <3>1, <2>3, <2>6, <2>7, <2>8, Numbers
  <2> QED
    BY <2>1, <2>7, <2>8, <2>9 DEF Shape, ItemTypes, CallTypes, MemoryTypes, WriteTypes, CountTypes, TypeOK
<1> QED
  BY <1>1, Counted, PTL

----------------------------------------------------------------------------
(* Checked entries *)

\* A step works with the memory of its own run.
LEMMA OthersKeep ==
    ASSUME Shape, NEW w \in Writers, Works(w) \/ Fails(w) \/ SendBack(w), NEW v \in Writers \ {w}
    PROVE  /\ pc'[v] = pc[v] /\ asked'[v] = asked[v] /\ read'[v] = read[v] /\ kept'[v] = kept[v]
           /\ attempt'[v] = attempt[v] /\ verdict'[v] = verdict[v]
<1> USE DEF Shape, CallTypes, MemoryTypes, CountTypes
<1>1. CASE Begin(w)
  BY <1>1 DEF Begin, Goto
<1>2. CASE Stamp(w) \/ Reclaim(w) \/ Crash(w) \/ SendBack(w)
  BY <1>2 DEF Stamp, Reclaim, Crash, SendBack, Goto, Forget, history
<1>3. CASE \E l \in Labels : Label(w, l) \/ LabelLost(w, l)
  BY <1>3, CallMoved DEF Label, LabelLost, history
<1>4. CASE Look(w) \/ Snap(w) \/ Keep(w) \/ SnapLost(w)
  BY <1>4, CallMoved DEF Look, Snap, Keep, SnapLost, history
<1>5. CASE Get(w) \/ GetLost(w) \/ Verify(w)
  BY <1>5, CallMoved, AttemptMoved DEF Get, GetLost, Verify, AttemptLost, EndAttempt, Goto
<1>6. CASE Put(w) \/ PutLost(w)
  BY <1>6, CallMoved, AttemptMoved DEF Put, PutLost, AttemptLost, EndAttempt
<1>7. CASE Issue(w) \/ IssueLost(w) \/ Refresh(w) \/ RefreshLost(w) \/ Ready(w) \/ ReadyLost(w)
  BY <1>7, CallMoved DEF Issue, IssueLost, Refresh, RefreshLost, Ready, ReadyLost, Forget, history
<1>8. CASE Miss(w)
  BY <1>8, MissMoves
<1> QED
  BY <1>1, <1>2, <1>3, <1>4, <1>5, <1>6, <1>7, <1>8 DEF Works, Fails

\* The body changes where a write lands or a person edits it, and nowhere else.
LEMMA BodyMoves ==
    ASSUME [Next]_vars
    PROVE  \/ UNCHANGED <<body, checked, buried>>
           \/ \E w \in Writers : Land(w) /\ pc[w] = "put"
           \/ Edit
BY DEF Next, Works, Fails, Begin, Stamp, Crash, Reclaim, SendBack, Label, LabelLost, Look, Snap, Keep,
       Miss, SnapLost, Get, GetLost, Verify, Put, PutLost, Issue, IssueLost, Refresh, RefreshLost, Ready,
       ReadyLost, vars, item, history

\* A patch about to be written holds every entry of its section that the body
\* had when it was read.
FitsRead(w) == pc[w] = "put" /\ ~Replaces(w) => SectionOf(w, read[w]) \subseteq SectionOf(w, asked[w])

PatchInv == \A w \in Writers : FitsRead(w)

LEMMA PatchStep == ASSUME Shape, PlaceInv, PatchInv, [Next]_vars PROVE PatchInv'
<1>1. ASSUME NEW w \in Writers, Works(w) \/ Fails(w) \/ SendBack(w) PROVE PatchInv'
  <2>1. \A v \in Writers \ {w} : FitsRead(v)'
    BY <1>1, OthersKeep DEF PatchInv, FitsRead, SectionOf
  <2>2. FitsRead(w)'
    <3>1. CASE Begin(w) \/ Stamp(w) \/ Reclaim(w) \/ Crash(w) \/ SendBack(w)
      <4>1. pc'[w] \in {"stamp", "off", "dead", After(w, "stamp")}
        BY <3>1, AfterBegin DEF Begin, Stamp, Reclaim, Crash, SendBack, Goto, Shape, CallTypes
      <4> QED
        BY <4>1, AfterThat DEF FitsRead, Start
    <3>2. CASE \E l \in Labels : Label(w, l) \/ LabelLost(w, l)
      <4>1. pc'[w] \in {"labels", After(w, "labels")}
        BY <3>2, CallMoved DEF Label, LabelLost, LabelCall, AfterLabel
      <4> QED
        BY <4>1, AfterThat DEF FitsRead, Start
    <3>3. CASE Look(w) \/ Snap(w) \/ Keep(w) \/ SnapLost(w)
      BY <3>3 DEF Look, Snap, Keep, SnapLost, PlaceInv, FitsRead
    <3>4. CASE Get(w)
      <4>1. CASE Refused(w, body)
        <5>1. pc'[w] = After(w, "body")
          BY <3>4, <4>1 DEF Get, Answered, Goto, AfterRefusal, Shape, CallTypes
        <5> QED
          BY <5>1, AfterThat DEF FitsRead
      <4>2. CASE ~Refused(w, body)
        <5>1. read'[w] = body /\ asked' = asked
          BY <3>4 DEF Get, Shape, MemoryTypes
        <5> QED
          BY <4>2, <5>1 DEF FitsRead, Refused, SectionOf
      <4> QED
        BY <4>1, <4>2
    <3>5. CASE GetLost(w) \/ Verify(w)
      <4>1. pc'[w] \in {"get", "verify", After(w, "body")}
        BY <3>5, CallMoved, AttemptMoved DEF GetLost, Verify, AttemptLost, Goto, Shape, CallTypes
      <4> QED
        BY <4>1, AfterThat DEF FitsRead
    <3>6. CASE Put(w) \/ PutLost(w)
      <4>1. pc[w] = "put" /\ asked' = asked /\ read' = read
        BY <3>6 DEF Put, PutLost
      <4> QED
        BY <4>1 DEF PatchInv, FitsRead, SectionOf
    <3>7. CASE Issue(w) \/ IssueLost(w) \/ Refresh(w) \/ RefreshLost(w) \/ Ready(w) \/ ReadyLost(w)
      <4>1. pc'[w] \in {"issue", "refresh", "ready", "dead", After(w, "issue"), After(w, "refresh"), After(w, "ready")}
        BY <3>7, CallMoved DEF Issue, IssueLost, Refresh, RefreshLost, Ready, ReadyLost
      <4> QED
        BY <4>1, AfterThat DEF FitsRead
    <3>8. CASE Miss(w)
      BY <3>8, MissMoves, AfterThat DEF FitsRead
    <3> QED
      BY <1>1, <3>1, <3>2, <3>3, <3>4, <3>5, <3>6, <3>7, <3>8 DEF Works, Fails
  <2> QED
    BY <2>1, <2>2 DEF PatchInv
<1>2. CASE Edit \/ UNCHANGED vars
  BY <1>2 DEF Edit, vars, run, PatchInv, FitsRead, SectionOf
<1> QED
  BY <1>1, <1>2 DEF Next

\* What a patch knew of is in the body that it makes.
LEMMA SeenStays ==
    ASSUME Shape, PatchInv, NEW w \in Writers, ~Replaces(w), pc[w] = "put", Land(w)
    PROVE  Seen(w) \subseteq Checked(body')
<1>1. body' = Patched(w, read[w]) /\ read[w] \in Bodies /\ MemoryTypes
  BY DEF Land, Write, Shape, MemoryTypes
<1>2. SectionOf(w, body') = SectionOf(w, asked[w])
      /\ \A s \in Sections \ {Section[w]} : body'.todos[s] = read[w].todos[s]
  BY <1>1, PatchedIs
<1>3. SectionOf(w, read[w]) \subseteq SectionOf(w, asked[w])
  BY DEF PatchInv, FitsRead
<1>4. ASSUME NEW i \in Checked(read[w]) PROVE i \in Checked(body')
  <2>1. i \in Items /\ i[1] \in Sections /\ i[2] \in read[w].todos[i[1]]
    BY <1>4 DEF Checked, Items
  <2>2. CASE i[1] = Section[w]
    BY <1>2, <1>3, <2>1, <2>2 DEF Checked, SectionOf
  <2>3. CASE i[1] # Section[w]
    BY <1>2, <2>1, <2>3 DEF Checked
  <2> QED
    BY <2>2, <2>3
<1> QED
  BY <1>4 DEF Seen

LEMMA EditKeepsChecked == ASSUME Shape, Edit PROVE Checked(body) \subseteq Checked(body') /\ checked' = checked \cup Checked(body')
<1>1. body \in Bodies
  BY DEF Shape, ItemTypes
<1>2. CASE Write(Person, [body EXCEPT !.prose = <<Person, edits'>>])
  BY <1>1, <1>2 DEF Write, Checked, Bodies
<1>3. ASSUME NEW i \in Items, Write(Person, [body EXCEPT !.todos[i[1]] = @ \cup {i[2]}])
      PROVE  Checked(body) \subseteq Checked(body') /\ checked' = checked \cup Checked(body')
  BY <1>1, <1>3 DEF Write, Checked, Bodies, Todos, Items
<1>4. ASSUME NEW s \in Sections, Write(Person, [body EXCEPT !.torn = @ \cup {s}])
      PROVE  Checked(body) \subseteq Checked(body') /\ checked' = checked \cup Checked(body')
  BY <1>1, <1>4 DEF Write, Checked, Bodies
<1> QED
  BY <1>2, <1>3, <1>4 DEF Edit

SeenInv == CountedInv /\ PatchInv /\ OnlyUnseenIsLost

\* A patch takes a checked entry away only if it was checked after that patch had read
\* the body, for any interleaving of patches, replacements and people
\* (checked_items_would_be_lost); a new body is not asked for what it leaves out.
THEOREM NoCheckedEntryIsLost == Spec => []OnlyUnseenIsLost
<1>1. Init => SeenInv
  <2>1. Init => PatchInv /\ OnlyUnseenIsLost
    BY DEF Init, PatchInv, FitsRead, OnlyUnseenIsLost
  <2> QED
    BY <2>1, CountedStarts DEF SeenInv
<1>2. SeenInv /\ [Next]_vars => SeenInv'
  <2> SUFFICES ASSUME SeenInv, [Next]_vars PROVE SeenInv'
    OBVIOUS
  <2>1. CountedInv' /\ PatchInv' /\ Shape /\ PatchInv
    BY CountedStep, PatchStep DEF SeenInv, CountedInv
  <2>2. OnlyUnseenIsLost'
    <3>1. CASE UNCHANGED <<body, checked, buried>>
      BY <3>1 DEF SeenInv, OnlyUnseenIsLost, Checked
    <3>2. ASSUME NEW w \in Writers, Land(w), pc[w] = "put" PROVE OnlyUnseenIsLost'
      <4>1. ~Replaces(w) => Seen(w) \subseteq Checked(body')
        BY <2>1, <3>2, SeenStays
      <4>2. /\ checked' = checked \cup Checked(body')
            /\ buried' = buried \cup ((Checked(body) \ Checked(body'))
                                       \ (IF Replaces(w) THEN {} ELSE Seen(w)))
        BY <3>2 DEF Land, Write
      <4>3. checked \subseteq Checked(body) \cup buried
        BY DEF SeenInv, OnlyUnseenIsLost
      <4>4. checked' \subseteq Checked(body') \cup buried'
        BY <4>1, <4>2, <4>3
      <4> QED
        BY <4>4 DEF OnlyUnseenIsLost, Checked
    <3>3. CASE Edit
      <4>1. checked' \subseteq Checked(body') \cup buried'
        BY <2>1, <3>3, EditKeepsChecked DEF Edit, SeenInv, OnlyUnseenIsLost
      <4> QED
        BY <4>1 DEF OnlyUnseenIsLost, Checked
    <3> QED
      BY <3>1, <3>2, <3>3, BodyMoves
  <2> QED
    BY <2>1, <2>2 DEF SeenInv
<1>3. SeenInv => OnlyUnseenIsLost
  BY DEF SeenInv
<1> QED
  BY <1>1, <1>2, <1>3, PTL DEF Spec

----------------------------------------------------------------------------
(* Snapshots *)

\* What is in the body, when a person wrote it, is in a snapshot or came after it.
Marked(w) ==
    HasSnapshot(w) /\ body.prose[1] = Person =>
        (\E s \in snaps : s[2] = body.prose) \/ body.prose \in since[w]

Posting(w) ==
    pc[w] = "keep" /\ body.prose[1] = Person => body.prose = kept[w] \/ body.prose \in since[w]

\* The places of a replacement up to its write.
Replacing == {"stamp", "labels", "look", "snap", "keep", "put"}

KeepInv ==
    /\ \A s \in snaps : Replaces(s[1])
    /\ \A w \in Writers : Marked(w) /\ Posting(w)
    /\ \A w \in Writers : pc[w] = "put" /\ Replaces(w) => HasSnapshot(w)
    /\ \A w \in Writers : pc[w] \in Replacing /\ Replaces(w) => asked[w].prose[1] = w

LEMMA OwnWays ==
    ASSUME Shape, PlaceInv, NEW w \in Writers, Works(w) \/ Fails(w) \/ SendBack(w)
    PROVE  /\ pc'[w] = "keep" => Snap(w) \/ (pc[w] = "keep" /\ kept' = kept)
           /\ pc'[w] = "put" /\ Replaces(w) => pc[w] = "put" \/ HasSnapshot(w)'
           /\ pc'[w] \in Replacing /\ Replaces(w) => Begin(w) \/ (pc[w] \in Replacing /\ asked' = asked)
<1>1. CASE Begin(w) \/ Reclaim(w) \/ Crash(w) \/ SendBack(w)
  <2>1. pc'[w] \in {"off", "dead"} \/ (Begin(w) /\ pc'[w] = "stamp")
    BY <1>1, AfterBegin DEF Begin, Reclaim, Crash, SendBack, Goto, Shape, CallTypes
  <2> QED
    BY <2>1 DEF Replacing
<1>2. CASE Stamp(w)
  <2>1. pc[w] = "stamp" /\ asked' = asked /\ pc'[w] = After(w, "stamp")
    BY <1>2 DEF Stamp, Goto, Shape, CallTypes
  <2> QED
    BY <2>1, AfterThat DEF Replacing, Start
<1>3. CASE \E l \in Labels : Label(w, l) \/ LabelLost(w, l)
  <2>1. pc[w] = "labels" /\ asked' = asked /\ pc'[w] \in {"labels", After(w, "labels")}
    BY <1>3, CallMoved DEF Label, LabelLost, LabelCall, AfterLabel
  <2> QED
    BY <2>1, AfterThat DEF Replacing, Start
<1>4. CASE Look(w)
  <2>1. pc[w] = "look" /\ asked' = asked /\ snaps' = snaps /\ pc'[w] = IF HasSnapshot(w) THEN "put" ELSE "snap"
    BY <1>4 DEF Look, Answered, Goto, item, Shape, CallTypes
  <2> QED
    BY <2>1 DEF Replacing, HasSnapshot
<1>5. CASE Snap(w)
  <2>1. pc[w] = "snap" /\ asked' = asked /\ pc'[w] = "keep"
    BY <1>5 DEF Snap, Answered, Goto, Shape, CallTypes
  <2> QED
    BY <1>5, <2>1 DEF Replacing
<1>6. CASE Keep(w)
  <2>1. pc[w] = "keep" /\ asked' = asked /\ pc'[w] = "put" /\ <<w, kept[w]>> \in snaps'
    BY <1>6 DEF Keep, Answered, Goto, Shape, CallTypes
  <2> QED
    BY <2>1 DEF Replacing, HasSnapshot
<1>7. CASE SnapLost(w)
  <2>1. pc[w] \in {"look", "snap", "keep"} /\ asked' = asked /\ kept' = kept /\ pc'[w] \in {pc[w], After(w, "body")}
    BY <1>7, CallMoved DEF SnapLost, AfterSnapLost
  <2> QED
    BY <2>1, AfterThat DEF Replacing
<1>8. CASE Get(w) \/ GetLost(w) \/ Verify(w)
  <2>1. /\ pc[w] \in {"get", "verify"} /\ ~Replaces(w)
        /\ pc'[w] \in {"get", "put", "verify", After(w, "body")}
    BY <1>8, CallMoved, AttemptMoved DEF Get, GetLost, Verify, AttemptLost, AfterRefusal, Goto, Shape, CallTypes, PlaceInv
  <2> QED
    BY <2>1, AfterThat
<1>9. CASE Put(w) \/ PutLost(w)
  <2>1. pc[w] = "put" /\ asked' = asked /\ pc'[w] \in {"put", "get", "verify", After(w, "body")}
    BY <1>9, CallMoved, AttemptMoved DEF Put, PutLost, AttemptLost
  <2> QED
    BY <2>1, AfterThat DEF Replacing
<1>10. CASE Issue(w) \/ IssueLost(w) \/ Refresh(w) \/ RefreshLost(w) \/ Ready(w) \/ ReadyLost(w)
  <2>1. pc'[w] \in {"issue", "refresh", "ready", "dead", After(w, "issue"), After(w, "refresh"), After(w, "ready")}
    BY <1>10, CallMoved DEF Issue, IssueLost, Refresh, RefreshLost, Ready, ReadyLost
  <2> QED
    BY <2>1, AfterThat DEF Replacing
<1>11. CASE Miss(w)
  BY <1>11, MissMoves, AfterThat DEF Replacing
<1> QED
  BY <1>1, <1>2, <1>3, <1>4, <1>5, <1>6, <1>7, <1>8, <1>9, <1>10, <1>11 DEF Works, Fails

\* The steps that touch the body or the snapshots.
LEMMA TextMoves ==
    ASSUME [Next]_vars
    PROVE  \/ UNCHANGED <<body, snaps, since, displaced>>
           \/ \E w \in Writers : /\ pc[w] = "keep"
                                 /\ snaps' = snaps \cup {<<w, kept[w]>>}
                                 /\ UNCHANGED <<body, since, displaced>>
           \/ \E w \in Writers : pc[w] = "put" /\ Land(w) /\ snaps' = snaps
           \/ \E b : Write(Person, b) /\ UNCHANGED <<snaps, displaced>>
<1>1. CASE Edit
  <2>1. \E b : Write(Person, b)
    BY <1>1 DEF Edit
  <2> QED
    BY <1>1, <2>1 DEF Edit
<1>2. ASSUME NEW w \in Writers, Keep(w) \/ SnapLost(w)
      PROVE  \/ UNCHANGED <<body, snaps, since, displaced>>
             \/ pc[w] = "keep" /\ snaps' = snaps \cup {<<w, kept[w]>>} /\ UNCHANGED <<body, since, displaced>>
  BY <1>2 DEF Keep, SnapLost, history
<1>3. ASSUME NEW w \in Writers, Put(w) \/ PutLost(w)
      PROVE  \/ UNCHANGED <<body, snaps, since, displaced>>
             \/ pc[w] = "put" /\ Land(w) /\ snaps' = snaps
  BY <1>3 DEF Put, PutLost
<1>4. ASSUME NEW w \in Writers, NEW l \in Labels, Label(w, l) \/ LabelLost(w, l)
      PROVE  UNCHANGED <<body, snaps, since, displaced>>
  BY <1>4 DEF Label, LabelLost, history
<1>5. ASSUME NEW w \in Writers,
             \/ Begin(w) \/ Stamp(w) \/ Crash(w) \/ Reclaim(w) \/ SendBack(w) \/ Look(w) \/ Snap(w)
             \/ Get(w) \/ GetLost(w) \/ Verify(w) \/ Issue(w) \/ IssueLost(w)
             \/ Refresh(w) \/ RefreshLost(w) \/ Ready(w) \/ ReadyLost(w) \/ Miss(w)
      PROVE  UNCHANGED <<body, snaps, since, displaced>>
  BY <1>5 DEF Begin, Stamp, Crash, Reclaim, SendBack, Look, Snap, Get, GetLost, Verify, Issue, IssueLost,
              Refresh, RefreshLost, Ready, ReadyLost, Miss, item, history
<1>6. CASE UNCHANGED vars
  BY <1>6 DEF vars, item, history
<1> QED
  BY <1>1, <1>2, <1>3, <1>4, <1>5, <1>6 DEF Next, Works, Fails

LEMMA WriteMarks ==
    ASSUME Shape, NEW who \in Authors, NEW b, Write(who, b), NEW w \in Writers
    PROVE  /\ body' = b
           /\ since[w] \subseteq since'[w]
           /\ w # who /\ (pc[w] = "keep" \/ HasSnapshot(w)) => b.prose \in since'[w]
BY DEF Write, HasSnapshot, Shape, WriteTypes

\* A replacement puts a text of its own.
LEMMA OwnText ==
    ASSUME Shape, KeepInv, NEW w \in Writers, pc[w] = "put", Land(w), Replaces(w)
    PROVE  body'.prose[1] = w /\ w # Person
BY Bounds DEF KeepInv, Land, Write, Replacing

LEMMA MarkStep == ASSUME Shape, PlaceInv, KeepInv, [Next]_vars, NEW v \in Writers PROVE Marked(v)'
<1>1. CASE UNCHANGED <<body, snaps, since, displaced>>
  BY <1>1 DEF KeepInv, Marked, HasSnapshot
<1>2. ASSUME NEW w \in Writers, pc[w] = "keep", snaps' = snaps \cup {<<w, kept[w]>>}, UNCHANGED <<body, since, displaced>>
      PROVE  Marked(v)'
  <2>1. \A s \in snaps : s \in snaps'
    BY <1>2
  <2>2. CASE v = w
    <3>1. <<w, kept[w]>> \in snaps' /\ <<w, kept[w]>>[2] = kept[w]
      BY <1>2
    <3>2. Posting(w)
      BY DEF KeepInv
    <3> QED
      BY <1>2, <2>2, <3>1, <3>2 DEF Marked, Posting
  <2>3. CASE v # w
    <3>1. HasSnapshot(v)' => HasSnapshot(v)
      BY <1>2, <2>3 DEF HasSnapshot
    <3> QED
      BY <1>2, <2>1, <3>1 DEF KeepInv, Marked
  <2> QED
    BY <2>2, <2>3
<1>3. ASSUME NEW w \in Writers, pc[w] = "put", Land(w), snaps' = snaps PROVE Marked(v)'
  <2>1. w \in Authors /\ \E b : Write(w, b)
    BY <1>3, Bounds DEF Land
  <2>2. CASE v # w
    BY <1>3, <2>1, <2>2, WriteMarks DEF Marked, HasSnapshot
  <2>3. CASE v = w /\ Replaces(w)
    BY <1>3, <2>3, OwnText DEF Marked
  <2>4. CASE v = w /\ ~Replaces(w)
    BY <1>3, <2>4 DEF Marked, HasSnapshot, KeepInv
  <2> QED
    BY <2>2, <2>3, <2>4
<1>4. ASSUME NEW b, Write(Person, b), UNCHANGED <<snaps, displaced>> PROVE Marked(v)'
  BY <1>4, WriteMarks, Bounds DEF Marked, HasSnapshot
<1> QED
  BY <1>1, <1>2, <1>3, <1>4, TextMoves

LEMMA PostStep == ASSUME Shape, PlaceInv, KeepInv, [Next]_vars, NEW v \in Writers PROVE Posting(v)'
<1>1. CASE Snap(v)
  <2>1. kept'[v] = body.prose /\ body' = body
    BY <1>1 DEF Snap, item, Shape, MemoryTypes
  <2> QED
    BY <2>1 DEF Posting
<1>2. CASE pc'[v] # "keep"
  BY <1>2 DEF Posting
<1>3. CASE pc[v] = "keep" /\ kept'[v] = kept[v]
  <2>1. CASE UNCHANGED <<body, since>>
    BY <1>3, <2>1 DEF KeepInv, Posting
  <2>2. ASSUME NEW w \in Writers, pc[w] = "put", Land(w) PROVE Posting(v)'
    <3>1. v # w /\ w \in Authors /\ \E b : Write(w, b)
      BY <1>3, <2>2, Bounds DEF Land
    <3> QED
      BY <1>3, <3>1, WriteMarks DEF Posting
  <2>3. ASSUME NEW b, Write(Person, b) PROVE Posting(v)'
    BY <1>3, <2>3, WriteMarks, Bounds DEF Posting
  <2> QED
    BY <2>1, <2>2, <2>3, TextMoves
<1>4. Snap(v) \/ pc'[v] # "keep" \/ (pc[v] = "keep" /\ kept'[v] = kept[v])
  <2>1. ASSUME NEW w \in Writers, Works(w) \/ Fails(w) \/ SendBack(w)
        PROVE  Snap(v) \/ pc'[v] # "keep" \/ (pc[v] = "keep" /\ kept'[v] = kept[v])
    BY <2>1, OwnWays, OthersKeep
  <2>2. CASE Edit \/ UNCHANGED vars
    BY <2>2 DEF Edit, vars, run
  <2> QED
    BY <2>1, <2>2 DEF Next
<1> QED
  BY <1>1, <1>2, <1>3, <1>4

LEMMA SnapsGrow == ASSUME [Next]_vars PROVE snaps \subseteq snaps'
BY TextMoves

LEMMA KeepStep == ASSUME Shape, PlaceInv, KeepInv, [Next]_vars PROVE KeepInv'
<1>1. \A w \in Writers : Marked(w)' /\ Posting(w)'
  BY MarkStep, PostStep
<1>2. \A s \in snaps' : Replaces(s[1])
  <2>1. ASSUME NEW w \in Writers, pc[w] = "keep" PROVE Replaces(w)
    BY <2>1 DEF PlaceInv
  <2> QED
    BY <2>1, TextMoves DEF KeepInv
<1>3. ASSUME NEW v \in Writers PROVE pc'[v] = "put" /\ Replaces(v) => HasSnapshot(v)'
  <2>1. HasSnapshot(v) => HasSnapshot(v)'
    BY SnapsGrow DEF HasSnapshot
  <2>2. pc'[v] = "put" /\ Replaces(v) => pc[v] = "put" \/ HasSnapshot(v)'
    <3>1. ASSUME NEW w \in Writers, Works(w) \/ Fails(w) \/ SendBack(w)
          PROVE  pc'[v] = "put" /\ Replaces(v) => pc[v] = "put" \/ HasSnapshot(v)'
      BY <3>1, OwnWays, OthersKeep
    <3>2. CASE Edit \/ UNCHANGED vars
      BY <3>2 DEF Edit, vars, run
    <3> QED
      BY <3>1, <3>2 DEF Next
  <2> QED
    BY <2>1, <2>2 DEF KeepInv
<1>4. ASSUME NEW v \in Writers PROVE pc'[v] \in Replacing /\ Replaces(v) => asked'[v].prose[1] = v
  <2>1. ASSUME NEW w \in Writers, Works(w) \/ Fails(w) \/ SendBack(w)
        PROVE  pc'[v] \in Replacing /\ Replaces(v) => asked'[v].prose[1] = v
    <3>1. CASE v = w
      <4>1. CASE Begin(w) /\ Replaces(w)
        <5>1. asked'[w].prose = <<w, 0>>
          BY <4>1 DEF Begin, Shape, MemoryTypes, ItemTypes, Bodies
        <5> QED
          BY <3>1, <5>1
      <4> QED
        BY <2>1, <3>1, <4>1, OwnWays DEF KeepInv
    <3>2. CASE v # w
      BY <2>1, <3>2, OthersKeep DEF KeepInv
    <3> QED
      BY <3>1, <3>2
  <2>2. CASE Edit \/ UNCHANGED vars
    BY <2>2 DEF Edit, vars, run, KeepInv
  <2> QED
    BY <2>1, <2>2 DEF Next
<1>5. \A s \in snaps' : Replaces(s[1])'
  BY <1>2 DEF Replaces
<1> QED
  BY <1>1, <1>3, <1>4, <1>5 DEF KeepInv, Replaces

TextInv == CountedInv /\ KeepInv /\ OriginalsAreKept

\* A person's text that a replacement took away is in a snapshot, unless it came
\* into the body after that step had taken its one snapshot of the item.
THEOREM OriginalsAreAlwaysKept == Spec => []OriginalsAreKept
<1>1. Init => TextInv
  <2>1. Init => KeepInv /\ OriginalsAreKept
    BY DEF Init, KeepInv, Marked, Posting, HasSnapshot, Replacing, OriginalsAreKept
  <2> QED
    BY <2>1, CountedStarts DEF TextInv
<1>2. TextInv /\ [Next]_vars => TextInv'
  <2> SUFFICES ASSUME TextInv, [Next]_vars PROVE TextInv'
    OBVIOUS
  <2>1. CountedInv' /\ KeepInv' /\ Shape /\ KeepInv
    BY CountedStep, KeepStep DEF TextInv, CountedInv
  <2>2. OriginalsAreKept'
    <3>1. \A w \in Writers : since[w] \subseteq since'[w]
      <4>1. ASSUME NEW w \in Writers, Land(w), NEW v \in Writers PROVE since[v] \subseteq since'[v]
        BY <2>1, <4>1, WriteMarks, Bounds DEF Land
      <4> QED
        BY <2>1, <4>1, TextMoves, WriteMarks, Bounds
    <3>2. displaced \subseteq Writers \X Proses
      BY <2>1 DEF Shape, WriteTypes
    <3>3. \A d \in displaced : (\E s \in snaps' : s[2] = d[2]) \/ d[2] \in since'[d[1]]
      BY <3>1, <3>2, SnapsGrow DEF TextInv, OriginalsAreKept
    <3>4. CASE displaced' = displaced
      BY <3>3, <3>4 DEF OriginalsAreKept
    <3>5. ASSUME NEW w \in Writers, pc[w] = "put", Replaces(w), body.prose[1] = Person,
                 displaced' = displaced \cup {<<w, body.prose>>}
          PROVE  OriginalsAreKept'
      <4>1. (\E s \in snaps : s[2] = body.prose) \/ body.prose \in since[w]
        BY <2>1, <3>5 DEF KeepInv, Marked
      <4>2. \A d \in displaced' : (\E s \in snaps' : s[2] = d[2]) \/ d[2] \in since'[d[1]]
        BY <3>1, <3>3, <3>5, <4>1, SnapsGrow
      <4> QED
        BY <4>2 DEF OriginalsAreKept
    <3> QED
      BY <3>4, <3>5, TextMoves DEF Land
  <2> QED
    BY <2>1, <2>2 DEF TextInv
<1>3. TextInv => OriginalsAreKept
  BY DEF TextInv
<1> QED
  BY <1>1, <1>2, <1>3, PTL DEF Spec

----------------------------------------------------------------------------
(* Attempts *)

\* What has come in the way of w: writes of others, lost calls.
Spent(w) == rivals[w] + faults

Attempting(w) == pc[w] \in {"get", "put", "verify"} /\ ~Replaces(w)

Late(w) ==
    /\ pc[w] \in {"stamp", "labels"} => attempt[w] = 1
    /\ Attempting(w) => attempt[w] <= Spent(w) + 1
    /\ pc[w] = "verify" /\ SectionOf(w, body) # SectionOf(w, asked[w]) => attempt[w] <= Spent(w)
    /\ verdict[w] = "given up" => MaxAttempts <= Spent(w)

LateInv == \A w \in Writers : Late(w)

LEMMA Room ==
    /\ \A a, m, n \in Nat : a <= m /\ m <= n => a <= n
    /\ \A a, m, n \in Nat : a <= m + 1 /\ m <= n => a <= n + 1
    /\ \A a, m, n \in Nat : a <= m + 1 /\ m + 1 <= n => a <= n
    /\ \A a, m, n \in Nat : a <= m /\ m <= n => a + 1 <= n + 1
    /\ \A n \in Nat : 1 <= n + 1
    /\ \A a, m \in Nat : a <= m => a <= m + 1
    /\ \A r, q, f, g \in Nat : r <= q /\ f <= g => r + f <= q + g
    /\ \A r, q, f, g \in Nat : r + 1 <= q /\ f <= g => (r + f) + 1 <= q + g
    /\ \A r, q, f, g \in Nat : r <= q /\ f + 1 <= g => (r + f) + 1 <= q + g
    /\ \A m \in Nat : \A a \in 1..m : a \in Nat /\ (~(a < m) => a = m)
OBVIOUS

LEMMA SpentIsNat ==
    ASSUME Shape, NEW w \in Writers
    PROVE  /\ Spent(w) \in Nat /\ attempt[w] \in Nat /\ attempt[w] \in 1..MaxAttempts
           /\ rivals[w] \in Nat /\ faults \in Nat
<1>1. rivals[w] \in Nat /\ faults \in Nat
  BY Numbers DEF Shape, WriteTypes, CallTypes
<1>2. attempt[w] \in 1..MaxAttempts
  BY DEF Shape, MemoryTypes
<1> QED
  BY <1>1, <1>2, Numbers, Room DEF Spent

LEMMA SpentStaysNat == ASSUME Shape', NEW w \in Writers PROVE Spent(w)' \in Nat
<1>1. \A r, f \in Nat : r + f \in Nat
  OBVIOUS
<1>2. rivals'[w] \in Nat /\ faults' \in Nat
  BY Numbers, OneMore DEF Shape, WriteTypes, CallTypes
<1> QED
  BY <1>1, <1>2 DEF Spent

LEMMA RivalsMove ==
    ASSUME Shape, [Next]_vars, NEW w \in Writers, ~Begin(w)
    PROVE  /\ rivals[w] <= rivals'[w]
           /\ body' # body /\ ~(pc[w] = "put" /\ Land(w)) /\ Attempting(w) => rivals[w] + 1 <= rivals'[w]
<1>1. rivals[w] \in Nat
  BY DEF Shape, WriteTypes
<1>2. CASE rivals'[w] = rivals[w] /\ body' = body
  BY <1>1, <1>2
<1>3. ASSUME NEW who, NEW b, Write(who, b)
      PROVE  /\ rivals'[w] = IF w # who /\ pc[w] \in {"get", "put", "verify"} THEN rivals[w] + 1 ELSE rivals[w]
             /\ rivals[w] <= rivals'[w]
  BY <1>1, <1>3 DEF Write
<1>4. CASE \E b : Write(Person, b)
  BY <1>1, <1>3, <1>4, Bounds DEF Attempting
<1>5. ASSUME NEW v \in Writers, pc[v] = "put", Land(v)
      PROVE  /\ rivals[w] <= rivals'[w]
             /\ body' # body /\ ~(pc[w] = "put" /\ Land(w)) /\ Attempting(w) => rivals[w] + 1 <= rivals'[w]
  <2>1. \E b : Write(v, b)
    BY <1>5 DEF Land
  <2> QED
    BY <1>1, <1>3, <1>5, <2>1 DEF Attempting
<1>6. \/ rivals'[w] = rivals[w] /\ body' = body
      \/ \E b : Write(Person, b)
      \/ \E v \in Writers : pc[v] = "put" /\ Land(v)
  <2>1. CASE Edit
    BY <2>1 DEF Edit
  <2>2. ASSUME NEW v \in Writers, Begin(v) PROVE rivals'[w] = rivals[w] /\ body' = body
    BY <2>2 DEF Begin, item, Shape, WriteTypes
  <2>3. ASSUME NEW v \in Writers, Put(v) \/ PutLost(v)
        PROVE  UNCHANGED <<rivals, body>> \/ (pc[v] = "put" /\ Land(v))
    BY <2>3 DEF Put, PutLost
  <2>4. ASSUME NEW v \in Writers, NEW l \in Labels, Label(v, l) \/ LabelLost(v, l) PROVE UNCHANGED <<rivals, body>>
    BY <2>4 DEF Label, LabelLost, history
  <2>5. ASSUME NEW v \in Writers,
               \/ Stamp(v) \/ Crash(v) \/ Reclaim(v) \/ SendBack(v) \/ Look(v) \/ Snap(v) \/ Keep(v) \/ SnapLost(v)
               \/ Get(v) \/ GetLost(v) \/ Verify(v) \/ Issue(v) \/ IssueLost(v)
               \/ Refresh(v) \/ RefreshLost(v) \/ Ready(v) \/ ReadyLost(v) \/ Miss(v)
        PROVE  UNCHANGED <<rivals, body>>
    BY <2>5 DEF Stamp, Crash, Reclaim, SendBack, Look, Snap, Keep, SnapLost, Get, GetLost, Verify, Issue, IssueLost,
                Refresh, RefreshLost, Ready, ReadyLost, Miss, item, history
  <2>6. CASE UNCHANGED vars
    BY <2>6 DEF vars, item, history
  <2> QED
    BY <2>1, <2>2, <2>3, <2>4, <2>5, <2>6 DEF Next, Works, Fails
<1> QED
  BY <1>2, <1>4, <1>5, <1>6

LEMMA SpentGrows ==
    ASSUME Shape, Shape', [Next]_vars, NEW w \in Writers, ~Begin(w)
    PROVE  /\ Spent(w) <= Spent(w)'
           /\ body' # body /\ ~(pc[w] = "put" /\ Land(w)) /\ Attempting(w) => Spent(w) + 1 <= Spent(w)'
           /\ Fault => Spent(w) + 1 <= Spent(w)'
<1>1. rivals[w] \in Nat /\ faults \in Nat /\ rivals'[w] \in Nat /\ faults' \in Nat
  BY SpentIsNat, Numbers DEF Shape, WriteTypes, CallTypes
<1>2. \A f, g \in Nat : g >= f <=> f <= g
  OBVIOUS
<1>3. faults <= faults'
  BY <1>1, <1>2, FaultsGrow
<1>4. rivals[w] <= rivals'[w]
  BY RivalsMove
<1>5. Spent(w) = rivals[w] + faults /\ Spent(w)' = rivals'[w] + faults'
  BY DEF Spent
<1>6. Spent(w) <= Spent(w)'
  BY <1>1, <1>3, <1>4, <1>5, Room
<1>7. body' # body /\ ~(pc[w] = "put" /\ Land(w)) /\ Attempting(w) => Spent(w) + 1 <= Spent(w)'
  BY <1>1, <1>3, <1>5, RivalsMove, Room
<1>8. Fault => Spent(w) + 1 <= Spent(w)'
  <2>1. \A n \in Nat : n + 1 <= n + 1
    OBVIOUS
  <2>2. Fault => faults + 1 <= faults'
    BY <1>1, <2>1 DEF Fault
  <2> QED
    BY <1>1, <1>4, <1>5, <2>2, Room
<1> QED
  BY <1>6, <1>7, <1>8

\* A step of another, or of a person.
LEMMA LateByOthers ==
    ASSUME Shape, Shape', PlaceInv, [Next]_vars, NEW w \in Writers, Late(w), ~Begin(w),
           pc'[w] = pc[w], asked'[w] = asked[w], attempt'[w] = attempt[w], verdict'[w] = verdict[w]
    PROVE  Late(w)'
<1>1. /\ Spent(w) \in Nat /\ Spent(w)' \in Nat /\ attempt[w] \in Nat /\ MaxAttempts \in Nat
  BY SpentIsNat, SpentStaysNat, Numbers
<1>2. Spent(w) <= Spent(w)'
  BY SpentGrows
<1>3. Attempting(w)' => attempt'[w] <= Spent(w)' + 1
  BY <1>1, <1>2, Room DEF Late, Attempting, Replaces
<1>4. (verdict[w] = "given up")' => MaxAttempts <= Spent(w)'
  BY <1>1, <1>2, Room DEF Late
<1>5. (pc[w] = "verify" /\ SectionOf(w, body) # SectionOf(w, asked[w]))' => attempt'[w] <= Spent(w)'
  <2>1. CASE body' = body
    BY <1>1, <1>2, <2>1, Room DEF Late, SectionOf
  <2>2. CASE body' # body /\ pc[w] = "verify"
    <3>1. Attempting(w)
      BY <2>2 DEF PlaceInv, Attempting
    <3>2. Spent(w) + 1 <= Spent(w)'
      BY <2>2, <3>1, SpentGrows
    <3> QED
      BY <1>1, <2>2, <3>1, <3>2, Room DEF Late
  <2> QED
    BY <2>1, <2>2
<1> QED
  BY <1>3, <1>4, <1>5 DEF Late

\* An attempt that ends in vain was in somebody's way.
LEMMA LateAtEnd ==
    ASSUME Shape, Shape', [Next]_vars, NEW w \in Writers, Late(w), ~Begin(w), EndAttempt(w), Attempting(w),
           (attempt[w] <= Spent(w)) \/ Fault
    PROVE  Late(w)'
<1>1. /\ Spent(w) \in Nat /\ Spent(w)' \in Nat /\ attempt[w] \in Nat /\ MaxAttempts \in Nat
      /\ attempt[w] \in 1..MaxAttempts
  BY SpentIsNat, SpentStaysNat, Numbers
<1>2. attempt[w] <= Spent(w)'
  <2>1. CASE attempt[w] <= Spent(w)
    BY <1>1, <2>1, SpentGrows, Room
  <2>2. CASE Fault
    BY <1>1, <2>2, SpentGrows, Room DEF Late
  <2> QED
    BY <2>1, <2>2
<1>3. verdict[w] = "given up" => MaxAttempts <= Spent(w)'
  BY <1>1, SpentGrows, Room DEF Late
<1>4. CASE MoreAttempts(attempt[w])
  <2>1. /\ pc'[w] = "get" /\ attempt'[w] = attempt[w] + 1 /\ verdict'[w] = verdict[w]
    BY <1>4 DEF EndAttempt, Goto, Shape, CallTypes, MemoryTypes
  <2>2. attempt'[w] <= Spent(w)' + 1
    BY <1>1, <1>2, <2>1, Room
  <2> QED
    BY <1>3, <2>1, <2>2 DEF Late
<1>5. CASE ~MoreAttempts(attempt[w])
  <2>1. pc'[w] = After(w, "body")
    BY <1>5 DEF EndAttempt, Goto, Shape, CallTypes
  <2>2. attempt[w] = MaxAttempts
    BY <1>1, <1>5, Room DEF MoreAttempts
  <2>3. MaxAttempts <= Spent(w)'
    BY <1>2, <2>2
  <2> QED
    BY <2>1, <2>3, AfterThat DEF Late, Attempting
<1> QED
  BY <1>4, <1>5

\* A step of its own that ends no attempt.
LEMMA LateGoesOn ==
    ASSUME Shape, Shape', [Next]_vars, NEW w \in Writers, Late(w), ~Begin(w), attempt'[w] = attempt[w],
           verdict'[w] # "given up" \/ verdict'[w] = verdict[w],
           pc'[w] \in {"stamp", "labels"} => pc[w] \in {"stamp", "labels"},
           Attempting(w)' => Attempting(w) \/ pc[w] \in {"stamp", "labels"},
           pc'[w] # "verify" \/ SectionOf(w, body)' = SectionOf(w, asked[w])'
    PROVE  Late(w)'
<1>1. /\ Spent(w) \in Nat /\ Spent(w)' \in Nat /\ attempt[w] \in Nat /\ MaxAttempts \in Nat
  BY SpentIsNat, SpentStaysNat, Numbers
<1>2. Spent(w) <= Spent(w)'
  BY SpentGrows
<1>3. Attempting(w)' => attempt'[w] <= Spent(w)' + 1
  <2>1. CASE Attempting(w)
    BY <1>1, <1>2, <2>1, Room DEF Late
  <2>2. CASE pc[w] \in {"stamp", "labels"}
    BY <1>1, <2>2, Room DEF Late
  <2> QED
    BY <2>1, <2>2
<1>4. (verdict[w] = "given up")' => MaxAttempts <= Spent(w)'
  BY <1>1, <1>2, Room DEF Late
<1>5. (pc[w] \in {"stamp", "labels"})' => attempt'[w] = 1
  BY DEF Late
<1> QED
  BY <1>3, <1>4, <1>5 DEF Late

\* A step of its own, out of the patch.
LEMMA LateAway ==
    ASSUME Shape, Shape', [Next]_vars, NEW w \in Writers, Late(w), ~Begin(w), verdict'[w] = verdict[w],
           pc'[w] \notin {"stamp", "labels", "get", "put", "verify"}
    PROVE  Late(w)'
<1>1. Spent(w) \in Nat /\ Spent(w)' \in Nat /\ MaxAttempts \in Nat /\ Spent(w) <= Spent(w)'
  BY SpentIsNat, SpentStaysNat, SpentGrows, Numbers
<1>2. (verdict[w] = "given up")' => MaxAttempts <= Spent(w)'
  BY <1>1, Room DEF Late
<1> QED
  BY <1>2 DEF Late, Attempting

LEMMA LateOfOwn ==
    ASSUME Shape, Shape', PlaceInv, [Next]_vars, NEW w \in Writers, Late(w), Works(w) \/ Fails(w) \/ SendBack(w)
    PROVE  Late(w)'
<1>1. CASE Begin(w)
  <2>1. pc'[w] = "stamp" /\ attempt'[w] = 1 /\ verdict'[w] = "none"
    BY <1>1, AfterBegin DEF Begin, Goto, Shape, CallTypes, MemoryTypes, CountTypes
  <2> QED
    BY <2>1 DEF Late, Attempting
<1>2. ASSUME pc[w] # "off" PROVE ~Begin(w)
  BY <1>2 DEF Begin
<1>3. CASE Stamp(w)
  <2>1. pc[w] = "stamp" /\ pc'[w] = After(w, "stamp") /\ UNCHANGED <<attempt, verdict>>
    BY <1>3 DEF Stamp, Goto, Shape, CallTypes
  <2>2. pc'[w] # "verify"
    BY <2>1, AfterThat DEF Start
  <2> QED
    BY <1>2, <2>1, <2>2, LateGoesOn
<1>4. CASE Reclaim(w) \/ Crash(w) \/ SendBack(w)
  <2>1. pc[w] # "off" /\ pc'[w] \in {"off", "dead"} /\ UNCHANGED verdict
    BY <1>4 DEF Reclaim, Crash, SendBack, Goto, history, Shape, CallTypes
  <2> QED
    BY <1>2, <2>1, LateAway
<1>5. CASE \E l \in Labels : Label(w, l) \/ LabelLost(w, l)
  <2>1. pc[w] = "labels" /\ pc'[w] \in {"labels", After(w, "labels")} /\ UNCHANGED <<attempt, verdict>>
    BY <1>5, CallMoved DEF Label, LabelLost, LabelCall, AfterLabel, history
  <2>2. pc'[w] # "verify"
    BY <2>1, AfterThat DEF Start
  <2> QED
    BY <1>2, <2>1, <2>2, LateGoesOn
<1>6. CASE Look(w) \/ Snap(w) \/ Keep(w) \/ SnapLost(w)
  <2>1. /\ pc[w] \in {"look", "snap", "keep"} /\ attempt' = attempt /\ Replaces(w)
        /\ pc'[w] \in {"look", "snap", "keep", "put", After(w, "body")}
    BY <1>6, CallMoved DEF Look, Snap, Keep, SnapLost, AfterSnapLost, PlaceInv
  <2>2. verdict'[w] = verdict[w] \/ verdict'[w] # "given up"
    BY <1>6 DEF Look, Snap, Keep, SnapLost, history, Shape, CountTypes
  <2>3. pc'[w] \notin {"verify", "stamp", "labels"}
    BY <2>1, AfterThat
  <2>4. ~Attempting(w)'
    BY <2>1 DEF Attempting, Replaces
  <2> QED
    BY <1>2, <2>1, <2>2, <2>3, <2>4, LateGoesOn
<1>7. CASE Get(w)
  <2>1. pc[w] = "get" /\ ~Replaces(w) /\ attempt' = attempt /\ pc'[w] \in {"put", After(w, "body")}
    BY <1>7 DEF Get, Answered, Goto, AfterRefusal, PlaceInv, Shape, CallTypes
  <2>2. verdict'[w] = verdict[w] \/ verdict'[w] # "given up"
    BY <1>7 DEF Get, Shape, CountTypes
  <2>3. pc'[w] \notin {"verify", "stamp", "labels"}
    BY <2>1, AfterThat
  <2>4. Attempting(w)
    BY <2>1 DEF Attempting
  <2> QED
    BY <1>2, <2>1, <2>2, <2>3, <2>4, LateGoesOn
<1>8. CASE Verify(w)
  <2>1. pc[w] = "verify" /\ Attempting(w)
    BY <1>8 DEF Verify, PlaceInv, Attempting
  <2>2. CASE SectionOf(w, body) = SectionOf(w, asked[w])
    <3>1. pc'[w] = After(w, "body") /\ verdict'[w] = "written" /\ attempt' = attempt
      BY <1>8, <2>2 DEF Verify, Goto, Shape, CallTypes, CountTypes
    <3>2. pc'[w] \notin {"verify", "stamp", "labels"}
      BY <3>1, AfterThat
    <3> QED
      BY <1>2, <2>1, <3>1, <3>2, LateGoesOn
  <2>3. CASE SectionOf(w, body) # SectionOf(w, asked[w])
    <3>1. EndAttempt(w) /\ attempt[w] <= Spent(w)
      BY <1>8, <2>1, <2>3 DEF Verify, Late
    <3> QED
      BY <1>2, <2>1, <3>1, LateAtEnd
  <2> QED
    BY <2>2, <2>3
<1>9. CASE GetLost(w)
  <2>1. pc[w] \in {"get", "verify"} /\ Attempting(w)
    BY <1>9 DEF GetLost, PlaceInv, Attempting
  <2>2. CASE AttemptLost(w)
    BY <1>2, <2>1, <2>2, LateAtEnd DEF AttemptLost
  <2>3. CASE Resend(w) /\ UNCHANGED <<attempt, verdict>>
    <3>1. pc' = pc /\ asked' = asked
      BY <1>9, <2>3 DEF GetLost, Resend
    <3> QED
      BY <1>2, <2>1, <2>3, <3>1, LateByOthers
  <2> QED
    BY <1>9, <2>2, <2>3 DEF GetLost
<1>10. CASE Put(w)
  <2>1. CASE Replaces(w)
    <3>1. pc[w] = "put" /\ pc'[w] = After(w, "body") /\ attempt' = attempt /\ verdict'[w] = "written"
      BY <1>10, <2>1 DEF Put, Answered, Goto, Shape, CallTypes, CountTypes
    <3>2. pc'[w] \notin {"verify", "stamp", "labels"} /\ ~Attempting(w)'
      BY <2>1, <3>1, AfterThat DEF Attempting, Replaces
    <3> QED
      BY <1>2, <3>1, <3>2, LateGoesOn
  <2>2. CASE ~Replaces(w)
    <3>1. pc[w] = "put" /\ pc'[w] = "verify" /\ UNCHANGED <<attempt, verdict, asked>> /\ Attempting(w)
      BY <1>10, <2>2 DEF Put, Answered, Goto, Shape, CallTypes, Attempting
    <3>2. body' = Patched(w, read[w]) /\ read[w] \in Bodies /\ MemoryTypes
      BY <1>10, <2>2 DEF Put, Land, Write, Shape, MemoryTypes
    <3>3. SectionOf(w, body)' = SectionOf(w, asked[w])'
      BY <2>2, <3>1, <3>2, PatchedIs DEF SectionOf
    <3> QED
      BY <1>2, <3>1, <3>3, LateGoesOn
  <2> QED
    BY <2>1, <2>2
<1>11. CASE PutLost(w)
  <2>1. pc[w] = "put"
    BY <1>11 DEF PutLost
  <2>2. CASE Resend(w) /\ UNCHANGED <<attempt, verdict>>
    <3>1. pc' = pc
      BY <2>2 DEF Resend
    <3>2. Attempting(w)' => Attempting(w)
      BY <3>1 DEF Attempting, Replaces
    <3> QED
      BY <1>2, <2>1, <2>2, <3>1, <3>2, LateGoesOn
  <2>3. CASE ~Replaces(w) /\ AttemptLost(w)
    <3>1. Attempting(w)
      BY <2>1, <2>3 DEF Attempting
    <3> QED
      BY <1>2, <2>1, <2>3, <3>1, LateAtEnd DEF AttemptLost
  <2>4. CASE /\ Replaces(w) /\ Raise(w, After(w, "body")) /\ UNCHANGED attempt
             /\ verdict' = [verdict EXCEPT ![w] = "raised"]
    <3>1. pc'[w] = After(w, "body") /\ verdict'[w] = "raised"
      BY <2>4 DEF Raise, Goto, Shape, CallTypes, CountTypes
    <3>2. pc'[w] \notin {"verify", "stamp", "labels"} /\ ~Attempting(w)'
      BY <2>4, <3>1, AfterThat DEF Attempting, Replaces
    <3> QED
      BY <1>2, <2>1, <2>4, <3>1, <3>2, LateGoesOn
  <2> QED
    BY <1>11, <2>2, <2>3, <2>4 DEF PutLost
<1>12. CASE Issue(w) \/ IssueLost(w) \/ Refresh(w) \/ RefreshLost(w) \/ Ready(w) \/ ReadyLost(w)
  <2>1. /\ pc'[w] \in {"issue", "refresh", "ready", "dead", After(w, "issue"), After(w, "refresh"), After(w, "ready")}
        /\ pc[w] \in {"issue", "refresh", "ready"} /\ UNCHANGED verdict
    BY <1>12, CallMoved DEF Issue, IssueLost, Refresh, RefreshLost, Ready, ReadyLost, history
  <2>2. pc'[w] \notin {"stamp", "labels", "get", "put", "verify"}
    BY <2>1, AfterThat
  <2> QED
    BY <1>2, <2>1, <2>2, LateAway
<1>13. CASE Miss(w)
  <2>1. /\ pc[w] \in {"look", "get"} /\ pc'[w] = After(w, "body") /\ attempt' = attempt
        /\ verdict'[w] = "unresolved"
    BY <1>13, MissMoves
  <2>2. pc'[w] \notin {"stamp", "labels", "get", "put", "verify"}
    BY <2>1, AfterThat
  <2> QED
    BY <1>2, <2>1, <2>2, LateGoesOn DEF Attempting
<1> QED
  BY <1>1, <1>3, <1>4, <1>5, <1>6, <1>7, <1>8, <1>9, <1>10, <1>11, <1>12, <1>13 DEF Works, Fails

LEMMA LateStep == ASSUME CountedInv, LateInv, [Next]_vars PROVE LateInv'
<1>1. Shape /\ Shape' /\ PlaceInv
  BY CountedStep DEF CountedInv
<1>2. ASSUME NEW w \in Writers, pc'[w] = pc[w], asked'[w] = asked[w], attempt'[w] = attempt[w], verdict'[w] = verdict[w]
      PROVE  Late(w)'
  <2>1. ~Begin(w)
    BY <1>1, <1>2, AfterBegin DEF Begin, Goto, Shape, CallTypes
  <2> QED
    BY <1>1, <1>2, <2>1, LateByOthers DEF LateInv
<1>3. ASSUME NEW w \in Writers, Works(w) \/ Fails(w) \/ SendBack(w), NEW v \in Writers PROVE Late(v)'
  <2>1. CASE v = w
    BY <1>1, <1>3, <2>1, LateOfOwn DEF LateInv
  <2>2. CASE v # w
    BY <1>1, <1>2, <1>3, <2>2, OthersKeep
  <2> QED
    BY <2>1, <2>2
<1>4. CASE Edit \/ UNCHANGED vars
  BY <1>2, <1>4 DEF Edit, vars, run, history, LateInv
<1> QED
  BY <1>3, <1>4 DEF Next, LateInv

PatienceInv == CountedInv /\ LateInv

\* A patch is given up only after as many writes of others and lost calls as
\* there are attempts: no attempt is wasted by the patch itself.
THEOREM GivenUpLate == Spec => []GivesUpLate
<1>1. Init => PatienceInv
  <2>1. Init => LateInv
    BY DEF Init, LateInv, Late, Attempting
  <2> QED
    BY <2>1, CountedStarts DEF PatienceInv
<1>2. PatienceInv /\ [Next]_vars => PatienceInv'
  BY CountedStep, LateStep DEF PatienceInv
<1>3. PatienceInv => GivesUpLate
  <2> SUFFICES ASSUME PatienceInv PROVE GivesUpLate
    OBVIOUS
  <2>1. \A w \in Writers : Spent(w) \in Nat /\ (verdict[w] = "given up" => MaxAttempts <= Spent(w))
    BY SpentIsNat DEF PatienceInv, CountedInv, LateInv, Late
  <2>2. \A m, n \in Nat : m <= n => n >= m
    OBVIOUS
  <2>3. \A w \in Writers : verdict[w] = "given up" => Spent(w) >= MaxAttempts
    BY <2>1, <2>2, Numbers
  <2> QED
    BY <2>3 DEF GivesUpLate, Spent
<1> QED
  BY <1>1, <1>2, <1>3, PTL DEF Spec
=============================================================================
