------------------------------ MODULE ItemWrites -------------------------------
(***************************************************************************)
(* What the result of a step asks for, once the step is over: its status,  *)
(* label changes, a rewritten body or one section of it, a new work item.  *)
(* _apply_result performs these one call at a time on an item that other   *)
(* steps and people write to as well; GitHub knows no conditional write of *)
(* a body, and a call whose answer is lost is sent again (_request).       *)
(***************************************************************************)
EXTENDS Integers, FiniteSets, Sequences

CONSTANTS
    Writers,       \* the steps at work on the item
    Sections,      \* the subsections of the todos block
    Section,       \* Section[w]: the one that w patches, or Whole if it replaces the body
    Whole,
    Unsure,        \* the steps whose body write may have no target: a pull request that is
                   \* not there, or the issue when the item is a pull request
    Ticks,         \* the entries of a subsection that can be checked
    Labels,
    Requested,     \* Requested[w]: the labels its result asks for
    Allowed,       \* Allowed[w]: its allowed_labels
    Raisers,       \* the steps whose result asks for a new work item ...
    Declared,      \* ... and those that declare creates_issues
    Opening,       \* the steps that have a pull request marked ready (review_gate, post_steps)
    MaxAttempts,   \* _BODY_WRITE_MAX_ATTEMPTS
    MaxRetries,    \* GitHubClient._MAX_RETRIES
    MaxEdits,      \* bound: what a person does to the body
    MaxReruns,     \* bound: steps that are sent back to be done again
    MaxFaults      \* bound: lost calls and answers, crashes

Person == "person"
Authors == Writers \cup {Person}

ASSUME ItemWritesAssumption ==
    /\ Person \notin Writers
    /\ Whole \notin Sections
    /\ Section \in [Writers -> Sections \cup {Whole}]
    /\ Requested \in [Writers -> SUBSET Labels]
    /\ Allowed \in [Writers -> SUBSET Labels]
    /\ Raisers \cup Opening \cup Unsure \subseteq Writers
    /\ {MaxAttempts, MaxRetries, MaxEdits, MaxReruns, MaxFaults} \subseteq Nat
    /\ MaxAttempts > 0

VARIABLES
    body,      \* the body of the item
    snaps,     \* the snapshot comments
    labels,    \* the labels the requests have put on the item
    raised,    \* raised[w]: the work items raised for w
    opened,    \* the steps for which the pull request was marked ready

    pc,        \* where the run of a step is
    asked,     \* asked[w]: the body write in its result: the body, or the section, it holds
    read,      \* read[w]: the body as the patch of w last read it
    kept,      \* kept[w]: the prose w is about to post as a snapshot
    pending,   \* pending[w]: the label changes that are still to be made
    attempt,   \* attempt[w]: of the patch, from 1
    tries,     \* tries[w]: of the call it is in, from 0
    stamped,   \* the steps whose status is recorded

    checked,   \* history: every entry that was ever checked
    buried,    \* history: checked entries that a patch wrote over unseen, or a new body left out
    since,     \* since[w]: history: the prose that came into the body since w took its snapshot
    displaced, \* history: whose replacement took which prose away
    stamps,    \* stamps[w]: history: how often a status was recorded for w
    verdict,   \* verdict[w]: history: how its body write ended
    rivals,    \* rivals[w]: history: writes of others during the patch of w
    lost,      \* lost[w]: history: calls to raise a work item whose answer was lost
    edits,
    reruns,
    faults

item    == <<body, snaps, labels, raised, opened>>
run     == <<pc, asked, read, kept, pending, attempt, tries, stamped>>
history == <<checked, buried, since, displaced, stamps, verdict, rivals, lost>>
spent   == <<edits, reruns>>
vars    == <<item, run, history, spent, faults>>

\* A text of the body around the todos block: its author and a number.
Proses == Authors \X (0..MaxEdits)
Todos  == [Sections -> SUBSET Ticks]
\* The subsections with a START marker and no END.
Torn   == SUBSET Sections
Bodies == [prose : Proses, todos : Todos, torn : Torn]
Items  == Sections \X Ticks

Checked(b) == {i \in Items : i[2] \in b.todos[i[1]]}

Replaces(w) == Section[w] = Whole

Places == {"off", "stamp", "labels", "look", "snap", "keep", "get", "put", "verify",
           "issue", "refresh", "ready", "done", "dead"}

TypeOK ==
    /\ body \in Bodies
    /\ snaps \subseteq (Writers \X Proses)
    /\ labels \subseteq Labels
    /\ raised \in [Writers -> 0..(1 + MaxReruns + MaxFaults)]
    /\ opened \subseteq Opening
    /\ pc \in [Writers -> Places]
    /\ asked \in [Writers -> Bodies]
    /\ read \in [Writers -> Bodies]
    /\ kept \in [Writers -> Proses]
    /\ pending \in [Writers -> SUBSET Labels]
    /\ attempt \in [Writers -> 1..MaxAttempts]
    /\ tries \in [Writers -> 0..MaxRetries]
    /\ stamped \subseteq Writers
    /\ checked \subseteq Items
    /\ buried \subseteq Items
    /\ since \in [Writers -> SUBSET Proses]
    /\ displaced \subseteq (Writers \X Proses)
    /\ stamps \in [Writers -> 0..(1 + MaxReruns)]
    /\ verdict \in [Writers -> {"none", "written", "refused", "unresolved", "raised", "given up"}]
    /\ rivals \in [Writers -> Nat]
    /\ lost \in [Writers -> 0..MaxFaults]
    /\ edits \in 0..MaxEdits
    /\ reruns \in 0..MaxReruns
    /\ faults \in 0..MaxFaults

FirstBody == [prose |-> <<Person, 0>>, todos |-> [s \in Sections |-> {}], torn |-> {}]

Init ==
    /\ body = FirstBody
    /\ snaps = {}
    /\ labels = {}
    /\ raised = [w \in Writers |-> 0]
    /\ opened = {}
    /\ pc = [w \in Writers |-> "off"]
    /\ asked = [w \in Writers |-> FirstBody]
    /\ read = [w \in Writers |-> FirstBody]
    /\ kept = [w \in Writers |-> FirstBody.prose]
    /\ pending = [w \in Writers |-> {}]
    /\ attempt = [w \in Writers |-> 1]
    /\ tries = [w \in Writers |-> 0]
    /\ stamped = {}
    /\ checked = {}
    /\ buried = {}
    /\ since = [w \in Writers |-> {}]
    /\ displaced = {}
    /\ stamps = [w \in Writers |-> 0]
    /\ verdict = [w \in Writers |-> "none"]
    /\ rivals = [w \in Writers |-> 0]
    /\ lost = [w \in Writers |-> 0]
    /\ edits = 0
    /\ reruns = 0
    /\ faults = 0

Fault == faults < MaxFaults /\ faults' = faults + 1

Goto(w, where) == pc' = [pc EXCEPT ![w] = where]

\* What the process of w has in memory is not needed any more.
Forget(w) ==
    /\ asked' = [asked EXCEPT ![w] = FirstBody]
    /\ read' = [read EXCEPT ![w] = FirstBody]
    /\ kept' = [kept EXCEPT ![w] = FirstBody.prose]
    /\ pending' = [pending EXCEPT ![w] = {}]
    /\ attempt' = [attempt EXCEPT ![w] = 1]

----------------------------------------------------------------------------
(* Calls *)

\* The call of w was answered, and w goes on.
Answered(w, where) ==
    /\ Goto(w, where)
    /\ tries' = [tries EXCEPT ![w] = 0]
    /\ UNCHANGED faults

\* There is no answer, or a transient one: the same call is sent again.
Resend(w) ==
    /\ Fault
    /\ tries[w] < MaxRetries
    /\ tries' = [tries EXCEPT ![w] = @ + 1]
    /\ UNCHANGED pc

\* That was the last of them: an exception takes the run to "where".
Raise(w, where) ==
    /\ Fault
    /\ tries[w] = MaxRetries
    /\ tries' = [tries EXCEPT ![w] = 0]
    /\ Goto(w, where)

\* The label requests that pass the filter.
Clears(w) == Requested[w] \cap Allowed[w]

\* mutant: the work item is raised before the status is recorded
OrderIssueFirst == <<"begin", "issue", "stamp", "labels", "body", "refresh", "ready">>

\* The order in which _apply_result does what a result asks for.
Order == <<"begin", "stamp", "labels", "body", "issue", "refresh", "ready">>

Asks(w, what) ==
    CASE what = "labels" -> Clears(w) # {}
      [] what = "issue"  -> w \in Raisers \cap Declared
      [] what = "ready"  -> w \in Opening
      [] OTHER           -> TRUE

\* Where each begins: a patch with the body, a replacement with the comments.
Enter(w, what) ==
    IF what # "body" THEN what ELSE IF Replaces(w) THEN "look" ELSE "get"

\* The effects asked for that come after one, by their place in the order.
Later(w, what) ==
    {k \in DOMAIN Order : Asks(w, Order[k]) /\ \E n \in 1..(k - 1) : Order[n] = what}

First(S) == CHOOSE k \in S : \A n \in S : k <= n

Following(w, what) ==
    IF Later(w, what) = {} THEN "done" ELSE Enter(w, Order[First(Later(w, what))])

Step == [w \in Writers |-> [what \in {Order[k] : k \in DOMAIN Order} |-> Following(w, what)]]

After(w, what) == Step[w][what]

\* Every write to the body, by whoever it is.
Write(who, b) ==
    /\ body' = b
    /\ checked' = checked \cup Checked(b)
    /\ rivals' = [w \in Writers |->
                    IF w # who /\ pc[w] \in {"get", "put", "verify"} THEN rivals[w] + 1
                                                                     ELSE rivals[w]]
    /\ since' = [w \in Writers |->
                    IF w # who /\ (pc[w] = "keep" \/ \E s \in snaps : s[1] = w)
                    THEN since[w] \cup {b.prose} ELSE since[w]]

----------------------------------------------------------------------------
(* The run, up to its status *)

\* The step returns a body write: a body of its own, whatever is in the one there is
\* (but with every END: it is people who lose them here), or new entries for its subsection.
Begin(w) ==
    /\ pc[w] = "off"
    /\ Goto(w, After(w, "begin"))
    /\ IF Replaces(w)
       THEN \E todos \in Todos :
              asked' = [asked EXCEPT ![w] = [prose |-> <<w, 0>>, todos |-> todos, torn |-> {}]]
       ELSE \E content \in SUBSET Ticks :
              asked' = [asked EXCEPT ![w] = [FirstBody EXCEPT !.todos[Section[w]] = content]]
    /\ attempt' = [attempt EXCEPT ![w] = 1]
    /\ verdict' = [verdict EXCEPT ![w] = "none"]
    /\ rivals' = [rivals EXCEPT ![w] = 0]
    /\ UNCHANGED <<item, read, kept, pending, tries, stamped, checked, buried, since, displaced,
                   stamps, lost, spent, faults>>

\* It comes back with a result, and its status is recorded.  The label requests
\* that clear allowed_labels come next.
Stamp(w) ==
    /\ pc[w] = "stamp"
    /\ Goto(w, After(w, "stamp"))
    /\ stamped' = stamped \cup {w}
    /\ stamps' = [stamps EXCEPT ![w] = @ + 1]
    /\ pending' = [pending EXCEPT ![w] = Clears(w)]
    /\ UNCHANGED <<item, asked, read, kept, attempt, tries, checked, buried, since, displaced,
                   verdict, rivals, lost, spent, faults>>

\* The process goes.  Only a run whose status is not recorded is taken up again.
Crash(w) ==
    /\ pc[w] \notin {"off", "done", "dead"}
    /\ Fault
    /\ Goto(w, "dead")
    /\ tries' = [tries EXCEPT ![w] = 0]
    /\ Forget(w)
    /\ UNCHANGED <<item, stamped, history, spent>>

Reclaim(w) ==
    /\ pc[w] = "dead"
    /\ w \notin stamped
    /\ Goto(w, "off")
    /\ UNCHANGED <<item, asked, read, kept, pending, attempt, tries, stamped, history,
                   spent, faults>>

----------------------------------------------------------------------------
(* Label requests *)

LabelCall(w, l) == pc[w] = "labels" /\ l \in pending[w]

LabelDone(w, l) == pending' = [pending EXCEPT ![w] = @ \ {l}]

AfterLabel(w, l) == IF pending[w] = {l} THEN After(w, "labels") ELSE "labels"

Label(w, l) ==
    /\ LabelCall(w, l)
    /\ LabelDone(w, l)
    /\ labels' = labels \cup {l}
    /\ Answered(w, AfterLabel(w, l))
    /\ UNCHANGED <<body, snaps, raised, opened, asked, read, kept, attempt, stamped, history, spent>>

\* A request that cannot be met is passed over.
LabelLost(w, l) ==
    /\ LabelCall(w, l)
    /\ labels' \in {labels, labels \cup {l}}
    /\ \/ Resend(w) /\ UNCHANGED pending
       \/ Raise(w, AfterLabel(w, l)) /\ LabelDone(w, l)
    /\ UNCHANGED <<body, snaps, raised, opened, asked, read, kept, attempt, stamped, history, spent>>

----------------------------------------------------------------------------
(* A body write begins with its target *)

\* The target is not found: nothing is written, and the rest goes on.
Miss(w) ==
    /\ w \in Unsure
    /\ pc[w] = "look" \/ (pc[w] = "get" /\ attempt[w] = 1)
    /\ tries[w] = 0
    /\ Answered(w, After(w, "body"))
    /\ verdict' = [verdict EXCEPT ![w] = "unresolved"]
    /\ UNCHANGED <<item, asked, read, kept, pending, attempt, stamped, checked, buried, since,
                   displaced, stamps, rivals, lost, spent>>

----------------------------------------------------------------------------
(* A replaced body *)

\* The step has a snapshot on this item: it takes no second one.
HasSnapshot(w) == \E s \in snaps : s[1] = w

Look(w) ==
    /\ pc[w] = "look"
    /\ Answered(w, IF HasSnapshot(w) THEN "put" ELSE "snap")
    /\ UNCHANGED <<item, asked, read, kept, pending, attempt, stamped, history, spent>>

\* The body of the snapshot is read; from here on its prose can change unseen.
Snap(w) ==
    /\ pc[w] = "snap"
    /\ Answered(w, "keep")
    /\ kept' = [kept EXCEPT ![w] = body.prose]
    /\ UNCHANGED <<item, asked, read, pending, attempt, stamped, history, spent>>

Keep(w) ==
    /\ pc[w] = "keep"
    /\ snaps' = snaps \cup {<<w, kept[w]>>}
    /\ Answered(w, "put")
    /\ UNCHANGED <<body, labels, raised, opened, asked, read, kept, pending, attempt, stamped, history, spent>>

\* mutant: the body is replaced all the same
AfterSnapLostGoOn(w) == "put"

\* A call that raises ends the replacement.
AfterSnapLost(w) == After(w, "body")

SnapLost(w) ==
    /\ pc[w] \in {"look", "snap", "keep"}
    /\ \/ UNCHANGED snaps
       \/ pc[w] = "keep" /\ snaps' = snaps \cup {<<w, kept[w]>>}
    /\ \/ Resend(w) /\ UNCHANGED verdict
       \/ Raise(w, AfterSnapLost(w)) /\ verdict' = [verdict EXCEPT ![w] = "raised"]
    /\ UNCHANGED <<body, labels, raised, opened, asked, read, kept, pending, attempt, stamped,
                   checked, buried, since, displaced, stamps, rivals, lost, spent>>

----------------------------------------------------------------------------
(* A patched section *)

SectionOf(w, b) == b.todos[Section[w]]

\* mutant: no entry is looked for
RefusedNever(w, b) == FALSE

\* The section has no end, or checked_items_would_be_lost: the patch would drop an
\* entry that is checked.
Refused(w, b) == Section[w] \in b.torn \/ ~(SectionOf(w, b) \subseteq SectionOf(w, asked[w]))

\* apply_todos_patch: everything but the section as it was read.
Patched(w, b) == [b EXCEPT !.todos[Section[w]] = SectionOf(w, asked[w])]

\* mutant: one attempt less
MoreAttemptsButOne(n) == n + 1 < MaxAttempts

\* An attempt was in vain: the next one, or none.
MoreAttempts(n) == n < MaxAttempts

EndAttempt(w) ==
    IF MoreAttempts(attempt[w])
    THEN /\ attempt' = [attempt EXCEPT ![w] = @ + 1]
         /\ Goto(w, "get")
         /\ UNCHANGED verdict
    ELSE /\ Goto(w, After(w, "body"))
         /\ verdict' = [verdict EXCEPT ![w] = "given up"]
         /\ UNCHANGED attempt

\* mutant: a refusal ends the run
AfterRefusalStop(w) == "done"

\* The patch is refused: it is not made, and the rest goes on.
AfterRefusal(w) == After(w, "body")

Get(w) ==
    /\ pc[w] = "get"
    /\ read' = [read EXCEPT ![w] = body]
    /\ IF Refused(w, body)
       THEN /\ Answered(w, AfterRefusal(w))
            /\ verdict' = [verdict EXCEPT ![w] = "refused"]
       ELSE /\ Answered(w, "put")
            /\ UNCHANGED verdict
    /\ UNCHANGED <<item, asked, kept, pending, attempt, stamped, checked, buried, since, displaced,
                   stamps, rivals, lost, spent>>

\* The write is verified by its own fragment alone.
Verify(w) ==
    /\ pc[w] = "verify"
    /\ IF SectionOf(w, body) = SectionOf(w, asked[w])
       THEN /\ Goto(w, After(w, "body"))
            /\ verdict' = [verdict EXCEPT ![w] = "written"]
            /\ UNCHANGED attempt
       ELSE EndAttempt(w)
    /\ tries' = [tries EXCEPT ![w] = 0]
    /\ UNCHANGED <<item, asked, read, kept, pending, stamped, checked, buried, since, displaced,
                   stamps, rivals, lost, spent, faults>>

\* A call that raises ends the attempt.
AttemptLost(w) ==
    /\ Fault
    /\ tries[w] = MaxRetries
    /\ tries' = [tries EXCEPT ![w] = 0]
    /\ EndAttempt(w)

GetLost(w) ==
    /\ pc[w] \in {"get", "verify"}
    /\ \/ Resend(w) /\ UNCHANGED <<attempt, verdict>>
       \/ AttemptLost(w)
    /\ UNCHANGED <<item, asked, read, kept, pending, stamped, checked, buried, since, displaced,
                   stamps, rivals, lost, spent>>

----------------------------------------------------------------------------
(* The write of either *)

\* The checked entries a patch knew of: the body is read anew for each attempt.
Seen(w) == Checked(read[w])

\* update_body lands: the whole body is what w made of the one it had read.
Land(w) ==
    /\ Write(w, IF Replaces(w) THEN asked[w] ELSE Patched(w, read[w]))
    /\ buried' = buried \cup ((Checked(body) \ Checked(body'))
                               \ (IF Replaces(w) THEN {} ELSE Seen(w)))
    /\ displaced' = IF Replaces(w) /\ body.prose[1] = Person
                    THEN displaced \cup {<<w, body.prose>>} ELSE displaced

Put(w) ==
    /\ pc[w] = "put"
    /\ Land(w)
    /\ Answered(w, IF Replaces(w) THEN After(w, "body") ELSE "verify")
    /\ verdict' = IF Replaces(w) THEN [verdict EXCEPT ![w] = "written"] ELSE verdict
    /\ UNCHANGED <<snaps, labels, raised, opened, asked, read, kept, pending, attempt, stamped,
                   stamps, lost, spent>>

\* The write may have landed all the same, and lands once more with the next try.
PutLost(w) ==
    /\ pc[w] = "put"
    /\ \/ Land(w)
       \/ UNCHANGED <<body, checked, buried, since, displaced, rivals>>
    /\ \/ Resend(w) /\ UNCHANGED <<attempt, verdict>>
       \/ ~Replaces(w) /\ AttemptLost(w)
       \/ /\ Replaces(w)
          /\ Raise(w, After(w, "body"))
          /\ verdict' = [verdict EXCEPT ![w] = "raised"]
          /\ UNCHANGED attempt
    /\ UNCHANGED <<snaps, labels, raised, opened, asked, read, kept, pending, stamped,
                   stamps, lost, spent>>

----------------------------------------------------------------------------
(* The rest *)

\* create_issue and the comment that notes it.
Issue(w) ==
    /\ pc[w] = "issue"
    /\ raised' = [raised EXCEPT ![w] = @ + 1]
    /\ Answered(w, After(w, "issue"))
    /\ UNCHANGED <<body, snaps, labels, opened, asked, read, kept, pending, attempt, stamped,
                   history, spent>>

\* The answer is lost, whether or not the issue was raised.
IssueLost(w) ==
    /\ pc[w] = "issue"
    /\ \/ UNCHANGED <<raised, lost>>
       \/ /\ raised' = [raised EXCEPT ![w] = @ + 1]
          /\ lost' = [lost EXCEPT ![w] = @ + 1]
    /\ Resend(w) \/ Raise(w, After(w, "issue"))
    /\ UNCHANGED <<body, snaps, labels, opened, asked, read, kept, pending, attempt, stamped,
                   checked, buried, since, displaced, stamps, verdict, rivals, spent>>

\* get_issue_labels is the one call after the status that nothing catches.
Refresh(w) ==
    /\ pc[w] = "refresh"
    /\ Answered(w, After(w, "refresh"))
    /\ Forget(w)
    /\ UNCHANGED <<item, stamped, history, spent>>

RefreshLost(w) ==
    /\ pc[w] = "refresh"
    /\ Resend(w) \/ Raise(w, "dead")
    /\ Forget(w)
    /\ UNCHANGED <<item, stamped, history, spent>>

\* The pull request is marked ready and the hooks run.
Ready(w) ==
    /\ pc[w] = "ready"
    /\ opened' = opened \cup {w}
    /\ Answered(w, After(w, "ready"))
    /\ UNCHANGED <<body, snaps, labels, raised, asked, read, kept, pending, attempt, stamped,
                   history, spent>>

ReadyLost(w) ==
    /\ pc[w] = "ready"
    /\ opened' \in {opened, opened \cup {w}}
    /\ Resend(w) \/ Raise(w, After(w, "ready"))
    /\ UNCHANGED <<body, snaps, labels, raised, asked, read, kept, pending, attempt, stamped,
                   history, spent>>

----------------------------------------------------------------------------
(* People *)

\* A person rewrites the text, checks an entry, or loses an END marker.
Edit ==
    /\ edits < MaxEdits
    /\ edits' = edits + 1
    /\ \/ Write(Person, [body EXCEPT !.prose = <<Person, edits'>>])
       \/ \E i \in Items \ Checked(body) :
            Write(Person, [body EXCEPT !.todos[i[1]] = @ \cup {i[2]}])
       \/ \E s \in Sections \ body.torn : Write(Person, [body EXCEPT !.torn = @ \cup {s}])
    /\ UNCHANGED <<snaps, labels, raised, opened, run, buried, displaced, stamps, verdict, lost,
                   reruns, faults>>

\* The status is taken off the item, by a person or by the review loop: the
\* step is to be done once more.
SendBack(w) ==
    /\ reruns < MaxReruns
    /\ reruns' = reruns + 1
    /\ pc[w] \in {"done", "dead"}
    /\ w \in stamped
    /\ stamped' = stamped \ {w}
    /\ Goto(w, "off")
    /\ UNCHANGED <<item, asked, read, kept, pending, attempt, tries, history, edits, faults>>

Works(w) ==
    \/ Begin(w) \/ Stamp(w) \/ Reclaim(w)
    \/ \E l \in Labels : Label(w, l)
    \/ Miss(w) \/ Look(w) \/ Snap(w) \/ Keep(w)
    \/ Get(w) \/ Put(w) \/ Verify(w)
    \/ Issue(w) \/ Refresh(w) \/ Ready(w)

Fails(w) ==
    \/ Crash(w) \/ \E l \in Labels : LabelLost(w, l)
    \/ SnapLost(w) \/ GetLost(w) \/ PutLost(w) \/ IssueLost(w) \/ RefreshLost(w) \/ ReadyLost(w)

Next ==
    \/ \E w \in Writers : Works(w) \/ Fails(w) \/ SendBack(w)
    \/ Edit

Spec == Init /\ [][Next]_vars

\* The orchestrator goes on; no person has to do anything.
Fairness == WF_vars(\E w \in Writers : Works(w))

FairSpec == Spec /\ Fairness

----------------------------------------------------------------------------
(* Properties *)

\* A patch takes a checked entry away only if it was checked after that patch had read
\* the body, however the writes of patches, replacements and people fall together
\* (checked_items_would_be_lost).  A new body is not asked for what it leaves out.
OnlyUnseenIsLost == checked \subseteq Checked(body) \cup buried

\* PRODUCT.md, "What lands on the issue": "A step touches only the subsection it owns,
\* and never removes a checked item."
ChecksAreKept ==
    [][\A w \in Writers : Put(w) => Checked(body) \subseteq Checked(body')]_vars

\* A person's text that a replacement took away is in a snapshot, unless it
\* came into the body after that step had taken its one snapshot of the item
\* (_snapshot_body_if_first_replace).
OriginalsAreKept ==
    \A d \in displaced :
        \/ \E s \in snaps : s[2] = d[2]
        \/ d[2] \in since[d[1]]

\* However often a run dies and is done again, a step raises one work item for
\* each status that was recorded for it; a second one takes a lost answer.
RaisedOnce == \A w \in Writers : raised[w] <= stamps[w] + lost[w]

\* A patch is not given up but after as many writes of others and lost calls
\* as there are attempts.
GivesUpLate ==
    \A w \in Writers : verdict[w] = "given up" => rivals[w] + faults >= MaxAttempts

\* The body write was made, or refused, or had no target, or lost every attempt to others.
Settled(w) ==
    \/ verdict[w] \in {"written", "refused", "unresolved"}
    \/ verdict[w] = "given up" /\ rivals[w] >= MaxAttempts

Served(w) ==
    /\ Clears(w) \subseteq labels
    /\ Settled(w)
    /\ w \in Raisers \cap Declared => raised[w] >= stamps[w]
    /\ w \in Opening => w \in opened

\* While no call is lost and no process dies, whatever the people and the other steps
\* write, a recorded status is followed by the labels, the work item and the open pull
\* request its result asks for, and by an end of its body write: one that is refused,
\* has no target or loses to others stops nothing else (_apply_result, _apply_body_write).
EffectsFollow == [](faults = 0) => \A w \in Writers : w \in stamped ~> Served(w)
===============================================================================
