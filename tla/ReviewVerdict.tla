---------------------------- MODULE ReviewVerdict ----------------------------
(***************************************************************************)
(* How the findings of a review become its outcome (review_outcome.py and  *)
(* _apply_outcome_policy).  The reviewing step reports findings and        *)
(* nothing it says about the verdict counts: the orchestrator computes it  *)
(* from the findings, the decisions (adrs.json), the standards and the     *)
(* people who have requested changes.                                      *)
(*                                                                         *)
(* A finding keeps what the verdict looks at.  A confidence is told apart  *)
(* only as below 0.8 or not.                                               *)
(***************************************************************************)
EXTENDS Integers, Sequences

CONSTANTS
    Standards,    \* the ids of standards that a finding can cite
    Adrs,         \* the ids of decision records
    NoRef         \* cites none

ASSUME RefAssumption == NoRef \notin Standards \cup Adrs

Severities == {"Critical", "High", "Medium", "Low", "Informational"}

\* What the schema of a review lets pass: a defect has a severity and an
\* improvement has none.
Findings ==
    [category : {"defect"}, severity : Severities, sure : BOOLEAN,
     standard : Standards \cup {NoRef}, adr : Adrs \cup {NoRef}]
    \cup
    [category : {"improvement"}, severity : {"none"}, sure : BOOLEAN,
     standard : Standards \cup {NoRef}, adr : Adrs \cup {NoRef}]

\* The records of adrs.json.
AdrRecords ==
    [id : Adrs, status : {"proposed", "accepted", "deprecated", "superseded"},
     authorises : SUBSET Standards]

\* What a record lets pass: only an accepted one does, and only for standards
\* that say of themselves that they can be overridden.
Granted(record, overridable) ==
    IF record.status = "accepted" THEN record.authorises \cap overridable ELSE {}

\* The record that a finding cites waives the standard that it cites.  Of several
\* records with one id the last that grants anything counts.
Waived(f, records, overridable) ==
    \E i \in DOMAIN records :
        /\ records[i].id = f.adr
        /\ f.standard \in Granted(records[i], overridable)
        /\ \A j \in DOMAIN records :
              j > i /\ records[j].id = f.adr => Granted(records[j], overridable) = {}

\* A finding stands in the way of an approval.
Blocks(f, records, overridable) ==
    /\ f.category # "improvement"
    /\ f.severity \notin {"Low", "Informational"}
    /\ ~Waived(f, records, overridable)
    /\ f.severity = "Critical" \/ f.sure

\* The findings by themselves would be an approval.
Clean(findings, records, overridable) ==
    ~\E f \in findings : Blocks(f, records, overridable)

\* Mutant of Approves: only findings count.
ApprovesUnasked(findings, objected, records, overridable) ==
    Clean(findings, records, overridable)

\* The verdict: nobody's request for changes is open and no finding blocks.
Approves(findings, objected, records, overridable) ==
    ~objected /\ Clean(findings, records, overridable)

\* Changes are requested, and that by people alone.
OnlyPeopleObject(findings, objected, records, overridable) ==
    objected /\ Clean(findings, records, overridable)
=============================================================================
