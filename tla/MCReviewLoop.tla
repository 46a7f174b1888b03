----------------------------- MODULE MCReviewLoop -----------------------------
(***************************************************************************)
(* ReviewLoop for TLC, with the cap of the shipped pipeline.json, a        *)
(* standard that a decision may waive and one that it may not.             *)
(***************************************************************************)
EXTENDS ReviewLoop

MCMaxCycles == 3

MCStandards == {"firm", "soft"}
MCOverridable == {"soft"}

Record(adr, status) == [id |-> adr, status |-> status, authorises |-> MCStandards]
MCDecisions == <<Record("old", "superseded"), Record("new", "accepted")>>

Defect(severity, sure, standard, adr) ==
    [category |-> "defect", severity |-> severity, sure |-> sure,
     standard |-> standard, adr |-> adr]

MCReviews ==
    {{},
     {Defect("High", TRUE, "soft", "new"), Defect("Medium", FALSE, "firm", NoRef)},
     {Defect("High", TRUE, "soft", "old")},
     {Defect("High", TRUE, "firm", "new")},
     {Defect("Critical", FALSE, NoRef, NoRef)}}
=============================================================================
