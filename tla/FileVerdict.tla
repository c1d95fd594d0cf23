---------------------------- MODULE FileVerdict ----------------------------
(***************************************************************************)
(* What extracting one file promises: its sections are judged one by one,  *)
(* each yielding a whole value, a part of one, or nothing, and the file's  *)
(* outcome says which happened.  A verdict is "clean" only when every      *)
(* section gave a whole value, and only a clean verdict that no fallback   *)
(* model touched is cached under the primary model's name.                 *)
(***************************************************************************)
EXTENDS Naturals

CONSTANT NSections      \* sections planned for the file

VARIABLES
    judged,     \* sections judged so far
    some,       \* did a section give a value
    flawed,     \* did a section give a part of a value, or none
    fell,       \* did a fallback model serve a call
    outcome,    \* "running", "clean", "partial" or "failed"
    cached      \* is the verdict stored under the primary model's name

vars == <<judged, some, flawed, fell, outcome, cached>>

Init ==
    /\ judged = 0
    /\ some = FALSE
    /\ flawed = FALSE
    /\ fell = FALSE
    /\ outcome = "running"
    /\ cached = FALSE

\* A fallback model answers a call, whatever becomes of the answer.
FallBack ==
    /\ outcome = "running" /\ judged < NSections
    /\ fell' = TRUE
    /\ UNCHANGED <<judged, some, flawed, outcome, cached>>

Judge ==
    /\ outcome = "running" /\ judged < NSections
    /\ judged' = judged + 1
    /\ \/ some' = TRUE /\ flawed' = flawed      \* a whole value
       \/ some' = TRUE /\ flawed' = TRUE        \* a part of one
       \/ some' = some /\ flawed' = TRUE        \* nothing
    /\ fell' \in {fell, TRUE}
    /\ UNCHANGED <<outcome, cached>>

Conclude ==
    /\ outcome = "running" /\ judged = NSections
    /\ outcome' = IF ~some THEN "failed" ELSE IF flawed THEN "partial" ELSE "clean"
    /\ cached' = (outcome' = "clean" /\ ~fell)
    /\ UNCHANGED <<judged, some, flawed, fell>>

Next == FallBack \/ Judge \/ Conclude

Spec == Init /\ [][Next]_vars /\ WF_vars(Judge) /\ WF_vars(Conclude)
=============================================================================
