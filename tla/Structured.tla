----------------------------- MODULE Structured -----------------------------
(***************************************************************************)
(* What complete_structured() makes of model replies                       *)
(* (corpusqa/llm/structured.py).  A reply is reduced to what the code asks *)
(* of it: whether its text is empty, validates, or validates once salvaged,*)
(* and whether generation stopped at the length limit.                     *)
(***************************************************************************)
CONSTANT Nil        \* no value

Bodies == {"empty", "invalid", "salvageable", "valid"}

Replies == [body : Bodies, cut : BOOLEAN]

\* How much of the model's answer a value holds: all of it, only its complete
\* leading part, or what fits the limit the repair turn sets after an answer
\* that was cut off ("at most 8" findings).
Values == {"whole", "leading", "capped"}

ASSUME NilValueAssumption == Nil \notin Replies \cup Values

\* _try_validate: `salvage' is whether the caller passed on_salvaged.
TryValidate(r, salvage) ==
    IF r.body = "valid" THEN "whole"
    ELSE IF salvage /\ r.body = "salvageable" THEN "leading"
    ELSE Nil

\* The first reply: salvaged only when it stopped at the length limit, since a
\* repair turn would meet the same limit.
FirstValue(r) == TryValidate(r, r.cut)

\* A valid answer to the repair turn after a cut-off reply is a capped one: the
\* turn's prompt asks for at most 8 findings.
RepairValue(first, r) ==
    LET v == TryValidate(r, r.cut)
    IN IF v = "whole" /\ first.cut THEN "capped" ELSE v

\* Seeded defect: the last resort is taken after a length stop as well.
LastResortAlways(first, second) ==
    IF second.body = "salvageable" \/ first.body = "salvageable" THEN "leading" ELSE Nil

\* Seeded defect: the last resort tries the second attempt only.
LastResortOfSecond(first, second) ==
    IF first.cut \/ second.cut THEN Nil
    ELSE IF TryValidate(second, TRUE) # Nil
    THEN "leading" ELSE Nil

\* Invalid twice without a length stop: the complete part of either attempt.
LastResort(first, second) ==
    IF first.cut \/ second.cut THEN Nil
    ELSE IF \E r \in {second, first} : TryValidate(r, TRUE) # Nil
    THEN "leading" ELSE Nil
=============================================================================
