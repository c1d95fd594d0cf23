---------------------------- MODULE Extraction ----------------------------
(***************************************************************************)
(* extract_file() over complete_structured(): one file's sections, in      *)
(* document order, each with a first call and at most one repair call      *)
(* (corpusqa/query/extractor.py, corpusqa/llm/structured.py), and          *)
(* _Pass2Runner._extract's decision to cache (corpusqa/query/pipeline.py). *)
(*                                                                         *)
(* What a call returns is the environment's choice: any reply, from the    *)
(* primary model or a fallback, or an LLMError after the client's retries. *)
(***************************************************************************)
EXTENDS Naturals, Sequences, Structured

CONSTANT NSections

ASSUME SectionsAssumption == NSections \in Nat \ {0}

VARIABLES
    at,             \* the section being extracted; NSections + 1: all done
    first,          \* its first reply, while the repair call is out
    kept,           \* kept[s]: the value section s gave, or Nil
    failures,       \* sections that raised
    truncation,     \* sections for which on_truncated was called
    malformed,      \* sections for which on_malformed was called
    fallbacks,      \* sections a fallback served a call of (fallback_served)
    calls,          \* calls[s]: completions asked for section s
    met,            \* met[s]: the completions section s got, in order
    outcome,        \* "running", "clean", "partial" or "failed"
    cached          \* was the verdict stored under the primary model's name

vars == <<at, first, kept, failures, truncation, malformed, fallbacks, calls,
          met, outcome, cached>>

Sections == 1..NSections

\* A reply and whether a fallback model, not the task's primary, gave it.
Completions == [reply : Replies, fallback : BOOLEAN]

TypeOK ==
    /\ at \in 1..(NSections + 1)
    /\ first \in Replies \cup {Nil}
    /\ kept \in [Sections -> Values \cup {Nil}]
    /\ failures \in SUBSET Sections
    /\ truncation \in SUBSET Sections
    /\ malformed \in SUBSET Sections
    /\ fallbacks \in SUBSET Sections
    /\ calls \in [Sections -> 0..2]
    /\ met \in [Sections -> Seq(Completions)]
    /\ \A s \in Sections : Len(met[s]) <= 2
    /\ outcome \in {"running", "clean", "partial", "failed"}
    /\ cached \in BOOLEAN

Init ==
    /\ at = 1
    /\ first = Nil
    /\ kept = [s \in Sections |-> Nil]
    /\ failures = {}
    /\ truncation = {}
    /\ malformed = {}
    /\ fallbacks = {}
    /\ calls = [s \in Sections |-> 0]
    /\ met = [s \in Sections |-> <<>>]
    /\ outcome = "running"
    /\ cached = FALSE

\* Seeded defect: only the last completion of a section decides who served it.
GotLast(r, fallback) ==
    /\ calls' = [calls EXCEPT ![at] = @ + 1]
    /\ met' = [met EXCEPT ![at] = Append(@, [reply |-> r, fallback |-> fallback])]
    /\ fallbacks' = IF fallback THEN fallbacks \cup {at} ELSE fallbacks \ {at}

\* A completion arrived for the current section.
Got(r, fallback) ==
    /\ calls' = [calls EXCEPT ![at] = @ + 1]
    /\ met' = [met EXCEPT ![at] = Append(@, [reply |-> r, fallback |-> fallback])]
    /\ fallbacks' = IF fallback THEN fallbacks \cup {at} ELSE fallbacks

\* The section gave value v; salvaging a cut-off reply is reported.
Value(v, salvagedCut) ==
    /\ kept' = [kept EXCEPT ![at] = v]
    /\ truncation' = IF v = "leading" /\ salvagedCut
                     THEN truncation \cup {at} ELSE truncation
    /\ at' = at + 1
    /\ first' = Nil
    /\ UNCHANGED failures

\* Seeded defect: a section that raised leaves no trace.
RaiseUncounted ==
    /\ at' = at + 1
    /\ first' = Nil
    /\ UNCHANGED <<kept, failures, truncation, malformed>>

\* StructuredOutputError or LLMError: the section is skipped and counted.
Raise ==
    /\ failures' = failures \cup {at}
    /\ at' = at + 1
    /\ first' = Nil
    /\ UNCHANGED <<kept, truncation, malformed>>

\* The call itself failed: the first or the repair.
CallFails ==
    /\ at \in Sections
    /\ calls' = [calls EXCEPT ![at] = @ + 1]
    /\ Raise
    /\ UNCHANGED <<fallbacks, met, outcome, cached>>

\* Seeded defect: an empty reply is sent for repair as well.
FirstReplyRepairsEmpty ==
    /\ at \in Sections /\ first = Nil
    /\ \E r \in Replies, fallback \in BOOLEAN :
          /\ Got(r, fallback)
          /\ IF FirstValue(r) # Nil
             THEN Value(FirstValue(r), r.cut) /\ UNCHANGED malformed
             ELSE /\ first' = r
                  /\ UNCHANGED <<at, kept, failures, truncation, malformed>>
    /\ UNCHANGED <<outcome, cached>>

FirstReply ==
    /\ at \in Sections /\ first = Nil
    /\ \E r \in Replies, fallback \in BOOLEAN :
          /\ Got(r, fallback)
          /\ \/ r.body = "empty" /\ Raise
             \/ /\ r.body # "empty" /\ FirstValue(r) # Nil
                /\ Value(FirstValue(r), r.cut)
                /\ UNCHANGED malformed
             \/ /\ r.body # "empty" /\ FirstValue(r) = Nil
                /\ first' = r
                /\ UNCHANGED <<at, kept, failures, truncation, malformed>>
    /\ UNCHANGED <<outcome, cached>>

\* Seeded defect: a repair that does not validate is asked for again.
RepairReplyLoops ==
    /\ at \in Sections /\ first # Nil
    /\ \E r \in Replies, fallback \in BOOLEAN :
          /\ Got(r, fallback)
          /\ IF RepairValue(first, r) # Nil
             THEN Value(RepairValue(first, r), r.cut)
             ELSE UNCHANGED <<at, first, kept, failures, truncation>>
    /\ UNCHANGED <<malformed, outcome, cached>>

RepairReply ==
    /\ at \in Sections /\ first # Nil
    /\ \E r \in Replies, fallback \in BOOLEAN :
          LET v == RepairValue(first, r)
              w == LastResort(first, r)
          IN /\ Got(r, fallback)
             /\ \/ r.body = "empty" /\ Raise
                \/ /\ r.body # "empty" /\ v # Nil
                   /\ Value(v, r.cut)
                   /\ UNCHANGED malformed
                \/ /\ r.body # "empty" /\ v = Nil /\ w # Nil
                   /\ Value(w, FALSE)
                   /\ malformed' = malformed \cup {at}
                \/ r.body # "empty" /\ v = Nil /\ w = Nil /\ Raise
    /\ UNCHANGED <<outcome, cached>>

\* Only a clean verdict no fallback touched is stored.
Cacheable(out) == out = "clean" /\ fallbacks = {}

\* Seeded defect: a malformed section does not make the file partial.
OutcomeIgnoringMalformed ==
    IF \A s \in Sections : kept[s] = Nil THEN "failed"
    ELSE IF failures # {} \/ truncation # {} THEN "partial"
    ELSE "clean"

Outcome ==
    IF \A s \in Sections : kept[s] = Nil THEN "failed"
    ELSE IF failures # {} \/ truncation # {} \/ malformed # {} THEN "partial"
    ELSE "clean"

Conclude ==
    /\ at = NSections + 1 /\ outcome = "running"
    /\ outcome' = Outcome
    /\ cached' = Cacheable(Outcome)
    /\ UNCHANGED <<at, first, kept, failures, truncation, malformed, fallbacks,
                   calls, met>>

Next == CallFails \/ FirstReply \/ RepairReply \/ Conclude

\* Every call returns or raises (the client retries a bounded number of times).
Spec == Init /\ [][Next]_vars /\ WF_vars(Next)

----------------------------------------------------------------------------
(* Properties.                                                             *)

\* "No repair loops": a section costs at most two completions, and the second
\* only after a first that was not empty and did not validate.
OneSecondChance ==
    \A s \in Sections :
        /\ calls[s] <= 2
        /\ calls[s] = 2 =>
              Len(met[s]) >= 1 /\ met[s][1].reply.body \in {"invalid", "salvageable"}

Met(s) == {met[s][i].reply : i \in 1..Len(met[s])}

\* What complete_structured() gives up, and for what.  A section keeps a whole
\* answer exactly when it met a valid one, and one held to eight findings only
\* after one that was cut off.  It raises when no reply was valid, even if the
\* complete part of one could have been kept.  That part is given up only if its
\* reply stopped normally (a salvage would drop what follows the defect; the
\* repair is to recover it all) and the other reply then never came, was empty
\* or was cut off: the last resort wants two replies without a length stop.
GivenUp(s) ==
    \A r \in Met(s) :
        /\ r.body # "valid"
        /\ r.body = "salvageable" =>
              /\ ~r.cut
              /\ \/ Len(met[s]) < calls[s]
                 \/ \E q \in Met(s) : q.body = "empty" \/ q.cut

Settled(s) ==
    /\ kept[s] \in {"whole", "capped"} <=> \E r \in Met(s) : r.body = "valid"
    /\ kept[s] = "capped" => met[s][1].reply.cut
    /\ kept[s] = Nil => GivenUp(s)

SalvagedOrSuperseded == \A s \in Sections : s < at => Settled(s)

\* No part of an answer passes for the whole of it: whatever mix of cut-off,
\* malformed and failed replies the sections met, a verdict reported as clean
\* holds no section that raised and none of which only the start was kept.
CleanIsWhole ==
    outcome = "clean" =>
        \A s \in Sections : kept[s] \in {"whole", "capped"}

\* The reason given is the right one: "truncated" only when a reply was cut
\* off, "malformed" only when none was, since more max_tokens would not help.
BlameIsRight ==
    /\ \A s \in truncation : \E r \in Met(s) : r.cut
    /\ \A s \in malformed : \A r \in Met(s) : ~r.cut

\* The cache key names the primary model: a verdict with any call served by a
\* fallback, a discarded first attempt included, is never stored.
CachedIsPrimary ==
    cached => \A s \in Sections : \A i \in 1..Len(met[s]) : ~met[s][i].fallback

\* README: "Nothing fails silently".  A verdict reported as clean holds all
\* the findings the model had.
NoSilentLoss == outcome = "clean" => \A s \in Sections : kept[s] = "whole"

\* extract_file() keeps the promise of FileVerdict.
Promise == INSTANCE FileVerdict WITH
    judged  <- at - 1,
    some    <- \E s \in Sections : kept[s] # Nil,
    flawed  <- failures \cup truncation \cup malformed # {},
    fell    <- fallbacks # {}

KeepsPromise == Promise!Spec
=============================================================================
