--------------------------- MODULE IndexAndQuery ---------------------------
(***************************************************************************)
(* One `corpusqa index' process and one `corpusqa query' process over the  *)
(* same catalog and markdown cache; nothing locks either.  The index run   *)
(* is IndexPipeline, its Judge action replaced by pass 2 of a sweep        *)
(* (corpusqa/query/pipeline.py), which holds the text of its candidates    *)
(* from planning, through the user's confirmation of the cost, until each  *)
(* file is judged.                                                         *)
(*                                                                         *)
(* One question is asked, again and again, so derived[c] is c's verdict.   *)
(***************************************************************************)
EXTENDS IndexPipeline

VARIABLES
    stage,      \* "none", "plan" or "judge": where the query is
    pending,    \* candidates still to be planned
    looked,     \* the candidate whose text has been read and whose stored
                \* verdict has not been looked up yet, or Nil
    held,       \* age of the text the query holds of c with respect to <c>.md
    ended,      \* how the last query ended
    raced,      \* contents reconverted while a query held their text
    halfway,    \* contents with a verdict an index run was reconverting when it
                \* died after the markdown
    dropped     \* candidates whose row an index run has deleted; kept when the
                \* query dies of a missing row or text

queryVars == <<stage, pending, looked, held, ended, raced, halfway, dropped>>
allVars   == <<vars, queryVars>>

Endings == {"none", "answered", "declined", "crashed", "no_text", "no_row"}

QueryTypeOK ==
    /\ TypeOK
    /\ stage \in {"none", "plan", "judge"}
    /\ pending \in SUBSET Contents
    /\ looked \in MaybeContent
    /\ held \in [Contents -> Ages]
    /\ ended \in Endings
    /\ raced \in SUBSET Contents
    /\ halfway \in SUBSET Contents
    /\ dropped \in SUBSET Contents

HoldsNothing == [c \in Contents |-> Nil]

QueryInit ==
    /\ Init
    /\ stage = "none"
    /\ pending = {}
    /\ looked = Nil
    /\ held = HoldsNothing
    /\ ended = "none"
    /\ raced = {}
    /\ halfway = {}
    /\ dropped = {}

EndQuery(how) ==
    /\ stage' = "none"
    /\ pending' = {}
    /\ looked' = Nil
    /\ held' = HoldsNothing
    /\ ended' = how
    /\ dropped' = IF how \in {"no_text", "no_row"} THEN dropped ELSE {}
    /\ UNCHANGED <<raced, halfway>>

\* A file the query still needs the text or the row of.
Candidate(c) == c \in pending \/ held[c] # Nil

----------------------------------------------------------------------------
(* The query.                                                              *)

\* run_query: all_parseable_files() are the candidates of a sweep.
Ask ==
    /\ stage = "none"
    /\ stage' = "plan"
    /\ pending' = {c \in Contents : row[c] # Nil /\ row[c].visible}
    /\ ended' = "none" /\ dropped' = {}
    /\ UNCHANGED <<vars, looked, held, raced, halfway>>

\* _plan_pass2 reads a candidate's markdown ...
ReadText ==
    /\ stage = "plan" /\ looked = Nil
    /\ \E c \in pending :
          /\ md[c] # Nil
          /\ pending' = pending \ {c}
          /\ looked' = c
          /\ held' = [held EXCEPT ![c] = "current"]
    /\ UNCHANGED <<vars, stage, ended, raced, halfway, dropped>>

\* ... and then looks for a stored verdict; a file that has one is answered from
\* it, the text of any other is kept.
LookUp ==
    /\ stage = "plan" /\ looked # Nil
    /\ held' = IF derived[looked] = Nil THEN held ELSE [held EXCEPT ![looked] = Nil]
    /\ looked' = Nil
    /\ UNCHANGED <<vars, stage, pending, ended, raced, halfway, dropped>>

\* Seeded defect: missing markdown is waited for.
PlanWaits ==
    /\ stage = "plan" /\ looked = Nil
    /\ \E c \in pending : md[c] = Nil
    /\ UNCHANGED allVars

\* The markdown of a candidate is gone: FileNotFoundError.
PlanFails ==
    /\ stage = "plan" /\ looked = Nil
    /\ \E c \in pending : md[c] = Nil
    /\ EndQuery("no_text")
    /\ UNCHANGED vars

\* The budget gate lets the run through, or the user says no.
Confirm ==
    /\ stage = "plan" /\ pending = {} /\ looked = Nil
    /\ \/ stage' = "judge" /\ UNCHANGED <<pending, looked, held, ended, raced, halfway, dropped>>
       \/ EndQuery("declined")
    /\ UNCHANGED vars

\* put_evaluation: the foreign key refuses a verdict whose file has no row any
\* more.  That IntegrityError passes _one and gather, and the run is over.
Store(c) ==
    \/ /\ row[c] # Nil
       /\ derived' = [derived EXCEPT ![c] = held[c]]
       /\ held' = [held EXCEPT ![c] = Nil]
       /\ UNCHANGED <<stage, pending, looked, ended, raced, halfway, dropped>>
    \/ /\ row[c] = Nil
       /\ EndQuery("no_row")
       /\ UNCHANGED derived

\* Candidates are judged concurrently, so in any order.
JudgeOne ==
    /\ stage = "judge"
    /\ \E c \in Contents :
          /\ held[c] # Nil
          /\ \/ Store(c)
             \/ /\ held' = [held EXCEPT ![c] = Nil]     \* not a clean verdict
                /\ UNCHANGED <<derived, stage, pending, looked, ended, raced, halfway, dropped>>
    /\ UNCHANGED <<disk, row, cache, runVars, ghosts>>

Answer ==
    /\ stage = "judge" /\ held = HoldsNothing
    /\ EndQuery("answered")
    /\ UNCHANGED vars

QueryCrash ==
    /\ Crashes
    /\ stage # "none"
    /\ EndQuery("crashed")
    /\ UNCHANGED vars

QueryStep == ReadText \/ LookUp \/ PlanFails \/ Confirm \/ JudgeOne \/ Answer

----------------------------------------------------------------------------
(* The index run beside it.                                                *)

\* The content whose markdown this step replaces.
Reconverted == IF pc = "convert" /\ pc' = "page_map" THEN {seen[at]} ELSE {}

\* What the query holds ages when a conversion replaces the markdown.  raced and
\* halfway forget a content when nothing is left that could be stale.
IndexRun ==
    /\ RunStep
    /\ held' = [c \in Contents |-> IF c \in Reconverted THEN Age(held[c]) ELSE held[c]]
    /\ raced' = {c \in raced \cup Reconverted : held[c] # Nil \/ (c \in raced /\ derived'[c] # Nil)}
    /\ halfway' = {c \in halfway : derived'[c] # Nil}
    /\ dropped' = dropped \cup
          {c \in Contents : Candidate(c) /\ row[c] # Nil /\ row'[c] = Nil}
    /\ UNCHANGED <<stage, pending, looked, ended>>

\* A run that dies between the markdown and the upsert leaves what hangs on the
\* row, where there is one.
IndexCrash ==
    /\ Crash
    /\ halfway' = halfway \cup {c \in Contents : /\ pc \in {"page_map", "upsert"} /\ seen[at] = c
                                                /\ derived[c] # Nil}
    /\ UNCHANGED <<stage, pending, looked, held, ended, raced, dropped>>

IndexElse ==
    /\ StartRun \/ Edit
    /\ UNCHANGED queryVars

QueryNext == IndexRun \/ IndexCrash \/ IndexElse \/ Ask \/ QueryStep \/ QueryCrash

QuerySpec == QueryInit /\ [][QueryNext]_allVars

\* Two processes that keep going once started: model calls and conversions
\* return or fail.  Nobody is obliged to ask, to start an index run or to edit.
FairQuerySpec ==
    QuerySpec /\ WF_allVars(QueryStep) /\ WF_allVars(IndexRun)

----------------------------------------------------------------------------
(* Properties.                                                             *)

\* The foreign key holds whatever the two processes do: no verdict of a file
\* that has no row.
VerdictHasRow == \A c \in Contents : derived[c] # Nil => row[c] # Nil

\* There are two ways only to a verdict older than the markdown beside it: the
\* file was reconverted while a query held the text, or an index run that was
\* reconverting it died after the markdown.
StaleOnlyByRaceOrCrash ==
    pc = "idle" => \A c \in Contents : derived[c] = "stale" => c \in raced \cup halfway

\* A query fails as a whole when one candidate's markdown or row is gone, so
\* nothing may go under a query's hands but what an index run has meanwhile
\* deleted: moves, reconversions, failed conversions and crashed runs leave
\* every other candidate its row and its text until it is judged.
DiesOnlyOfDeletion ==
    /\ stage = "none" /\ ended \in {"no_text", "no_row"} => dropped # {}
    /\ \A c \in Contents \ dropped : Candidate(c) => row[c] # Nil /\ md[c] # Nil

\* Neither process can hold the other up for ever, whatever one removes under
\* the other's hands: a query comes to an end, and so does an index run.
BothEnd == /\ stage # "none" ~> stage = "none"
           /\ pc # "idle" ~> pc = "idle"
=============================================================================
