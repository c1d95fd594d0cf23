-------------------------- MODULE EvaluationCache --------------------------
(***************************************************************************)
(* The stored verdicts under query runs (corpusqa/query/pipeline.py, pass  *)
(* 2, over the evaluations table of corpusqa/catalog/store.py): each run   *)
(* plans from what is stored, judges the rest concurrently, stores every   *)
(* clean verdict as it comes and prunes old runs when it ends.  Several    *)
(* processes may query at once, die half way, or be told not to use the    *)
(* cache, and an index run may replace a file, which drops its verdicts.   *)
(*                                                                         *)
(* A question stands for its question_hash: the text, the definition, the  *)
(* relevance mode, the prompt and the section size.                        *)
(***************************************************************************)
EXTENDS Naturals, FiniteSets

CONSTANTS
    Procs,      \* query processes
    Questions,  \* question hashes
    Files,      \* visible files
    Runs,       \* run ids; one is reused when nothing remembers it
    KeepRuns,   \* eval_retention_runs
    MaxNow,     \* bound on the clock
    Nil

ASSUME KeepRunsAssumption == KeepRuns \in Nat \ {0}
ASSUME RunsAssumption == IsFiniteSet(Runs)   \* twelve hexadecimal digits
ASSUME MaxNowAssumption == MaxNow \in Nat
ASSUME NilRunAssumption == Nil \notin Runs /\ Nil \notin Questions

VARIABLES
    evals,      \* evals[q][f]: the stored verdict, or Nil
    now,        \* the clock of evaluated_at, in seconds
    asked,      \* asked[p]: the question p is answering, or Nil
    run,        \* run[p]: its run id, or Nil
    plan,       \* plan[p][f]: where f's verdict comes from
    stamp,      \* stamp[p]: the file whose verdict p is storing and the second
                \* it has read off the clock, or Nil
    bought      \* bought[q][f]: who bought the verdict, and the runs that
                \* stored others of the same second or a later one; Nil: none,
                \* or KeepRuns of those

vars == <<evals, now, asked, run, plan, stamp, bought>>

\* A row of the evaluations table, its key left out.
Verdicts == [run : Runs, at : 0..MaxNow]

Stamps == [file : Files, at : 0..MaxNow]

ASSUME VerdictAssumption == Nil \notin Verdicts \cup Stamps

TypeOK ==
    /\ evals \in [Questions -> [Files -> Verdicts \cup {Nil}]]
    /\ now \in 0..MaxNow
    /\ asked \in [Procs -> Questions \cup {Nil}]
    /\ run \in [Procs -> Runs \cup {Nil}]
    /\ plan \in [Procs -> [Files -> {"cached", "todo", "done"}]]
    /\ stamp \in [Procs -> Stamps \cup {Nil}]
    /\ bought \in [Questions -> [Files ->
                     [by : Runs, since : SUBSET Runs] \cup {Nil}]]

Init ==
    /\ evals = [q \in Questions |-> [f \in Files |-> Nil]]
    /\ now = 0
    /\ asked = [p \in Procs |-> Nil]
    /\ run = [p \in Procs |-> Nil]
    /\ plan = [p \in Procs |-> [f \in Files |-> "done"]]
    /\ stamp = [p \in Procs |-> Nil]
    /\ bought = [q \in Questions |-> [f \in Files |-> Nil]]

Stored == {evals[q][f] : q \in Questions, f \in Files} \ {Nil}

Writers == {v.run : v \in Stored}

\* Run ids are random; a new one is none that anything remembers.
FreshRuns ==
    LET buys == {bought[q][f] : q \in Questions, f \in Files} \ {Nil}
    IN Runs \ (Writers \cup {run[p] : p \in Procs} \cup {b.by : b \in buys}
                       \cup UNION {b.since : b \in buys})

----------------------------------------------------------------------------
(* A query run.                                                            *)

\* run_query up to the plan: stored verdicts are looked up for every
\* candidate, unless the run was told to ignore them.
Ask(p) ==
    /\ asked[p] = Nil
    /\ \E q \in Questions, r \in FreshRuns, useCache \in BOOLEAN :
          /\ asked' = [asked EXCEPT ![p] = q]
          /\ run' = [run EXCEPT ![p] = r]
          /\ plan' = [plan EXCEPT ![p] =
                [f \in Files |-> IF useCache /\ evals[q][f] # Nil
                                 THEN "cached" ELSE "todo"]]
    /\ UNCHANGED <<evals, now, stamp, bought>>

\* Judging is concurrent, storing is not: while p waits for the database no
\* other of its verdicts comes in.
Judging(p, f) == asked[p] # Nil /\ stamp[p] = Nil /\ plan[p][f] = "todo"

\* A clean verdict of the primary model: put_evaluation reads the clock for
\* the row it then waits to write.
JudgeClean(p, f) ==
    /\ Judging(p, f)
    /\ stamp' = [stamp EXCEPT ![p] = [file |-> f, at |-> now]]
    /\ UNCHANGED <<evals, now, asked, run, plan, bought>>

\* Partial, failed, or touched by a fallback model: not stored.
JudgeUnclean(p, f) ==
    /\ Judging(p, f)
    /\ plan' = [plan EXCEPT ![p][f] = "done"]
    /\ UNCHANGED <<evals, now, asked, run, stamp, bought>>

\* put_evaluation: one row per question and file, replaced and committed.
Put(q, f, r, t) ==
    evals' = [evals EXCEPT ![q][f] = [run |-> r, at |-> t]]

\* What r's purchase of q's verdict on f, of second t, does to the record of
\* purchases.
Record(q, f, r, t) ==
    LET others == {v.run : v \in {w \in Stored : t <= w.at}} \ {r}
        Age(g, h) == IF \/ bought[g][h] = Nil \/ bought[g][h].by = r
                        \/ t < evals[g][h].at
                     THEN bought[g][h]
                     ELSE [bought[g][h] EXCEPT !.since = @ \cup {r}]
        Drop(b) == IF b # Nil /\ Cardinality(b.since) >= KeepRuns THEN Nil ELSE b
    IN bought' = [g \in Questions |-> [h \in Files |->
            Drop(IF g = q /\ h = f THEN [by |-> r, since |-> others]
                                   ELSE Age(g, h))]]

\* The row is written, behind whatever other processes wrote in between.
Commit(p) ==
    /\ stamp[p] # Nil
    /\ Put(asked[p], stamp[p].file, run[p], stamp[p].at)
    /\ Record(asked[p], stamp[p].file, run[p], stamp[p].at)
    /\ plan' = [plan EXCEPT ![p][stamp[p].file] = "done"]
    /\ stamp' = [stamp EXCEPT ![p] = Nil]
    /\ UNCHANGED <<now, asked, run>>

EndQuery(p) ==
    /\ asked' = [asked EXCEPT ![p] = Nil]
    /\ run' = [run EXCEPT ![p] = Nil]
    /\ plan' = [plan EXCEPT ![p] = [f \in Files |-> "done"]]
    /\ stamp' = [stamp EXCEPT ![p] = Nil]

\* MAX(evaluated_at) of s is not above that of r.
NoLater(s, r) ==
    \A v \in Stored : v.run = s => \E w \in Stored : w.run = r /\ v.at <= w.at

\* Seeded defect: ORDER BY latest without DESC.
OldestRuns ==
    {K \in SUBSET Writers :
        /\ Cardinality(K) = KeepRuns \/ (Cardinality(K) < KeepRuns /\ K = Writers)
        /\ \A r \in K, s \in Writers \ K : NoLater(r, s)}

\* The KeepRuns most recent runs; which of two of one second is left open.
RecentRuns ==
    {K \in SUBSET Writers :
        /\ Cardinality(K) = KeepRuns \/ (Cardinality(K) < KeepRuns /\ K = Writers)
        /\ \A r \in K, s \in Writers \ K : NoLater(s, r)}

\* Every candidate handled: prune_evaluations, and the run is over.
Finish(p) ==
    /\ asked[p] # Nil
    /\ \A f \in Files : plan[p][f] # "todo"
    /\ \E K \in RecentRuns :
          evals' = [q \in Questions |-> [f \in Files |->
                IF evals[q][f] # Nil /\ evals[q][f].run \in K
                THEN evals[q][f] ELSE Nil]]
    /\ EndQuery(p)
    /\ UNCHANGED <<now, bought>>

\* The process dies or is interrupted: nothing is pruned.
Crash(p) ==
    /\ asked[p] # Nil
    /\ EndQuery(p)
    /\ UNCHANGED <<evals, now, bought>>

----------------------------------------------------------------------------
(* The environment.                                                        *)

Tick ==
    /\ now < MaxNow
    /\ now' = now + 1
    /\ UNCHANGED <<evals, asked, run, plan, stamp, bought>>

\* An index run replaces f; the cascade drops its verdicts.
Replace(f) ==
    /\ evals' = [q \in Questions |-> [evals[q] EXCEPT ![f] = Nil]]
    /\ bought' = [q \in Questions |-> [bought[q] EXCEPT ![f] = Nil]]
    /\ UNCHANGED <<now, asked, run, plan, stamp>>

Next ==
    \/ \E p \in Procs : Ask(p) \/ Commit(p) \/ Finish(p) \/ Crash(p)
    \/ \E p \in Procs, f \in Files : JudgeClean(p, f) \/ JudgeUnclean(p, f)
    \/ Tick
    \/ \E f \in Files : Replace(f)

Spec == Init /\ [][Next]_vars

----------------------------------------------------------------------------
(* Properties.                                                             *)

\* README: "Repeating a question is near-free; an interrupted sweep resumes
\* where it died."  Whatever other processes ask, prune or interrupt, the clean
\* verdict a run bought is there for the next run with this question to find,
\* until the file is replaced or KeepRuns other runs have stored verdicts of
\* that second or a later one.
ResumesWhereItDied ==
    \A q \in Questions, f \in Files : bought[q][f] # Nil => evals[q][f] # Nil
=============================================================================
