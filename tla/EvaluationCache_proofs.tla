----------------------- MODULE EvaluationCache_proofs -----------------------
(* What is proved of the stored verdicts, for any number of processes,     *)
(* questions, files and runs.                                              *)
EXTENDS EvaluationCache, FiniteSetTheorems, TLAPS

USE KeepRunsAssumption, RunsAssumption, MaxNowAssumption, NilRunAssumption, VerdictAssumption

\* A process that answers a question has a run to file its verdicts under, and
\* one that stores a verdict answers a question.
RunsNamed ==
    \A p \in Procs : /\ asked[p] # Nil => run[p] # Nil
                     /\ stamp[p] # Nil => asked[p] # Nil

Typed == TypeOK /\ RunsNamed

\* A new run's name is a run.
LEMMA FreshRunsType == FreshRuns \subseteq Runs
BY DEF FreshRuns

\* The types hold at the start.
LEMMA TypedInit == Init => Typed
BY DEF Init, Typed, TypeOK, RunsNamed

\* What is stored are verdicts.
LEMMA StoredType == TypeOK => Stored \subseteq Verdicts
BY DEF TypeOK, Stored

\* The record of a purchase is one of runs.
LEMMA RecordType ==
    ASSUME TypeOK, NEW q \in Questions, NEW f \in Files, NEW r \in Runs, NEW t \in Nat,
           Record(q, f, r, t)
    PROVE  bought' \in [Questions -> [Files -> [by : Runs, since : SUBSET Runs] \cup {Nil}]]
<1> DEFINE Records == [by : Runs, since : SUBSET Runs]
           others == {v.run : v \in {w \in Stored : t <= w.at}} \ {r}
           Age(g, h) == IF \/ bought[g][h] = Nil \/ bought[g][h].by = r
                           \/ t < evals[g][h].at
                        THEN bought[g][h]
                        ELSE [bought[g][h] EXCEPT !.since = @ \cup {r}]
           Drop(b) == IF b # Nil /\ Cardinality(b.since) >= KeepRuns THEN Nil ELSE b
<1>1. others \subseteq Runs
    BY StoredType DEF Verdicts
<1>2. [by |-> r, since |-> others] \in Records
    BY <1>1
<1>3. \A g \in Questions, h \in Files : Age(g, h) \in Records \cup {Nil}
    <2> SUFFICES ASSUME NEW g \in Questions, NEW h \in Files
                 PROVE  Age(g, h) \in Records \cup {Nil}
        OBVIOUS
    <2>1. bought[g][h] \in Records \cup {Nil}
        BY DEF TypeOK
    <2> QED BY <2>1
<1>4. \A b \in Records \cup {Nil} : Drop(b) \in Records \cup {Nil}
    OBVIOUS
<1>5. bought' = [g \in Questions |-> [h \in Files |->
            Drop(IF g = q /\ h = f THEN [by |-> r, since |-> others]
                                   ELSE Age(g, h))]]
    BY DEF Record
<1> HIDE DEF others, Age, Drop
<1>6. \A g \in Questions, h \in Files :
         Drop(IF g = q /\ h = f THEN [by |-> r, since |-> others] ELSE Age(g, h))
            \in Records \cup {Nil}
    BY <1>2, <1>3, <1>4
<1> QED BY <1>5, <1>6

\* Every step keeps the types.
LEMMA TypedNext == Typed /\ [Next]_vars => Typed'
<1> SUFFICES ASSUME Typed, [Next]_vars PROVE Typed'
    OBVIOUS
<1> USE DEF Typed, TypeOK, RunsNamed
<1>1. CASE \E p \in Procs : Ask(p)
    BY <1>1, FreshRunsType DEF Ask
<1>2. CASE \E p \in Procs : Commit(p)
    <2>1. PICK p \in Procs : Commit(p)
        BY <1>2
    <2> DEFINE f == stamp[p].file
               t == stamp[p].at
    <2>2. /\ asked[p] \in Questions /\ run[p] \in Runs
          /\ f \in Files /\ t \in 0..MaxNow
        BY <2>1 DEF Commit, Stamps
    <2>3. [run |-> run[p], at |-> t] \in Verdicts
        BY <2>2 DEF Verdicts
    <2>4. evals' \in [Questions -> [Files -> Verdicts \cup {Nil}]]
        BY <2>1, <2>2, <2>3 DEF Commit, Put
    <2>5. bought' \in [Questions -> [Files -> [by : Runs, since : SUBSET Runs] \cup {Nil}]]
        BY <2>1, <2>2, RecordType DEF Commit
    <2> QED BY <2>1, <2>2, <2>4, <2>5 DEF Commit
<1>9. CASE \E p \in Procs, f \in Files : JudgeClean(p, f)
    BY <1>9 DEF JudgeClean, Judging, Stamps
<1>3. CASE \E p \in Procs, f \in Files : JudgeUnclean(p, f)
    BY <1>3 DEF JudgeUnclean, Judging
<1>4. CASE \E p \in Procs : Finish(p)
    BY <1>4 DEF Finish, EndQuery
<1>5. CASE \E p \in Procs : Crash(p)
    BY <1>5 DEF Crash, EndQuery
<1>6. CASE Tick
    <2>1. now' \in 0..MaxNow
        BY <1>6 DEF Tick
    <2> QED BY <1>6, <2>1 DEF Tick
<1>7. CASE \E f \in Files : Replace(f)
    BY <1>7 DEF Replace
<1>8. CASE UNCHANGED vars
    BY <1>8 DEF vars
<1> QED
    BY <1>1, <1>2, <1>3, <1>4, <1>5, <1>6, <1>7, <1>8, <1>9 DEF Next

\* Every stored verdict and every record of a purchase names a run: put_evaluation
\* is never reached by a process that has none.
THEOREM CacheTypeCorrect == Spec => []TypeOK
<1>1. Spec => []Typed
    BY TypedInit, TypedNext, PTL DEF Spec
<1> QED BY <1>1, PTL DEF Typed

----------------------------------------------------------------------------
(* Resumption.                                                             *)

\* The runs that wrote a verdict of S at t or later.
WritersSince(S, t) == {v.run : v \in {w \in S : t <= w.at}}

\* The strengthening: a purchase on record is the verdict stored, and the runs
\* that could push it out, fewer than KeepRuns, are all on record with it.
BoughtInv ==
    \A q \in Questions, f \in Files : bought[q][f] # Nil =>
        /\ evals[q][f] # Nil
        /\ evals[q][f].run = bought[q][f].by
        /\ WritersSince(Stored, evals[q][f].at) \subseteq bought[q][f].since \cup {bought[q][f].by}
        /\ ~(Cardinality(bought[q][f].since) >= KeepRuns)

\* Pruning keeps every verdict that fewer than KeepRuns others can outrank.
LEMMA PruneSpares ==
    ASSUME Typed, BoughtInv, NEW K \in RecentRuns,
           NEW q \in Questions, NEW f \in Files, bought[q][f] # Nil
    PROVE  evals[q][f].run \in K
<1> DEFINE e == evals[q][f]
           b == bought[q][f]
<1> SUFFICES ASSUME e.run \notin K PROVE FALSE
    OBVIOUS
<1>1. e \in Stored /\ e \in Verdicts /\ e.run \in Writers
    BY DEF Typed, TypeOK, BoughtInv, Stored, Writers
<1>2. /\ Cardinality(K) = KeepRuns
      /\ \A r \in K : NoLater(e.run, r)
    BY <1>1 DEF RecentRuns
<1>3. K \subseteq WritersSince(Stored, e.at)
    <2> SUFFICES ASSUME NEW r \in K PROVE r \in WritersSince(Stored, e.at)
        OBVIOUS
    <2>1. PICK w \in Stored : w.run = r /\ e.at <= w.at
        BY <1>1, <1>2 DEF NoLater
    <2> QED BY <2>1 DEF WritersSince
<1>4. K \subseteq b.since
    BY <1>3 DEF BoughtInv
<1>5. b.since \subseteq Runs
    BY DEF Typed, TypeOK
<1>6. IsFiniteSet(b.since)
    BY <1>5, FS_Subset
<1>7. Cardinality(K) <= Cardinality(b.since) /\ Cardinality(b.since) \in Nat
    BY <1>4, <1>6, FS_Subset, FS_CardinalityType
<1> QED BY <1>2, <1>7 DEF BoughtInv

\* A purchase goes on record with those whose verdicts are of its second or a
\* later one, and every record it may outrank takes note of the buyer.
LEMMA BoughtByCommit ==
    ASSUME Typed, BoughtInv, NEW p \in Procs, Commit(p)
    PROVE  BoughtInv'
<1> DEFINE q == asked[p]
           r == run[p]
           f == stamp[p].file
           t == stamp[p].at
           new == [run |-> r, at |-> t]
           others == {v.run : v \in {w \in Stored : t <= w.at}} \ {r}
<1>1. q \in Questions /\ r \in Runs /\ f \in Files /\ t \in 0..MaxNow
    BY DEF Commit, Typed, TypeOK, RunsNamed, Stamps
<1>2. evals' = [evals EXCEPT ![q][f] = new]
    BY DEF Commit, Put
<1>3. /\ evals'[q][f] = new /\ new # Nil
      /\ \A g \in Questions, h \in Files :
            ~(g = q /\ h = f) => evals'[g][h] = evals[g][h]
    <2>1. new \in Verdicts
        BY <1>1 DEF Verdicts
    <2> QED BY <1>1, <1>2, <2>1 DEF Typed, TypeOK
<1>4. Stored' \subseteq Stored \cup {new}
    BY <1>3 DEF Stored
<1>5. Stored \subseteq Verdicts
    BY StoredType DEF Typed
<1> HIDE DEF f, t, q, r
<1>6. ASSUME NEW g \in Questions, NEW h \in Files, bought'[g][h] # Nil
      PROVE  /\ evals'[g][h] # Nil
             /\ evals'[g][h].run = bought'[g][h].by
             /\ WritersSince(Stored', evals'[g][h].at) \subseteq bought'[g][h].since \cup {bought'[g][h].by}
             /\ ~(Cardinality(bought'[g][h].since) >= KeepRuns)
    <2>1. CASE g = q /\ h = f
        <3>1. /\ bought'[g][h] = [by |-> r, since |-> others]
              /\ ~(Cardinality(others) >= KeepRuns)
            BY <1>6, <2>1 DEF Commit, Record, f, t, q, r
        <3>2. WritersSince(Stored', t) \subseteq others \cup {r}
            BY <1>1, <1>4, <1>5 DEF WritersSince, Verdicts
        <3> QED BY <1>1, <1>3, <2>1, <3>1, <3>2
    <2>2. CASE ~(g = q /\ h = f)
        <3> DEFINE b == bought[g][h]
        <3>1. /\ b # Nil
              /\ bought'[g][h] = IF b.by = r \/ t < evals[g][h].at THEN b
                                ELSE [b EXCEPT !.since = @ \cup {r}]
              /\ ~(Cardinality(bought'[g][h].since) >= KeepRuns)
            BY <1>6, <2>2 DEF Commit, Record, f, t, q, r
        <3>2. b \in [by : Runs, since : SUBSET Runs]
            BY <3>1 DEF Typed, TypeOK
        <3>3. /\ bought'[g][h].by = b.by
              /\ b.since \subseteq bought'[g][h].since
              /\ t < evals[g][h].at \/ r \in bought'[g][h].since \cup {b.by}
            BY <3>1, <3>2
        <3>4. evals[g][h].at \in Nat
            <4>1. evals[g][h] \in Verdicts
                BY <3>1 DEF Typed, TypeOK, BoughtInv
            <4> QED BY <4>1 DEF Verdicts
        <3>5. WritersSince(Stored', evals[g][h].at) \subseteq
                 WritersSince(Stored, evals[g][h].at) \cup
                 (IF t < evals[g][h].at THEN {} ELSE {r})
            BY <1>1, <1>4, <3>4 DEF WritersSince
        <3> QED BY <1>3, <2>2, <3>1, <3>3, <3>5 DEF BoughtInv
    <2> QED BY <2>1, <2>2
<1> QED BY <1>6 DEF BoughtInv

\* Every step keeps what was bought within reach.
LEMMA BoughtNext == Typed /\ BoughtInv /\ [Next]_vars => BoughtInv'
<1> SUFFICES ASSUME Typed, BoughtInv, [Next]_vars PROVE BoughtInv'
    OBVIOUS
<1>1. CASE \E p \in Procs : Commit(p)
    BY <1>1, BoughtByCommit
<1>2. CASE UNCHANGED <<evals, bought>>
    BY <1>2 DEF BoughtInv, WritersSince, Stored
<1>3. CASE \E p \in Procs : Finish(p)
    <2>1. PICK K \in RecentRuns :
            evals' = [q \in Questions |-> [f \in Files |->
                IF evals[q][f] # Nil /\ evals[q][f].run \in K THEN evals[q][f] ELSE Nil]]
        BY <1>3 DEF Finish
    <2>2. UNCHANGED bought
        BY <1>3 DEF Finish
    <2>3. Stored' \subseteq Stored
        BY <2>1 DEF Stored
    <2>4. \A q \in Questions, f \in Files : bought[q][f] # Nil => evals'[q][f] = evals[q][f]
        BY <2>1, PruneSpares DEF BoughtInv
    <2> QED BY <2>2, <2>3, <2>4 DEF BoughtInv, WritersSince
<1>4. CASE \E f \in Files : Replace(f)
    <2>1. PICK f \in Files : Replace(f)
        BY <1>4
    <2>2. \A q \in Questions, h \in Files :
             \/ evals'[q][h] = Nil /\ bought'[q][h] = Nil
             \/ evals'[q][h] = evals[q][h] /\ bought'[q][h] = bought[q][h]
        BY <2>1 DEF Replace, Typed, TypeOK
    <2>3. Stored' \subseteq Stored
        BY <2>2 DEF Stored
    <2> QED BY <2>2, <2>3 DEF BoughtInv, WritersSince
<1> QED
    BY <1>1, <1>2, <1>3, <1>4 DEF Next, Ask, Crash, Tick, JudgeClean, JudgeUnclean, vars

\* A clean verdict, once bought, is found by the next run with its question,
\* whatever crashes, prunes and asks beside it: it is lost only to the
\* replacement of its file or to KeepRuns other runs storing verdicts since.
THEOREM NothingBoughtIsLost == Spec => []ResumesWhereItDied
<1>1. Init => BoughtInv
    BY DEF Init, BoughtInv, Stored
<1>2. Spec => []Typed
    BY TypedInit, TypedNext, PTL DEF Spec
<1>3. BoughtInv => ResumesWhereItDied
    BY DEF BoughtInv, ResumesWhereItDied
<1> QED BY <1>1, <1>2, <1>3, BoughtNext, PTL DEF Spec
=============================================================================
