------------------------- MODULE Extraction_proofs -------------------------
(***************************************************************************)
(* What is proved of the extraction of one file, for any number of         *)
(* sections and any mix of replies.                                        *)
(***************************************************************************)
EXTENDS Extraction, TLAPS

USE SectionsAssumption, NilValueAssumption

\* What a first reply gives, and that a cut one always tells.
LEMMA FirstValueType ==
    ASSUME NEW r \in Replies
    PROVE  /\ FirstValue(r) \in Values \cup {Nil}
           /\ FirstValue(r) = "leading" => r.cut
           /\ FirstValue(r) = "whole" <=> r.body = "valid"
           /\ FirstValue(r) # "capped"
           /\ r.body = "salvageable" /\ r.cut => FirstValue(r) # Nil
BY DEF FirstValue, TryValidate, Values, Replies, Bodies

\* What a reply to the repair turn gives.
LEMMA RepairValueType ==
    ASSUME NEW f \in Replies, NEW r \in Replies
    PROVE  /\ RepairValue(f, r) \in Values \cup {Nil}
           /\ RepairValue(f, r) = "leading" => r.cut
           /\ RepairValue(f, r) \in {"whole", "capped"} <=> r.body = "valid"
           /\ RepairValue(f, r) = "capped" => f.cut
           /\ r.body = "salvageable" /\ r.cut => RepairValue(f, r) # Nil
BY DEF RepairValue, TryValidate, Values, Replies, Bodies

\* What is left when both failed.
LEMMA LastResortType ==
    ASSUME NEW f \in Replies, NEW r \in Replies
    PROVE  /\ LastResort(f, r) \in {"leading", Nil}
           /\ LastResort(f, r) # Nil => ~f.cut /\ ~r.cut
           /\ LastResort(f, r) = Nil =>
                 \/ f.cut \/ r.cut
                 \/ ~({f.body, r.body} \cap {"salvageable", "valid"} # {})
BY DEF LastResort, TryValidate, Values, Replies, Bodies

\* A reply that is worth a repair call: not empty, not valid, and not one
\* whose complete part is kept because it was cut off.
Repairable == {r \in Replies : /\ r.body \in {"invalid", "salvageable"}
                               /\ ~(r.body = "salvageable" /\ r.cut)}

\* Nothing has been asked for the sections ahead.
Ahead(s) ==
    /\ calls[s] = 0 /\ met[s] = <<>> /\ kept[s] = Nil
    /\ s \notin failures \cup truncation \cup malformed

\* The section at hand has had no reply, or one that is being repaired.
Current ==
    /\ kept[at] = Nil /\ at \notin failures \cup truncation \cup malformed
    /\ first = Nil => calls[at] = 0 /\ met[at] = <<>>
    /\ first # Nil => /\ first \in Repairable
                      /\ calls[at] = 1 /\ Len(met[at]) = 1
                      /\ met[at][1].reply = first

\* What the replies a section behind got say of where it ended up.
Behind(s) ==
    /\ calls[s] = 2 => Len(met[s]) >= 1 /\ met[s][1].reply \in Repairable
    /\ s \in failures <=> kept[s] = Nil
    /\ Settled(s)
    /\ kept[s] = "leading" => s \in truncation \cup malformed
    /\ s \in truncation => \E i \in 1..Len(met[s]) : met[s][i].reply.cut
    /\ s \in malformed => \A i \in 1..Len(met[s]) : ~met[s][i].reply.cut

SectionInv ==
    \A s \in Sections : /\ s > at => Ahead(s)
                        /\ s = at => Current
                        /\ s < at => Behind(s)

FallbackInv ==
    \A s \in Sections : \A i \in 1..Len(met[s]) : met[s][i].fallback => s \in fallbacks

OutcomeInv ==
    /\ at \in Sections => outcome = "running"
    /\ at \notin Sections => first = Nil
    /\ outcome = "running" => ~cached
    /\ outcome # "running" => outcome = Outcome /\ cached = Cacheable(outcome)

IInv == TypeOK /\ SectionInv /\ FallbackInv /\ OutcomeInv

----------------------------------------------------------------------------
(* The invariant is kept.                                                  *)

\* The inductive invariant holds before the first section.
LEMMA IInvInit == Init => IInv
<1> SUFFICES ASSUME Init PROVE IInv
    OBVIOUS
<1>1. TypeOK
    <2>1. met \in [Sections -> Seq(Completions)] /\ \A s \in Sections : Len(met[s]) <= 2
        BY DEF Init
    <2>2. calls \in [Sections -> 0..2] /\ kept \in [Sections -> Values \cup {Nil}]
        BY DEF Init
    <2>3. at \in 1..(NSections + 1)
        BY DEF Init
    <2>4. /\ first \in Replies \cup {Nil} /\ cached \in BOOLEAN
          /\ {failures, truncation, malformed, fallbacks} \subseteq SUBSET Sections
          /\ outcome \in {"running", "clean", "partial", "failed"}
        BY DEF Init
    <2> QED BY <2>1, <2>2, <2>3, <2>4 DEF TypeOK
<1>2. SectionInv
    BY DEF Init, SectionInv, Ahead, Current, Sections
<1>3. FallbackInv /\ OutcomeInv
    BY DEF Init, FallbackInv, OutcomeInv, Sections
<1> QED BY <1>1, <1>2, <1>3 DEF IInv

\* A step at section i leaves what the others have alone.
OthersKept(i) ==
    \A s \in Sections \ {i} :
        /\ calls'[s] = calls[s] /\ met'[s] = met[s] /\ kept'[s] = kept[s]
        /\ s \in failures' <=> s \in failures
        /\ s \in truncation' <=> s \in truncation
        /\ s \in malformed' <=> s \in malformed

\* A section that ends leaves an account of itself behind.
LEMMA SectionEnds ==
    ASSUME IInv, NEW i \in Sections, i = at, OthersKept(i),
           at' = at + 1, first' = Nil, Behind(i)'
    PROVE  SectionInv'
<1> SUFFICES ASSUME NEW s \in Sections
             PROVE  /\ s > at' => Ahead(s)'
                    /\ s = at' => Current'
                    /\ s < at' => Behind(s)'
    BY DEF SectionInv
<1>1. CASE s = i
    BY <1>1 DEF Sections
<1>2. CASE s # i
    <2>1. /\ s > at => Ahead(s)'
          /\ s < at => Behind(s)'
        BY <1>2 DEF OthersKept, IInv, SectionInv, Ahead, Behind, Settled, GivenUp, Met
    <2>2. s = at' => Ahead(s)'
        BY <2>1 DEF Sections
    <2>3. s = at' => Current'
        BY <2>2 DEF Ahead, Current
    <2> QED BY <1>2, <2>1, <2>3 DEF Sections
<1> QED BY <1>1, <1>2

\* A section at hand has had one reply at most.
LEMMA CurrentShort ==
    ASSUME IInv, NEW i \in Sections, i = at
    PROVE  Current /\ Len(met[i]) <= 1 /\ calls[i] <= 1 /\ outcome = "running" /\ ~cached
<1>1. Current /\ outcome = "running" /\ ~cached
    BY DEF IInv, TypeOK, SectionInv, OutcomeInv
<1>2. CASE first = Nil
    <2>1. met[i] = <<>> /\ calls[i] = 0
        BY <1>1, <1>2 DEF Current
    <2> QED BY <1>1, <2>1
<1>3. CASE first # Nil
    <2>1. Len(met[i]) = 1 /\ calls[i] = 1
        BY <1>1, <1>3 DEF Current
    <2> QED BY <1>1, <2>1
<1> QED BY <1>1, <1>2, <1>3 DEF IInv

\* A reply is counted, remembered, and its fallback noted.
LEMMA GotKeeps ==
    ASSUME IInv, NEW i \in Sections, i = at, NEW r \in Replies, NEW fb \in BOOLEAN,
           Got(r, fb)
    PROVE  /\ calls' \in [Sections -> 0..2] /\ calls'[i] = calls[i] + 1
           /\ met' \in [Sections -> Seq(Completions)]
           /\ \A s \in Sections : Len(met'[s]) <= 2
           /\ Len(met'[i]) = Len(met[i]) + 1
           /\ \A k \in 1..Len(met[i]) : met'[i][k] = met[i][k]
           /\ met'[i][Len(met[i]) + 1].reply = r
           /\ \A s \in Sections \ {i} : calls'[s] = calls[s] /\ met'[s] = met[s]
           /\ fallbacks' \subseteq Sections
           /\ FallbackInv'
<1> DEFINE c == [reply |-> r, fallback |-> fb]
<1>1. /\ met \in [Sections -> Seq(Completions)] /\ calls \in [Sections -> 0..2]
      /\ fallbacks \subseteq Sections
      /\ \A s \in Sections : Len(met[s]) <= 2
    BY DEF IInv, TypeOK
<1>2. Len(met[i]) <= 1 /\ calls[i] <= 1
    BY CurrentShort
<1>3. c \in Completions
    BY DEF Completions
<1>4. met' = [met EXCEPT ![i] = Append(met[i], c)]
    BY DEF Got
<1>5. /\ met'[i] = Append(met[i], c)
      /\ \A s \in Sections \ {i} : met'[s] = met[s]
    BY <1>1, <1>4
<1>6. /\ met'[i] \in Seq(Completions)
      /\ Len(met'[i]) = Len(met[i]) + 1
      /\ \A k \in 1..Len(met[i]) : met'[i][k] = met[i][k]
      /\ met'[i][Len(met[i]) + 1] = c
    BY <1>1, <1>3, <1>5
<1>7. met' \in [Sections -> Seq(Completions)]
    BY <1>1, <1>4, <1>5, <1>6
<1>8. \A s \in Sections : Len(met'[s]) <= 2
    BY <1>1, <1>2, <1>5, <1>6
<1>9. /\ calls' \in [Sections -> 0..2] /\ calls'[i] = calls[i] + 1
      /\ \A s \in Sections \ {i} : calls'[s] = calls[s]
    BY <1>1, <1>2 DEF Got
<1>10. /\ fallbacks' \subseteq Sections /\ fallbacks \subseteq fallbacks'
       /\ fb => i \in fallbacks'
    BY <1>1 DEF Got
<1>11. FallbackInv'
    <2> SUFFICES ASSUME NEW s \in Sections, NEW k \in 1..Len(met'[s]), met'[s][k].fallback
                 PROVE  s \in fallbacks'
        BY DEF FallbackInv
    <2>1. CASE s # i
        BY <1>5, <1>10, <2>1 DEF IInv, FallbackInv
    <2>2. CASE s = i /\ k = Len(met[i]) + 1
        BY <1>6, <1>10, <2>2
    <2>3. CASE s = i /\ k # Len(met[i]) + 1
        <3>1. Len(met[i]) \in Nat
            BY <1>1
        <3>2. k \in 1..Len(met[i])
            BY <1>6, <2>3, <3>1
        <3> QED BY <1>6, <1>10, <2>3, <3>2 DEF IInv, FallbackInv
    <2> QED BY <2>1, <2>2, <2>3
<1>12. met'[i][Len(met[i]) + 1].reply = r
    BY <1>6
<1> QED BY <1>5, <1>6, <1>7, <1>8, <1>9, <1>10, <1>11, <1>12

\* A section that gives a value, and what is known of it.
LEMMA ValueKeeps ==
    ASSUME IInv, NEW i \in Sections, i = at, NEW v \in Values, NEW cut \in BOOLEAN,
           NEW r \in Replies, NEW fb \in BOOLEAN, Got(r, fb), Value(v, cut),
           UNCHANGED malformed \/ malformed' = malformed \cup {i},
           UNCHANGED <<outcome, cached>>,
           v = "leading" => cut \/ i \in malformed',
           cut => r.cut, Settled(i)',
           i \in malformed' => \A k \in 1..Len(met'[i]) : ~met'[i][k].reply.cut
    PROVE  IInv'
<1> USE DEF Value
<1>1. TypeOK'
    <2>1. kept' \in [Sections -> Values \cup {Nil}]
        BY DEF IInv, TypeOK
    <2>2. at' \in 1..(NSections + 1) /\ first' \in Replies \cup {Nil}
        BY DEF Sections
    <2>3. failures' \subseteq Sections /\ truncation' \subseteq Sections
        BY DEF IInv, TypeOK
    <2>5. malformed' \subseteq Sections
        BY DEF IInv, TypeOK
    <2>4. fallbacks' \subseteq Sections /\ met' \in [Sections -> Seq(Completions)]
          /\ calls' \in [Sections -> 0..2] /\ \A s \in Sections : Len(met'[s]) <= 2
        BY GotKeeps
    <2> QED BY <2>1, <2>2, <2>3, <2>4, <2>5 DEF IInv, TypeOK
<1>2. /\ kept'[i] = v /\ v # Nil
      /\ i \notin failures'
      /\ i \in truncation' <=> v = "leading" /\ cut
      /\ Current
    <2>1. Current /\ i \notin failures \cup truncation
        BY CurrentShort DEF Current
    <2>2. kept'[i] = v /\ v # Nil
        BY NilValueAssumption DEF IInv, TypeOK
    <2>3. /\ i \notin failures'
          /\ i \in truncation' <=> v = "leading" /\ cut
        BY <2>1
    <2> QED BY <2>1, <2>2, <2>3
<1>3. OthersKept(i)
    <2>1. \A s \in Sections \ {i} : calls'[s] = calls[s] /\ met'[s] = met[s]
        BY GotKeeps
    <2>2. \A s \in Sections \ {i} : kept'[s] = kept[s]
        BY DEF IInv, TypeOK
    <2>3. \A s \in Sections \ {i} : /\ s \in failures' <=> s \in failures
                                    /\ s \in truncation' <=> s \in truncation
                                    /\ s \in malformed' <=> s \in malformed
        OBVIOUS
    <2> QED BY <2>1, <2>2, <2>3 DEF OthersKept
<1>4. Behind(i)'
    <2>1. calls'[i] = 2 => Len(met'[i]) >= 1 /\ met'[i][1].reply \in Repairable
        <3>1. calls'[i] = 2 => calls[i] = 1 /\ first # Nil
            BY CurrentShort, GotKeeps DEF IInv, TypeOK, Current
        <3> QED BY <1>2, <3>1, GotKeeps DEF Current
    <2>2. i \in truncation' => \E k \in 1..Len(met'[i]) : met'[i][k].reply.cut
        <3>1. Len(met[i]) + 1 \in 1..Len(met'[i])
            BY GotKeeps DEF IInv, TypeOK
        <3> QED BY <1>2, <3>1, GotKeeps
    <2>3. kept'[i] = "leading" => i \in truncation' \cup malformed'
        BY <1>2
    <2> QED BY <1>2, <2>1, <2>2, <2>3 DEF Behind
<1>5. SectionInv'
    BY <1>3, <1>4, SectionEnds
<1>6. OutcomeInv'
    BY CurrentShort DEF OutcomeInv
<1>7. FallbackInv'
    BY GotKeeps
<1> QED BY <1>1, <1>5, <1>6, <1>7 DEF IInv

\* A section that raises, having given up no more than it had to.
LEMMA RaiseKeeps ==
    ASSUME IInv, NEW i \in Sections, i = at, Raise, UNCHANGED <<outcome, cached>>,
           calls' \in [Sections -> 0..2], calls'[i] = calls[i] + 1,
           met' \in [Sections -> Seq(Completions)], \A s \in Sections : Len(met'[s]) <= 2,
           Len(met'[i]) >= Len(met[i]), \A k \in 1..Len(met[i]) : met'[i][k] = met[i][k],
           \A s \in Sections \ {i} : calls'[s] = calls[s] /\ met'[s] = met[s],
           fallbacks' \subseteq Sections, FallbackInv',
           Settled(i)'
    PROVE  IInv'
<1> USE DEF Raise
<1>1. TypeOK'
    <2>1. failures' \subseteq Sections /\ UNCHANGED <<kept, truncation, malformed>>
        BY DEF IInv, TypeOK
    <2>2. at' \in 1..(NSections + 1) /\ first' \in Replies \cup {Nil}
        BY DEF Sections
    <2> QED BY <2>1, <2>2 DEF IInv, TypeOK
<1>2. /\ kept'[i] = Nil /\ i \in failures'
      /\ i \notin truncation' /\ i \notin malformed'
    BY CurrentShort DEF Current
<1>3. OthersKept(i)
    BY DEF OthersKept
<1>4. Behind(i)'
    <2>1. calls'[i] = 2 => Len(met'[i]) >= 1 /\ met'[i][1].reply \in Repairable
        <3>1. calls'[i] = 2 => calls[i] = 1
            BY DEF IInv, TypeOK
        <3>2. calls[i] = 1 => Len(met[i]) = 1 /\ met[i][1].reply \in Repairable
            BY CurrentShort DEF Current
        <3>3. Len(met'[i]) \in Nat
            OBVIOUS
        <3> QED BY <3>1, <3>2, <3>3
    <2> QED BY <1>2, <2>1, NilValueAssumption DEF Behind, Values
<1>5. SectionInv'
    BY <1>3, <1>4, SectionEnds
<1>6. OutcomeInv'
    BY CurrentShort DEF OutcomeInv
<1> QED BY <1>1, <1>5, <1>6 DEF IInv

\* A call that fails ends its section as failed.
LEMMA CallFailsKeeps == IInv /\ CallFails => IInv'
<1> SUFFICES ASSUME IInv, CallFails PROVE IInv'
    OBVIOUS
<1>1. PICK i \in Sections : i = at
    BY DEF CallFails
<1>2. /\ Raise /\ UNCHANGED <<fallbacks, met, outcome, cached>>
      /\ calls' = [calls EXCEPT ![i] = @ + 1]
    BY <1>1 DEF CallFails
<1>3. /\ calls' \in [Sections -> 0..2] /\ calls'[i] = calls[i] + 1
      /\ \A s \in Sections \ {i} : calls'[s] = calls[s]
    BY <1>1, <1>2, CurrentShort DEF IInv, TypeOK
<1>4. FallbackInv' /\ fallbacks' \subseteq Sections
    BY <1>2 DEF IInv, TypeOK, FallbackInv
<1>5. Settled(i)'
    <2>1. kept'[i] = Nil
        BY <1>1, <1>2, CurrentShort DEF Current, Raise
    <2>2. CASE first = Nil
        <3>1. met'[i] = <<>>
            BY <1>1, <1>2, <2>2, CurrentShort DEF Current
        <3>2. Met(i)' = {}
            BY <3>1 DEF Met
        <3> QED BY <2>1, <3>2, NilValueAssumption DEF Settled, GivenUp, Values
    <2>3. CASE first # Nil
        <3>1. /\ Len(met'[i]) = 1 /\ met'[i][1].reply = first /\ first \in Repairable
              /\ calls'[i] = 2
            BY <1>1, <1>2, <1>3, <2>3, CurrentShort DEF Current
        <3>2. Met(i)' = {first}
            BY <3>1 DEF Met
        <3> QED BY <2>1, <3>1, <3>2, NilValueAssumption
            DEF Settled, GivenUp, Values, Repairable
    <2> QED BY <2>2, <2>3
<1>6. /\ met' \in [Sections -> Seq(Completions)] /\ \A s \in Sections : Len(met'[s]) <= 2
      /\ Len(met'[i]) >= Len(met[i]) /\ \A k \in 1..Len(met[i]) : met'[i][k] = met[i][k]
      /\ \A s \in Sections \ {i} : met'[s] = met[s]
    BY <1>2 DEF IInv, TypeOK
<1> QED BY <1>1, <1>2, <1>3, <1>4, <1>5, <1>6, RaiseKeeps

\* A first reply ends its section or asks for the repair.
LEMMA FirstReplyKeeps == IInv /\ FirstReply => IInv'
<1> SUFFICES ASSUME IInv, FirstReply PROVE IInv'
    OBVIOUS
<1>1. PICK i \in Sections : i = at
    BY DEF FirstReply
<1>2. PICK r \in Replies, fb \in BOOLEAN :
          /\ Got(r, fb)
          /\ \/ r.body = "empty" /\ Raise
             \/ /\ r.body # "empty" /\ FirstValue(r) # Nil
                /\ Value(FirstValue(r), r.cut)
                /\ UNCHANGED malformed
             \/ /\ r.body # "empty" /\ FirstValue(r) = Nil
                /\ first' = r
                /\ UNCHANGED <<at, kept, failures, truncation, malformed>>
    BY DEF FirstReply
<1>3. UNCHANGED <<outcome, cached>> /\ first = Nil
    BY DEF FirstReply
<1>4. Len(met[i]) = 0 /\ calls[i] = 0 /\ Current
    <2>1. Current /\ met[i] = <<>> /\ calls[i] = 0
        BY <1>1, <1>3, CurrentShort DEF Current
    <2> QED BY <2>1
<1>5. /\ Len(met'[i]) = 1 /\ met'[i][1].reply = r /\ calls'[i] = 1
      /\ Met(i)' = {r}
    <2>1. /\ Len(met'[i]) = Len(met[i]) + 1 /\ calls'[i] = calls[i] + 1
          /\ met'[i][Len(met[i]) + 1].reply = r
        BY <1>1, <1>2, GotKeeps
    <2>2. Len(met'[i]) = 1 /\ met'[i][1].reply = r /\ calls'[i] = 1
        BY <1>4, <2>1
    <2> QED BY <2>2 DEF Met
<1>6. CASE r.body = "empty" /\ Raise
    <2>1. Settled(i)'
        <3>1. kept'[i] = Nil
            BY <1>1, <1>4, <1>6 DEF Current, Raise
        <3> QED BY <1>5, <1>6, <3>1, NilValueAssumption DEF Settled, GivenUp, Values
    <2>2. Len(met'[i]) >= Len(met[i])
        BY <1>4, <1>5
    <2> QED BY <1>1, <1>2, <1>3, <1>6, <2>1, <2>2, GotKeeps, RaiseKeeps
<1>7. CASE /\ FirstValue(r) # Nil /\ Value(FirstValue(r), r.cut)
           /\ UNCHANGED malformed
    <2>1. /\ FirstValue(r) \in Values /\ r.cut \in BOOLEAN
          /\ FirstValue(r) = "leading" => r.cut
        BY <1>7, FirstValueType DEF Replies
    <2>2. i \notin malformed'
        BY <1>1, <1>4, <1>7 DEF Current
    <2>3. Settled(i)'
        <3>1. kept'[i] = FirstValue(r)
            BY <1>1, <1>7 DEF Value, IInv, TypeOK
        <3> QED BY <1>5, <1>7, <2>1, <3>1, FirstValueType, NilValueAssumption
            DEF Settled, Values
    <2> QED BY <1>1, <1>2, <1>3, <1>7, <2>1, <2>2, <2>3, ValueKeeps
<1>8. CASE /\ r.body # "empty" /\ FirstValue(r) = Nil /\ first' = r
           /\ UNCHANGED <<at, kept, failures, truncation, malformed>>
    <2>1. r \in Repairable
        BY <1>8, FirstValueType, NilValueAssumption
            DEF Repairable, Replies, Bodies, Values
    <2>2. TypeOK'
        BY <1>1, <1>2, <1>3, <1>8, GotKeeps DEF IInv, TypeOK
    <2>3. SectionInv'
        <3> SUFFICES ASSUME NEW s \in Sections
                     PROVE  /\ s > at' => Ahead(s)'
                            /\ s = at' => Current'
                            /\ s < at' => Behind(s)'
            BY DEF SectionInv
        <3>1. CASE s = i
            <4>1. Current'
                BY <1>1, <1>4, <1>5, <1>8, <2>1, NilValueAssumption DEF Current
            <4> QED BY <1>1, <1>8, <3>1, <4>1 DEF Sections
        <3>2. CASE s # i
            <4>1. calls'[s] = calls[s] /\ met'[s] = met[s] /\ kept'[s] = kept[s]
                BY <1>1, <1>2, <1>8, <3>2, GotKeeps
            <4> QED BY <1>1, <1>8, <3>2, <4>1
                DEF IInv, SectionInv, Ahead, Behind, Settled, GivenUp, Met
        <3> QED BY <3>1, <3>2
    <2>4. OutcomeInv'
        BY <1>1, <1>3, <1>8, CurrentShort DEF OutcomeInv
    <2>5. FallbackInv'
        BY <1>1, <1>2, GotKeeps
    <2> QED BY <2>2, <2>3, <2>4, <2>5 DEF IInv
<1> QED BY <1>2, <1>6, <1>7, <1>8

\* The repair's reply ends its section.
LEMMA RepairReplyKeeps == IInv /\ RepairReply => IInv'
<1> SUFFICES ASSUME IInv, RepairReply PROVE IInv'
    OBVIOUS
<1>1. PICK i \in Sections : i = at
    BY DEF RepairReply
<1>2. PICK r \in Replies, fb \in BOOLEAN :
          /\ Got(r, fb)
          /\ \/ r.body = "empty" /\ Raise
             \/ /\ r.body # "empty" /\ RepairValue(first, r) # Nil
                /\ Value(RepairValue(first, r), r.cut)
                /\ UNCHANGED malformed
             \/ /\ r.body # "empty" /\ RepairValue(first, r) = Nil
                /\ LastResort(first, r) # Nil
                /\ Value(LastResort(first, r), FALSE)
                /\ malformed' = malformed \cup {at}
             \/ /\ r.body # "empty" /\ RepairValue(first, r) = Nil
                /\ LastResort(first, r) = Nil /\ Raise
    BY DEF RepairReply
<1>3. UNCHANGED <<outcome, cached>> /\ first # Nil
    BY DEF RepairReply
<1>4. /\ Len(met[i]) = 1 /\ met[i][1].reply = first /\ Current
      /\ first \in Repairable /\ first \in Replies
    BY <1>1, <1>3, CurrentShort DEF Current, Repairable
<1>5. /\ Len(met'[i]) = 2 /\ met'[i][1].reply = first /\ met'[i][2].reply = r
      /\ Met(i)' = {first, r}
    <2>1. /\ Len(met'[i]) = Len(met[i]) + 1
          /\ met'[i][Len(met[i]) + 1].reply = r
          /\ \A k \in 1..Len(met[i]) : met'[i][k] = met[i][k]
        BY <1>1, <1>2, GotKeeps
    <2>2. Len(met'[i]) = 2 /\ met'[i][1].reply = first /\ met'[i][2].reply = r
        BY <1>4, <2>1
    <2> QED BY <2>2 DEF Met
<1>6. CASE /\ \/ r.body = "empty"
              \/ RepairValue(first, r) = Nil /\ LastResort(first, r) = Nil
           /\ Raise
    <2>1. kept'[i] = Nil
        BY <1>1, <1>4, <1>6 DEF Current, Raise
    <2>2. Settled(i)'
        <3>1. first.body # "valid" /\ ~(first.body = "salvageable" /\ first.cut)
            BY <1>4 DEF Repairable
        <3>2. r.body # "valid" /\ ~(r.body = "salvageable" /\ r.cut)
            BY <1>4, <1>6, RepairValueType, NilValueAssumption DEF Values
        <3>3. \/ r.body = "empty" \/ first.cut \/ r.cut
              \/ first.body # "salvageable" /\ r.body # "salvageable"
            BY <1>4, <1>6, LastResortType
        <3> QED BY <1>5, <2>1, <3>1, <3>2, <3>3, NilValueAssumption
            DEF Settled, GivenUp, Values
    <2>3. Len(met'[i]) >= Len(met[i])
        BY <1>4, <1>5
    <2> QED BY <1>1, <1>2, <1>3, <1>6, <2>2, <2>3, GotKeeps, RaiseKeeps
<1>7. CASE /\ RepairValue(first, r) # Nil /\ Value(RepairValue(first, r), r.cut)
           /\ UNCHANGED malformed
    <2>1. /\ RepairValue(first, r) \in Values /\ r.cut \in BOOLEAN
          /\ RepairValue(first, r) = "leading" => r.cut
        BY <1>4, <1>7, RepairValueType DEF Replies
    <2>2. i \notin malformed'
        BY <1>1, <1>4, <1>7 DEF Current
    <2>3. Settled(i)'
        <3>1. kept'[i] = RepairValue(first, r)
            BY <1>1, <1>7 DEF Value, IInv, TypeOK
        <3>2. first.body # "valid"
            BY <1>4 DEF Repairable
        <3> QED BY <1>4, <1>5, <1>7, <3>1, <3>2, RepairValueType DEF Settled
    <2> QED BY <1>1, <1>2, <1>3, <1>7, <2>1, <2>2, <2>3, ValueKeeps
<1>8. CASE /\ RepairValue(first, r) = Nil
           /\ LastResort(first, r) # Nil /\ Value(LastResort(first, r), FALSE)
           /\ malformed' = malformed \cup {at}
    <2>1. LastResort(first, r) \in Values /\ ~first.cut /\ ~r.cut
        BY <1>4, <1>8, LastResortType DEF Values
    <2>2. \A k \in 1..Len(met'[i]) : ~met'[i][k].reply.cut
        BY <1>5, <2>1
    <2>3. Settled(i)'
        <3>1. kept'[i] = "leading"
            BY <1>1, <1>4, <1>8, LastResortType DEF Value, IInv, TypeOK
        <3>2. first.body # "valid" /\ r.body # "valid"
            BY <1>4, <1>8, RepairValueType, NilValueAssumption DEF Repairable, Values
        <3> QED BY <1>5, <3>1, <3>2, NilValueAssumption DEF Settled, Values
    <2> QED BY <1>1, <1>2, <1>3, <1>8, <2>1, <2>2, <2>3, ValueKeeps
<1> QED BY <1>2, <1>6, <1>7, <1>8

\* The verdict is what the sections' accounts say.
LEMMA ConcludeKeeps == IInv /\ Conclude => IInv'
<1> SUFFICES ASSUME IInv, Conclude PROVE IInv'
    OBVIOUS
<1>1. /\ at = NSections + 1 /\ at \notin Sections /\ outcome' = Outcome
      /\ UNCHANGED <<at, first, kept, failures, truncation, malformed, fallbacks,
                     calls, met>>
      /\ cached' = Cacheable(Outcome)
    BY DEF Conclude, Sections
<1>2. Outcome \in {"clean", "partial", "failed"}
    BY DEF Outcome
<1>3. cached' \in BOOLEAN
    BY <1>1 DEF Cacheable
<1>4. TypeOK'
    BY <1>1, <1>2, <1>3 DEF IInv, TypeOK
<1>5. SectionInv'
    BY <1>1 DEF IInv, SectionInv, Ahead, Current, Behind, Settled, GivenUp, Met
<1>6. FallbackInv'
    BY <1>1 DEF IInv, FallbackInv
<1>7. OutcomeInv'
    BY <1>1, <1>2 DEF IInv, OutcomeInv, Outcome, Cacheable
<1> QED BY <1>4, <1>5, <1>6, <1>7 DEF IInv

\* Every step keeps the inductive invariant.
LEMMA IInvNext == IInv /\ [Next]_vars => IInv'
<1> SUFFICES ASSUME IInv, [Next]_vars PROVE IInv'
    OBVIOUS
<1>1. CASE UNCHANGED vars
    BY <1>1 DEF vars, IInv, TypeOK, SectionInv, Ahead, Current, Behind, Settled,
        GivenUp, Met, FallbackInv, OutcomeInv, Outcome, Cacheable
<1> QED BY <1>1, CallFailsKeeps, FirstReplyKeeps, RepairReplyKeeps, ConcludeKeeps DEF Next

\* It holds in every reachable state.
LEMMA Invariant == Spec => []IInv
BY IInvInit, IInvNext, PTL DEF Spec

----------------------------------------------------------------------------
(* What follows from it.                                                   *)

\* A section keeps one of the values of Structured or Nil, and none gets more
\* than the two completions complete_structured() asks for.
THEOREM TypeCorrect == Spec => []TypeOK
<1>1. IInv => TypeOK
    BY DEF IInv
<1> QED BY <1>1, Invariant, PTL

\* "No repair loops" (structured.py:5): whatever the model replies, no section
\* costs a third call, and a second one is only made for a first reply that
\* was neither empty nor valid.
THEOREM RepairIsBounded == Spec => []OneSecondChance
<1>1. IInv => OneSecondChance
    <2> SUFFICES ASSUME IInv, NEW s \in Sections
                 PROVE  /\ calls[s] <= 2
                        /\ calls[s] = 2 =>
                              /\ Len(met[s]) >= 1
                              /\ met[s][1].reply.body \in {"invalid", "salvageable"}
        BY DEF OneSecondChance
    <2>1. calls[s] \in 0..2
        BY DEF IInv, TypeOK
    <2>2. CASE s > at
        BY <2>2 DEF IInv, SectionInv, Ahead
    <2>3. CASE s = at
        <3>1. calls[s] <= 1
            BY <2>3, CurrentShort
        <3> QED BY <2>1, <3>1
    <2>4. CASE s < at
        <3>1. Behind(s)
            BY <2>4 DEF IInv, SectionInv
        <3> QED BY <2>1, <3>1 DEF Behind, Repairable
    <2> QED BY <2>2, <2>3, <2>4 DEF IInv, TypeOK, Sections
<1> QED BY <1>1, Invariant, PTL

\* A section that has an outcome, good or bad, is behind.
LEMMA JudgedIsBehind ==
    ASSUME IInv, NEW s \in Sections, s \in failures \cup truncation \cup malformed
    PROVE  Behind(s)
<1>1. ~(s > at)
    BY DEF IInv, SectionInv, Ahead
<1>2. s # at
    <2>1. SUFFICES ASSUME s = at PROVE FALSE
        OBVIOUS
    <2> QED BY <2>1, CurrentShort DEF Current
<1>3. s < at
    BY <1>1, <1>2 DEF IInv, TypeOK, Sections
<1> QED BY <1>3 DEF IInv, SectionInv

\* Whatever mix of replies its sections meet, complete_structured() keeps every
\* valid answer, and the complete part of an invalid one unless it stopped
\* normally and the other attempt failed, was empty or was cut off.
THEOREM SalvageGivenUpOnlyForRepair == Spec => []SalvagedOrSuperseded
<1>1. IInv => SalvagedOrSuperseded
    <2> SUFFICES ASSUME IInv, NEW s \in Sections, s < at PROVE Settled(s)
        BY DEF SalvagedOrSuperseded
    <2> QED BY DEF IInv, SectionInv, Behind
<1> QED BY <1>1, Invariant, PTL

\* The reason extract_file() gives for a partial verdict is the right one.
THEOREM ReasonsAreTrue == Spec => []BlameIsRight
<1>1. IInv => BlameIsRight
    <2> SUFFICES ASSUME IInv PROVE BlameIsRight
        OBVIOUS
    <2>1. \A s \in truncation : \E r \in Met(s) : r.cut
        <3> SUFFICES ASSUME NEW s \in truncation PROVE \E r \in Met(s) : r.cut
            OBVIOUS
        <3>1. s \in Sections
            BY DEF IInv, TypeOK
        <3>2. Behind(s)
            BY <3>1, JudgedIsBehind
        <3> QED BY <3>2 DEF Behind, Met
    <2>2. \A s \in malformed : \A r \in Met(s) : ~r.cut
        <3> SUFFICES ASSUME NEW s \in malformed PROVE \A r \in Met(s) : ~r.cut
            OBVIOUS
        <3>1. s \in Sections
            BY DEF IInv, TypeOK
        <3>2. Behind(s)
            BY <3>1, JudgedIsBehind
        <3> QED BY <3>2 DEF Behind, Met
    <2> QED BY <2>1, <2>2 DEF BlameIsRight
<1> QED BY <1>1, Invariant, PTL

\* A verdict reported as clean holds no section that raised and none of which
\* only the leading part was kept.
THEOREM CleanHasNoGap == Spec => []CleanIsWhole
<1>1. IInv => CleanIsWhole
    <2> SUFFICES ASSUME IInv, outcome = "clean", NEW s \in Sections
                 PROVE  kept[s] \in {"whole", "capped"}
        BY DEF CleanIsWhole
    <2>1. at \notin Sections /\ outcome = Outcome
        BY DEF IInv, OutcomeInv
    <2>2. failures = {} /\ truncation = {} /\ malformed = {}
        BY <2>1 DEF Outcome
    <2>3. s < at
        BY <2>1 DEF IInv, TypeOK, Sections
    <2>4. Behind(s)
        BY <2>3 DEF IInv, SectionInv
    <2>5. kept[s] # Nil /\ kept[s] # "leading"
        BY <2>2, <2>4 DEF Behind
    <2> QED BY <2>5 DEF IInv, TypeOK, Values
<1> QED BY <1>1, Invariant, PTL

\* No verdict a fallback model had a hand in is stored under the primary
\* model's name, not even when the fallback's reply was the discarded one.
THEOREM CacheNamesThePrimary == Spec => []CachedIsPrimary
<1>1. IInv => CachedIsPrimary
    <2> SUFFICES ASSUME IInv, cached, NEW s \in Sections, NEW k \in 1..Len(met[s])
                 PROVE  ~met[s][k].fallback
        BY DEF CachedIsPrimary
    <2>1. outcome # "running" /\ cached = Cacheable(outcome)
        BY DEF IInv, OutcomeInv
    <2>2. fallbacks = {}
        BY <2>1 DEF Cacheable
    <2> QED BY <2>2 DEF IInv, FallbackInv
<1> QED BY <1>1, Invariant, PTL

----------------------------------------------------------------------------
(* The extraction of a file implements FileVerdict, safety part.           *)

Some   == \E s \in Sections : kept[s] # Nil
Flawed == failures \cup truncation \cup malformed # {}
Fell   == fallbacks # {}

\* A completion can only add a fallback.
LEMMA GotFalls ==
    ASSUME IInv, NEW i \in Sections, i = at, NEW r \in Replies, NEW fb \in BOOLEAN,
           Got(r, fb)
    PROVE  Fell' = Fell \/ Fell' = TRUE
BY DEF Got, Fell

\* A section that raises is judged, and flaws the verdict.
LEMMA RaiseJudges ==
    ASSUME IInv, NEW i \in Sections, i = at, Raise, UNCHANGED <<outcome, cached>>,
           Fell' = Fell \/ Fell' = TRUE
    PROVE  Promise!Judge
<1>1. outcome = "running" /\ at - 1 < NSections
    BY CurrentShort DEF Sections
<1>2. at' - 1 = (at - 1) + 1
    BY DEF Raise, Sections
<1>3. Some' = Some /\ Flawed' = TRUE
    BY DEF Raise, Some, Flawed
<1> QED BY <1>1, <1>2, <1>3 DEF Promise!Judge, Some, Flawed, Fell

\* So is one that gives a value; part of one flaws it.
LEMMA ValueJudges ==
    ASSUME IInv, NEW i \in Sections, i = at, NEW v \in Values, NEW cut \in BOOLEAN,
           Value(v, cut), UNCHANGED malformed \/ malformed' = malformed \cup {i},
           UNCHANGED <<outcome, cached>>, Fell' = Fell \/ Fell' = TRUE
    PROVE  Promise!Judge
<1>1. outcome = "running" /\ at - 1 < NSections
    BY CurrentShort DEF Sections
<1>2. at' - 1 = (at - 1) + 1
    BY DEF Value, Sections
<1>3. Some' = TRUE
    <2>1. kept'[i] # Nil
        BY DEF Value, IInv, TypeOK
    <2> QED BY <2>1 DEF Some
<1>4. Flawed' = Flawed \/ Flawed' = TRUE
    BY DEF Value, Flawed
<1> QED BY <1>1, <1>2, <1>3, <1>4 DEF Promise!Judge, Some, Flawed, Fell

\* A reply that is to be repaired changes nothing but, perhaps, who served.
LEMMA AwaitFallsBack ==
    ASSUME IInv, NEW i \in Sections, i = at, NEW r \in Replies, NEW fb \in BOOLEAN,
           Got(r, fb),
           UNCHANGED <<at, kept, failures, truncation, malformed, outcome, cached>>
    PROVE  [Promise!Next]_(Promise!vars)
<1>1. outcome = "running" /\ at - 1 < NSections
    BY CurrentShort DEF Sections
<1>2. at' - 1 = at - 1 /\ Some' = Some /\ Flawed' = Flawed
    BY DEF Some, Flawed
<1>3. CASE Fell' = TRUE
    BY <1>1, <1>2, <1>3 DEF Promise!Next, Promise!FallBack, Some, Flawed, Fell
<1>4. CASE Fell' = Fell
    BY <1>2, <1>4 DEF Promise!vars, Some, Flawed, Fell
<1> QED BY <1>3, <1>4, GotFalls

\* The detailed conclusion is the abstract one.
LEMMA ConcludeConcludes == IInv /\ Conclude => Promise!Conclude
<1> SUFFICES ASSUME IInv, Conclude PROVE Promise!Conclude
    OBVIOUS
<1>1. /\ outcome = "running" /\ at - 1 = NSections /\ at' - 1 = at - 1
      /\ Some' = Some /\ Flawed' = Flawed /\ Fell' = Fell
    BY DEF Conclude, Some, Flawed, Fell
<1>2. outcome' = IF ~Some THEN "failed" ELSE IF Flawed THEN "partial" ELSE "clean"
    BY DEF Conclude, Outcome, Some, Flawed
<1>3. cached' = (outcome' = "clean" /\ ~Fell)
    BY DEF Conclude, Cacheable, Fell
<1> QED BY <1>1, <1>2, <1>3 DEF Promise!Conclude, Some, Flawed, Fell

\* Whatever the model replies and whichever model serves, extract_file()
\* judges its sections one by one and concludes as FileVerdict says: clean
\* only over whole values, cached only when clean and never fallen back.
THEOREM ImplementsFileVerdict ==
    Spec => Promise!Init /\ [][Promise!Next]_(Promise!vars)
<1>1. Init => Promise!Init
    BY DEF Init, Promise!Init
<1>2. IInv /\ [Next]_vars => [Promise!Next]_(Promise!vars)
    <2> SUFFICES ASSUME IInv, [Next]_vars PROVE [Promise!Next]_(Promise!vars)
        OBVIOUS
    <2>1. CASE CallFails
        <3>1. PICK i \in Sections : i = at
            BY <2>1 DEF CallFails
        <3>2. Raise /\ UNCHANGED <<fallbacks, outcome, cached>>
            BY <2>1 DEF CallFails
        <3> QED BY <3>1, <3>2, RaiseJudges DEF Promise!Next, Fell
    <2>2. CASE FirstReply
        <3>1. PICK i \in Sections : i = at
            BY <2>2 DEF FirstReply
        <3>2. UNCHANGED <<outcome, cached>>
            BY <2>2 DEF FirstReply
        <3>3. PICK r \in Replies, fb \in BOOLEAN :
                  /\ Got(r, fb)
                  /\ \/ Raise
                     \/ /\ FirstValue(r) # Nil /\ Value(FirstValue(r), r.cut)
                        /\ UNCHANGED malformed
                     \/ UNCHANGED <<at, kept, failures, truncation, malformed>>
            BY <2>2 DEF FirstReply
        <3>4. Fell' = Fell \/ Fell' = TRUE
            BY <3>1, <3>3, GotFalls
        <3>5. CASE Raise
            BY <3>1, <3>2, <3>4, <3>5, RaiseJudges DEF Promise!Next
        <3>6. CASE /\ FirstValue(r) # Nil /\ Value(FirstValue(r), r.cut)
                   /\ UNCHANGED malformed
            <4>1. FirstValue(r) \in Values /\ r.cut \in BOOLEAN
                BY <3>6, FirstValueType DEF Replies
            <4> QED BY <3>1, <3>2, <3>4, <3>6, <4>1, ValueJudges DEF Promise!Next
        <3>7. CASE UNCHANGED <<at, kept, failures, truncation, malformed>>
            BY <3>1, <3>2, <3>3, <3>7, AwaitFallsBack
        <3> QED BY <3>3, <3>5, <3>6, <3>7
    <2>3. CASE RepairReply
        <3>1. PICK i \in Sections : i = at
            BY <2>3 DEF RepairReply
        <3>2. UNCHANGED <<outcome, cached>> /\ first \in Replies
            BY <2>3 DEF RepairReply, IInv, TypeOK
        <3>3. PICK r \in Replies, fb \in BOOLEAN :
                  /\ Got(r, fb)
                  /\ \/ Raise
                     \/ /\ RepairValue(first, r) # Nil
                        /\ Value(RepairValue(first, r), r.cut)
                        /\ UNCHANGED malformed
                     \/ /\ LastResort(first, r) # Nil
                        /\ Value(LastResort(first, r), FALSE)
                        /\ malformed' = malformed \cup {at}
            BY <2>3 DEF RepairReply
        <3>4. Fell' = Fell \/ Fell' = TRUE
            BY <3>1, <3>3, GotFalls
        <3>5. CASE Raise
            BY <3>1, <3>2, <3>4, <3>5, RaiseJudges DEF Promise!Next
        <3>6. CASE /\ RepairValue(first, r) # Nil
                   /\ Value(RepairValue(first, r), r.cut) /\ UNCHANGED malformed
            <4>1. RepairValue(first, r) \in Values /\ r.cut \in BOOLEAN
                BY <3>2, <3>6, RepairValueType DEF Replies
            <4> QED BY <3>1, <3>2, <3>4, <3>6, <4>1, ValueJudges DEF Promise!Next
        <3>7. CASE /\ LastResort(first, r) # Nil /\ Value(LastResort(first, r), FALSE)
                   /\ malformed' = malformed \cup {at}
            <4>1. LastResort(first, r) \in Values
                BY <3>2, <3>7, LastResortType DEF Values
            <4> QED BY <3>1, <3>2, <3>4, <3>7, <4>1, ValueJudges DEF Promise!Next
        <3> QED BY <3>3, <3>5, <3>6, <3>7
    <2>4. CASE Conclude
        BY <2>4, ConcludeConcludes DEF Promise!Next
    <2>5. CASE UNCHANGED vars
        BY <2>5 DEF vars, Promise!vars
    <2> QED BY <2>1, <2>2, <2>3, <2>4, <2>5 DEF Next
<1> QED BY <1>1, <1>2, Invariant, PTL DEF Spec

=============================================================================
