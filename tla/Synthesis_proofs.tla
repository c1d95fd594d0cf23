-------------------------- MODULE Synthesis_proofs --------------------------
(***************************************************************************)
(* What is proved of the synthesizer for any amount of evidence, any       *)
(* budget and any bound on the passes, whatever the model replies: its     *)
(* claims are cited or marked, and merging loses no evidence number.       *)
(***************************************************************************)
EXTENDS Synthesis, SequenceTheorems, FoldFacts

USE SynthesisAssumption

\* The sizes and bounds are numbers.
LEMMA Bounds ==
    /\ MaxEvidence \in Nat /\ Budget \in Nat /\ MaxDigest \in Nat
    /\ MaxSentences \in Nat /\ MaxDepth \in Nat
OBVIOUS

----------------------------------------------------------------------------
(* Texts put together.                                                     *)

SizeFold(texts, h) ==
    h = [s \in SUBSET DOMAIN texts |->
            IF s = {} THEN 0 ELSE h[s \ {Max(s)}] + texts[Max(s)].size]

\* The size of a sequence of texts is a number, and so a joined text is one.
LEMMA JoinType ==
    ASSUME NEW texts \in Seq(Texts)
    PROVE  Join(texts) \in Texts
<1> DEFINE n == Len(texts)
           op == [x \in (1..n) \X Nat |-> x[2] + texts[x[1]].size]
           it == CHOOSE h : SizeFold(texts, h)
<1>1. n \in Nat /\ DOMAIN texts = 1..n /\ \A i \in 1..n : texts[i] \in Texts
    OBVIOUS
<1>2. op \in [(1..n) \X Nat -> Nat]
    BY <1>1 DEF Texts
<1>3. \E h : SizeFold(texts, h)
    <2> HIDE DEF n, op
    <2>1. PICK h : IsLeftFold(h, n, Nat, 0, op)
        BY <1>1, <1>2, LeftFoldExists
    <2>2. \A s \in SUBSET (1..n) :
              h[s] = IF s = {} THEN 0 ELSE h[s \ {Max(s)}] + texts[Max(s)].size
        BY <2>1 DEF op, IsLeftFold
    <2>3. h = [s \in SUBSET (1..n) |-> h[s]]
        BY <2>1 DEF IsLeftFold
    <2>4. h = [s \in SUBSET (1..n) |->
                IF s = {} THEN 0 ELSE h[s \ {Max(s)}] + texts[Max(s)].size]
        BY <2>2, <2>3
    <2>5. SizeFold(texts, h)
        BY <1>1, <2>4 DEF SizeFold
    <2> QED BY <2>5
<1>4. SizeFold(texts, it)
    BY <1>3
<1> HIDE DEF n, it, op
<1> DEFINE P == {k \in Nat : k <= n => it[1..k] \in Nat}
<1>5. 0 \in P
    BY <1>1, <1>4 DEF SizeFold
<1>6. ASSUME NEW k \in Nat, k \in P PROVE k + 1 \in P
    <2> SUFFICES ASSUME k + 1 <= n PROVE it[1..(k + 1)] \in Nat
        OBVIOUS
    <2>1. Max(1..(k + 1)) = k + 1 /\ (1..(k + 1)) \ {Max(1..(k + 1))} = 1..k
        BY MaxOfInterval
    <2>2. 1..(k + 1) \in SUBSET (1..n) /\ 1..(k + 1) # {}
        <3>1. k + 1 \in 1..(k + 1) /\ \A i \in 1..(k + 1) : i \in 1..n
            BY <1>1
        <3> QED BY <3>1
    <2>3. it[1..(k + 1)] = it[1..k] + texts[k + 1].size
        BY <1>1, <1>4, <2>1, <2>2 DEF SizeFold
    <2> QED BY <1>1, <1>6, <2>3 DEF Texts
<1> HIDE DEF P
<1>7. n \in P
    BY <1>1, <1>5, <1>6, CountingUp
<1>8. it[DOMAIN texts] \in Nat
    BY <1>1, <1>7 DEF P
<1>9. Join(texts).size = it[DOMAIN texts]
    BY DEF Join, it, SizeFold, FoldLeft, MapThenFoldSet
<1>10. \A i \in DOMAIN texts : texts[i].cites \in SUBSET (1..MaxEvidence)
    BY <1>1 DEF Texts
<1>11. Join(texts).cites \in SUBSET (1..MaxEvidence)
    BY <1>10 DEF Join
<1>12. Join(texts) = [cites |-> Join(texts).cites, size |-> Join(texts).size]
    BY Zenon DEF Join
<1> QED BY <1>8, <1>9, <1>11, <1>12 DEF Texts

Cited(texts) == UNION {texts[i].cites : i \in DOMAIN texts}

\* Two texts joined are a text that cites what either does.
LEMMA CitedOfTwo ==
    ASSUME NEW a \in Texts, NEW b \in Texts
    PROVE  /\ Join(<<a, b>>) \in Texts
           /\ Join(<<a, b>>).cites = a.cites \cup b.cites
<1>1. <<a, b>> \in Seq(Texts) /\ DOMAIN <<a, b>> = {1, 2}
    OBVIOUS
<1>2. Join(<<a, b>>).cites = Cited(<<a, b>>)
    BY DEF Join, Cited
<1>3. Cited(<<a, b>>) = a.cites \cup b.cites
    BY <1>1 DEF Cited
<1> QED BY <1>1, <1>2, <1>3, JoinType

\* A list with one more text cites that text's numbers as well.
LEMMA CitedAppend ==
    ASSUME NEW texts \in Seq(Texts), NEW t \in Texts
    PROVE  Cited(Append(texts, t)) = Cited(texts) \cup t.cites
<1> DEFINE n == Len(texts)
           more == Append(texts, t)
<1>1. /\ DOMAIN texts = 1..n /\ DOMAIN more = 1..(n + 1) /\ n \in Nat
      /\ more[n + 1] = t /\ \A i \in 1..n : more[i] = texts[i]
    OBVIOUS
<1>2. 1..(n + 1) = (1..n) \cup {n + 1}
    BY <1>1
<1> HIDE DEF n, more
<1> QED BY <1>1, <1>2 DEF Cited, more

\* Packing the next text keeps every number, and adds a batch at most.
LEMMA PackOneKeeps ==
    ASSUME NEW gs \in Seq(Texts), NEW t \in Texts
    PROVE  /\ PackOne(gs, t) \in Seq(Texts)
           /\ PackOne(gs, t) # <<>>
           /\ Len(PackOne(gs, t)) <= Len(gs) + 1
           /\ Cited(PackOne(gs, t)) = Cited(gs) \cup t.cites
<1>1. CASE gs # <<>> /\ Last(gs).size + t.size <= Budget
    <2>1. /\ Last(gs) \in Texts /\ Front(gs) \in Seq(Texts)
          /\ gs = Append(Front(gs), Last(gs)) /\ Len(Front(gs)) = Len(gs) - 1
        BY <1>1, AppendedApart
    <2>2. PackOne(gs, t) = Append(Front(gs), Join(<<Last(gs), t>>))
        BY <1>1, <2>1, CitedOfTwo DEF PackOne
    <2>3. /\ Join(<<Last(gs), t>>) \in Texts
          /\ Join(<<Last(gs), t>>).cites = Last(gs).cites \cup t.cites
        BY <2>1, CitedOfTwo
    <2>4. Cited(PackOne(gs, t)) = Cited(Front(gs)) \cup (Last(gs).cites \cup t.cites)
        BY <2>1, <2>2, <2>3, CitedAppend
    <2>5. Cited(gs) = Cited(Front(gs)) \cup Last(gs).cites
        BY <2>1, CitedAppend
    <2> QED BY <2>1, <2>2, <2>3, <2>4, <2>5
<1>2. CASE ~(gs # <<>> /\ Last(gs).size + t.size <= Budget)
    <2>1. PackOne(gs, t) = Append(gs, t)
        BY <1>2 DEF PackOne
    <2> QED BY <2>1, CitedAppend
<1> QED BY <1>1, <1>2

PackFold(texts, h) ==
    h = [s \in SUBSET DOMAIN texts |->
            IF s = {} THEN <<>> ELSE PackOne(h[s \ {Max(s)}], texts[Max(s)])]

\* The batches after each text.
LEMMA PackSteps ==
    ASSUME NEW texts \in Seq(Texts)
    PROVE  \E it :
              /\ it[1..0] = <<>>
              /\ \A k \in 0..(Len(texts) - 1) : it[1..(k + 1)] = PackOne(it[1..k], texts[k + 1])
              /\ Pack(texts) = it[1..Len(texts)]
<1> DEFINE n == Len(texts)
           op == [x \in (1..n) \X Seq(Texts) |-> PackOne(x[2], texts[x[1]])]
           it == CHOOSE h : PackFold(texts, h)
<1>1. n \in Nat /\ DOMAIN texts = 1..n /\ \A i \in 1..n : texts[i] \in Texts
    OBVIOUS
<1>2. op \in [(1..n) \X Seq(Texts) -> Seq(Texts)]
    BY <1>1, PackOneKeeps
<1>3. <<>> \in Seq(Texts)
    OBVIOUS
<1> HIDE DEF n, op
<1>4. \E h : PackFold(texts, h)
    <2>1. PICK h : IsLeftFold(h, n, Seq(Texts), <<>>, op)
        BY <1>1, <1>2, <1>3, LeftFoldExists
    <2>2. \A s \in SUBSET (1..n) :
              h[s] = IF s = {} THEN <<>> ELSE PackOne(h[s \ {Max(s)}], texts[Max(s)])
        BY <2>1 DEF op, IsLeftFold
    <2>3. h = [s \in SUBSET (1..n) |-> h[s]]
        BY <2>1 DEF IsLeftFold
    <2>4. h = [s \in SUBSET (1..n) |->
                IF s = {} THEN <<>> ELSE PackOne(h[s \ {Max(s)}], texts[Max(s)])]
        BY <2>2, <2>3
    <2>5. PackFold(texts, h)
        BY <1>1, <2>4 DEF PackFold
    <2> QED BY <2>5
<1>5. PackFold(texts, it)
    BY <1>4
<1> HIDE DEF it
<1>6. it[1..0] = <<>>
    BY <1>1, <1>5 DEF PackFold
<1>7. ASSUME NEW k \in 0..(n - 1)
      PROVE  it[1..(k + 1)] = PackOne(it[1..k], texts[k + 1])
    <2>1. Max(1..(k + 1)) = k + 1 /\ (1..(k + 1)) \ {Max(1..(k + 1))} = 1..k
        BY <1>1, MaxOfInterval
    <2>2. 1..(k + 1) \in SUBSET (1..n) /\ 1..(k + 1) # {}
        <3>1. k + 1 \in 1..(k + 1) /\ \A i \in 1..(k + 1) : i \in 1..n
            BY <1>1
        <3> QED BY <3>1
    <2> QED BY <1>1, <1>5, <2>1, <2>2 DEF PackFold
<1>8. Pack(texts) = it[1..n]
    BY <1>1 DEF Pack, it, PackFold, FoldLeft, MapThenFoldSet
<1> QED BY <1>6, <1>7, <1>8 DEF n

\* Packing loses no number, makes no more batches than there are texts, and
\* some if there are any.
LEMMA PackKeeps ==
    ASSUME NEW texts \in Seq(Texts)
    PROVE  /\ Pack(texts) \in Seq(Texts)
           /\ Len(Pack(texts)) <= Len(texts)
           /\ Cited(Pack(texts)) = Cited(texts)
<1> DEFINE n == Len(texts)
           Upto(k) == UNION {texts[i].cites : i \in 1..k}
<1>1. n \in Nat /\ DOMAIN texts = 1..n /\ \A i \in 1..n : texts[i] \in Texts
    OBVIOUS
<1>2. PICK it :
              /\ it[1..0] = <<>>
              /\ \A k \in 0..(n - 1) : it[1..(k + 1)] = PackOne(it[1..k], texts[k + 1])
              /\ Pack(texts) = it[1..n]
    BY PackSteps
<1> DEFINE Good(k) ==
              /\ it[1..k] \in Seq(Texts)
              /\ Len(it[1..k]) <= k
              /\ Cited(it[1..k]) = Upto(k)
           P == {k \in Nat : k <= n => Good(k)}
<1> HIDE DEF n
<1>3. 0 \in P
    <2>1. Cited(<<>>) = {} /\ Upto(0) = {}
        BY DEF Cited
    <2>2. it[1..0] \in Seq(Texts) /\ Len(it[1..0]) = 0 /\ Cited(it[1..0]) = {}
        BY <1>2, <2>1
    <2> HIDE DEF Upto
    <2>3. Good(0)
        BY <2>1, <2>2
    <2> QED BY <2>3
<1>4. ASSUME NEW k \in Nat, k \in P PROVE k + 1 \in P
    <2> SUFFICES ASSUME k + 1 <= n PROVE Good(k + 1)
        OBVIOUS
    <2>1. k \in 0..(n - 1) /\ k + 1 \in 1..n
        BY <1>1
    <2>2. Good(k)
        BY <1>1, <1>4
    <2>3. it[1..(k + 1)] = PackOne(it[1..k], texts[k + 1])
        BY <1>2, <2>1
    <2>4. texts[k + 1] \in Texts
        BY <1>1, <2>1
    <2>5. Upto(k + 1) = Upto(k) \cup texts[k + 1].cites
        <3>1. 1..(k + 1) = (1..k) \cup {k + 1}
            OBVIOUS
        <3> QED BY <3>1
    <2> HIDE DEF Upto
    <2> DEFINE g == it[1..k]
    <2>6. g \in Seq(Texts) /\ Len(g) <= k /\ Cited(g) = Upto(k) /\ Len(g) \in Nat
        BY <2>2
    <2> HIDE DEF g
    <2>7. /\ PackOne(g, texts[k + 1]) \in Seq(Texts)
          /\ Len(PackOne(g, texts[k + 1])) <= Len(g) + 1
          /\ Cited(PackOne(g, texts[k + 1])) = Cited(g) \cup texts[k + 1].cites
        BY <2>4, <2>6, PackOneKeeps
    <2>8. Len(PackOne(g, texts[k + 1])) <= k + 1
        BY <2>6, <2>7
    <2>9. it[1..(k + 1)] = PackOne(g, texts[k + 1])
        BY <2>3 DEF g
    <2> QED BY <2>5, <2>6, <2>7, <2>8, <2>9
<1> HIDE DEF P, Good
<1>5. n \in P
    BY <1>1, <1>3, <1>4, CountingUp
<1>6. Good(n)
    BY <1>1, <1>5 DEF P
<1> QED BY <1>1, <1>2, <1>6 DEF Good, Cited, n


----------------------------------------------------------------------------
(* The inductive invariant.                                                *)

Pieces == [size : Sizes, claim : Claims]

EvidenceInv == evidence \in Seq(Pieces) /\ Len(evidence) \in 0..MaxEvidence

\* What is being condensed are texts that cite the evidence, never more of them
\* than there are pieces of evidence, and only in a pass.
WorkInv ==
    /\ groups \in Seq(Texts) /\ digests \in Seq(Texts) /\ merged \in Texts
    /\ Cited(groups) \cup Cited(digests) \cup merged.cites \cup excused \subseteq Numbers
    /\ Len(groups) + Len(digests) <= Len(evidence)
    /\ groups # <<>> => stage \in {"condense", "reduce", "failed"}
    /\ stage = "start" => digests = <<>>

DepthInv ==
    /\ stage \in {"start", "condense", "reduce", "merged", "answer", "repair", "done", "failed"}
    /\ depth \in 0..MaxDepth
    /\ stage = "reduce" => depth < MaxDepth

\* In the middle of a pass no number is lost either.
KeptInv ==
    /\ stage \in {"condense", "reduce"} =>
          \A n \in Numbers :
              \/ n \in Cited(groups) \/ n \in Cited(digests)
              \/ n \in excused \/ ~HasClaim(n)
    /\ NothingLostToTheMerge

AnswerInv ==
    /\ answer.text \in Seq(Sentences)
    /\ stage = "start" => answer = NoAnswer
    /\ answer.uncited \subseteq (IF stage = "done" THEN DOMAIN answer.text ELSE 1..MaxSentences)
    /\ NoCitationNoClaim

IInv == EvidenceInv /\ WorkInv /\ DepthInv /\ KeptInv /\ AnswerInv

\* The inductive invariant types the state.
LEMMA InvTyped == IInv => TypeOK
<1> SUFFICES ASSUME IInv PROVE TypeOK
    OBVIOUS
<1>1. /\ Len(evidence) \in 0..MaxEvidence
      /\ \A n \in Numbers : evidence[n] \in Pieces
    BY DEF IInv, EvidenceInv, Numbers
<1>2. /\ \A i \in DOMAIN groups : groups[i] \in Texts
      /\ \A i \in DOMAIN digests : digests[i] \in Texts
    BY DEF IInv, WorkInv
<1>3. \A i \in DOMAIN answer.text : answer.text[i] \in Sentences
    BY DEF IInv, AnswerInv
<1> QED BY <1>1, <1>2, <1>3 DEF IInv, WorkInv, DepthInv, AnswerInv, TypeOK, Pieces

\* It holds at the start.
LEMMA InvInit == Init => IInv
<1> SUFFICES ASSUME Init PROVE IInv
    OBVIOUS
<1>1. PICK n \in 0..MaxEvidence : evidence \in [1..n -> Pieces]
    BY DEF Init, Pieces
<1>2. EvidenceInv
    BY <1>1, Bounds DEF EvidenceInv
<1>3. Blank \in Texts /\ Blank.cites = {} /\ Cited(<<>>) = {}
    BY DEF Blank, Texts, Cited
<1>4. WorkInv
    BY <1>2, <1>3 DEF Init, WorkInv, EvidenceInv
<1>5. DepthInv /\ KeptInv
    BY DEF Init, DepthInv, KeptInv, NothingLostToTheMerge
<1>6. AnswerInv
    BY DEF Init, NoAnswer, AnswerInv, NoCitationNoClaim
<1> QED BY <1>2, <1>4, <1>5, <1>6 DEF IInv

----------------------------------------------------------------------------
(* The reduce.                                                             *)

\* The evidence as texts.
LEMMA BlocksCite ==
    ASSUME EvidenceInv
    PROVE  /\ Blocks \in Seq(Texts) /\ Len(Blocks) = Len(evidence)
           /\ Cited(Blocks) = Numbers
           /\ Numbers = 1..Len(evidence) /\ Numbers \subseteq 1..MaxEvidence
<1>1. Len(evidence) \in Nat /\ Numbers = 1..Len(evidence) /\ Numbers \subseteq 1..MaxEvidence
    BY DEF EvidenceInv, Numbers
<1>2. \A n \in Numbers : Block(n) \in Texts /\ Block(n).cites = {n}
    <2> SUFFICES ASSUME NEW n \in Numbers PROVE Block(n) \in Texts /\ Block(n).cites = {n}
        OBVIOUS
    <2>1. evidence[n].size \in Nat
        <3>1. evidence[n] \in Pieces
            BY DEF EvidenceInv, Numbers
        <3> QED BY <3>1 DEF Pieces
    <2>2. {n} \in SUBSET (1..MaxEvidence)
        BY <1>1
    <2> QED BY <2>1, <2>2 DEF Block, Texts
<1>3. Blocks \in [1..Len(evidence) -> Texts]
    BY <1>1, <1>2 DEF Blocks
<1>4. Cited(Blocks) = Numbers
    BY <1>2 DEF Blocks, Cited
<1> QED BY <1>1, <1>3, <1>4

\* A joined text cites what its parts cite.
LEMMA JoinCites ==
    ASSUME NEW texts
    PROVE  Join(texts).cites = Cited(texts)
BY DEF Join, Cited

\* Evidence that fits goes to the answer whole; the rest is packed whole.
LEMMA StartNext == IInv /\ Start => IInv'
<1> SUFFICES ASSUME IInv, Start PROVE IInv'
    OBVIOUS
<1> USE DEF IInv
<1>1. UNCHANGED <<evidence, depth, digests, excused, answer, Numbers>>
    BY DEF Start, Numbers
<1>2. EvidenceInv'
    BY <1>1 DEF EvidenceInv
<1>3. digests = <<>> /\ groups = <<>> /\ Cited(<<>>) = {}
    BY DEF Start, WorkInv, Cited
<1>4. /\ Pack(Blocks) \in Seq(Texts) /\ Cited(Pack(Blocks)) = Numbers
      /\ Len(Pack(Blocks)) <= Len(evidence)
      /\ Join(Blocks) \in Texts /\ Join(Blocks).cites = Numbers
    BY BlocksCite, PackKeeps, JoinType, JoinCites
<1>5. merged \in Texts /\ merged.cites \subseteq Numbers /\ excused \subseteq Numbers
    BY DEF WorkInv
<1>6. CASE stage' = "done"
    <2>1. evidence = <<>> /\ UNCHANGED <<groups, merged>> /\ answer = NoAnswer
        BY <1>6 DEF Start, AnswerInv
    <2>2. WorkInv'
        BY <1>1, <1>6, <2>1 DEF WorkInv, Cited
    <2>3. DepthInv' /\ KeptInv'
        BY <1>1, <1>6 DEF DepthInv, KeptInv, NothingLostToTheMerge
    <2>4. AnswerInv'
        BY <1>1, <1>6, <2>1 DEF AnswerInv, NoCitationNoClaim, NoAnswer
    <2> QED BY <1>2, <2>2, <2>3, <2>4
<1>7. CASE stage' = "merged"
    <2>1. merged' = Join(Blocks) /\ UNCHANGED groups
        BY <1>7 DEF Start
    <2>2. WorkInv'
        BY <1>1, <1>3, <1>4, <1>5, <1>7, <2>1 DEF WorkInv, Cited
    <2>3. DepthInv' /\ KeptInv'
        BY <1>1, <1>4, <1>7, <2>1 DEF DepthInv, KeptInv, NothingLostToTheMerge
    <2>4. AnswerInv'
        BY <1>1, <1>7 DEF Start, AnswerInv, NoCitationNoClaim, NoAnswer
    <2> QED BY <1>2, <2>2, <2>3, <2>4
<1>8. CASE stage' = "condense"
    <2>1. groups' = Pack(Blocks) /\ UNCHANGED merged
        BY <1>8 DEF Start
    <2>2. WorkInv'
        <3>1. Cited(groups') = Numbers /\ Cited(digests') = {}
            BY <1>1, <1>3, <1>4, <2>1
        <3>2. Len(digests') = 0 /\ digests' = <<>>
            BY <1>1, <1>3
        <3> QED BY <1>1, <1>4, <1>5, <1>8, <2>1, <3>1, <3>2 DEF WorkInv, Cited
    <2>3. DepthInv' /\ KeptInv'
        BY <1>1, <1>4, <1>8, <2>1 DEF DepthInv, KeptInv, NothingLostToTheMerge, Cited
    <2>4. AnswerInv'
        BY <1>1, <1>8 DEF Start, AnswerInv, NoCitationNoClaim, NoAnswer
    <2> QED BY <1>2, <2>2, <2>3, <2>4
<1> QED BY <1>6, <1>7, <1>8 DEF Start

\* A list cites what its first text and the rest cite.
LEMMA CitedHead ==
    ASSUME NEW texts \in Seq(Texts), texts # <<>>
    PROVE  /\ Head(texts) \in Texts /\ Tail(texts) \in Seq(Texts)
           /\ Len(Tail(texts)) = Len(texts) - 1
           /\ Cited(texts) = Head(texts).cites \cup Cited(Tail(texts))
<1> DEFINE n == Len(texts)
           rest == Tail(texts)
<1>1. /\ Head(texts) = texts[1] /\ Head(texts) \in Texts /\ rest \in Seq(Texts)
      /\ n \in Nat \ {0} /\ Len(rest) = n - 1
      /\ \A i \in 1..(n - 1) : rest[i] = texts[i + 1]
      /\ DOMAIN texts = 1..n /\ DOMAIN rest = 1..(n - 1)
    OBVIOUS
<1> HIDE DEF n, rest
<1>2. ASSUME NEW i \in 1..n, i # 1 PROVE i - 1 \in 1..(n - 1) /\ rest[i - 1] = texts[i]
    <2>1. i - 1 \in 1..(n - 1) /\ (i - 1) + 1 = i
        BY <1>1, <1>2
    <2> QED BY <1>1, <2>1
<1>3. Cited(texts) \subseteq texts[1].cites \cup Cited(rest)
    BY <1>1, <1>2 DEF Cited
<1>4. 1 \in 1..n /\ \A i \in 1..(n - 1) : i + 1 \in 1..n
    BY <1>1
<1>5. texts[1].cites \cup Cited(rest) \subseteq Cited(texts)
    BY <1>1, <1>4 DEF Cited
<1> QED BY <1>1, <1>3, <1>5 DEF n, rest

\* One condensing call: what it leaves out of its batch is excused or blank.
LEMMA CondenseKeeps ==
    ASSUME IInv, stage \in {"condense", "reduce"}, groups # <<>>,
           NEW d \in Texts, d.cites \subseteq Head(groups).cites,
           digests' = Append(digests, d), groups' = Tail(groups),
           excused \subseteq excused', excused' \subseteq excused \cup Head(groups).cites,
           \A n \in Head(groups).cites : n \in d.cites \/ n \in excused' \/ ~HasClaim(n),
           UNCHANGED <<evidence, stage, depth, merged, answer>>
    PROVE  IInv'
<1> USE DEF IInv
<1>1. EvidenceInv' /\ DepthInv' /\ UNCHANGED Numbers /\ \A n \in Numbers : HasClaim(n)' = HasClaim(n)
    BY DEF EvidenceInv, DepthInv, Numbers, HasClaim
<1>2. /\ groups \in Seq(Texts) /\ digests \in Seq(Texts)
      /\ Len(groups) + Len(digests) <= Len(evidence) /\ Len(evidence) \in Nat
    BY DEF WorkInv, EvidenceInv
<1>3. /\ Tail(groups) \in Seq(Texts) /\ Len(Tail(groups)) = Len(groups) - 1
      /\ Cited(groups) = Head(groups).cites \cup Cited(groups')
    BY <1>2, CitedHead
<1>4. /\ Append(digests, d) \in Seq(Texts) /\ Len(Append(digests, d)) = Len(digests) + 1
      /\ Cited(digests') = Cited(digests) \cup d.cites
    BY <1>2, CitedAppend
<1>5. /\ Cited(groups') \cup Cited(digests') \cup merged'.cites \cup excused' \subseteq Numbers
      /\ merged' \in Texts
    BY <1>3, <1>4 DEF WorkInv
<1>6. Len(groups') + Len(digests') <= Len(evidence')
    BY <1>2, <1>3, <1>4
<1>7. WorkInv'
    BY <1>1, <1>3, <1>4, <1>5, <1>6 DEF WorkInv
<1>8. KeptInv'
    <2> SUFFICES ASSUME NEW n \in Numbers
                 PROVE  \/ n \in Cited(groups') \/ n \in Cited(digests')
                        \/ n \in excused' \/ ~HasClaim(n)
        BY <1>1 DEF KeptInv, NothingLostToTheMerge
    <2>1. \/ n \in Cited(groups) \/ n \in Cited(digests) \/ n \in excused \/ ~HasClaim(n)
        BY DEF KeptInv
    <2> QED BY <1>3, <1>4, <2>1
<1>9. AnswerInv'
    BY <1>1 DEF AnswerInv, NoCitationNoClaim
<1> QED BY <1>1, <1>7, <1>8, <1>9

\* A batch of evidence condensed keeps its numbers or has them excused.
LEMMA CondenseEvidenceNext == IInv /\ CondenseEvidence => IInv'
<1> SUFFICES ASSUME IInv, CondenseEvidence PROVE IInv'
    OBVIOUS
<1> DEFINE batch == Head(groups)
<1>1. /\ stage = "condense" /\ groups # <<>> /\ groups' = Tail(groups)
      /\ UNCHANGED <<evidence, stage, depth, merged, answer>>
    BY DEF CondenseEvidence
<1>2. batch \in Texts
    BY <1>1, CitedHead DEF IInv, WorkInv
<1>3. CASE \E d \in Replies(batch) :
              /\ digests' = Append(digests, d)
              /\ excused' = excused \cup (batch.cites \ d.cites)
    <2>1. PICK d \in Replies(batch) :
              /\ digests' = Append(digests, d)
              /\ excused' = excused \cup (batch.cites \ d.cites)
        BY <1>3
    <2>2. d \in Texts /\ d.cites \subseteq batch.cites
        BY <1>2, Bounds DEF Replies, Texts
    <2> QED BY <1>1, <2>1, <2>2, CondenseKeeps
<1>4. CASE /\ digests' = Append(digests, ClaimsDigest(batch.cites))
           /\ UNCHANGED excused
    <2> DEFINE said == {n \in batch.cites : HasClaim(n)}
               d == ClaimsDigest(batch.cites)
    <2>0. batch.cites \subseteq 1..MaxEvidence
        BY <1>2 DEF Texts
    <2>1. said \subseteq 1..MaxEvidence /\ IsFiniteSet(1..MaxEvidence)
        BY <2>0, Bounds, FS_Interval
    <2>2. Cardinality(said) \in Nat
        BY <2>1, FS_Subset, FS_CardinalityType
    <2>3. d \in Texts /\ d.cites = said
        BY <2>1, <2>2 DEF ClaimsDigest, Texts
    <2> HIDE DEF d
    <2>4. digests' = Append(digests, d)
        BY <1>4 DEF d
    <2> QED BY <1>1, <1>4, <2>3, <2>4, CondenseKeeps
<1> QED BY <1>3, <1>4 DEF CondenseEvidence

\* So does a batch of digests.
LEMMA CondenseTextNext == IInv /\ CondenseText => IInv'
<1> SUFFICES ASSUME IInv, CondenseText PROVE IInv'
    OBVIOUS
<1> DEFINE batch == Head(groups)
<1>1. /\ stage = "reduce" /\ groups # <<>> /\ groups' = Tail(groups)
      /\ UNCHANGED <<evidence, stage, depth, merged, answer>>
    BY DEF CondenseText
<1>2. batch \in Texts
    BY <1>1, CitedHead DEF IInv, WorkInv
<1>3. CASE \E d \in Replies(batch) :
              /\ digests' = Append(digests, d)
              /\ excused' = excused \cup (batch.cites \ d.cites)
    <2>1. PICK d \in Replies(batch) :
              /\ digests' = Append(digests, d)
              /\ excused' = excused \cup (batch.cites \ d.cites)
        BY <1>3
    <2>2. d \in Texts /\ d.cites \subseteq batch.cites
        BY <1>2, Bounds DEF Replies, Texts
    <2> QED BY <1>1, <2>1, <2>2, CondenseKeeps
<1>4. CASE \E d \in Truncated(batch) :
              /\ digests' = Append(digests, d)
              /\ excused' = IF Keepable(batch) THEN excused
                            ELSE excused \cup (batch.cites \ d.cites)
    <2>1. PICK d \in Truncated(batch) :
              /\ digests' = Append(digests, d)
              /\ excused' = IF Keepable(batch) THEN excused
                            ELSE excused \cup (batch.cites \ d.cites)
        BY <1>4
    <2>2. d \in Texts /\ d.cites \subseteq batch.cites
        <3>1. batch.size \in Nat /\ batch.cites \in SUBSET (1..MaxEvidence)
            BY <1>2 DEF Texts
        <3>2. CASE d = batch
            BY <1>2, <3>2
        <3>3. CASE d \in [cites : SUBSET batch.cites,
                          size : 1..(IF batch.size < Budget * 4 THEN batch.size ELSE Budget * 4)]
            BY <3>1, <3>3, Bounds DEF Texts
        <3> QED BY <2>1, <3>2, <3>3 DEF Truncated
    <2>3. Keepable(batch) => d = batch
        BY <2>1 DEF Truncated
    <2> QED BY <1>1, <2>1, <2>2, <2>3, CondenseKeeps
<1> QED BY <1>3, <1>4 DEF CondenseText

\* The end of a pass joins all digests, packs them again, or truncates them
\* and excuses what is lost.
LEMMA PassEndsNext == IInv /\ PassEnds => IInv'
<1> SUFFICES ASSUME IInv, PassEnds PROVE IInv'
    OBVIOUS
<1> USE DEF IInv
<1>1. /\ groups = <<>> /\ stage \in {"condense", "reduce"} /\ Cited(<<>>) = {}
      /\ UNCHANGED <<evidence, excused, answer, Numbers>>
      /\ \A n \in Numbers : HasClaim(n)' = HasClaim(n)
    BY DEF PassEnds, Numbers, HasClaim, Cited
<1>2. /\ digests \in Seq(Texts) /\ Len(digests) <= Len(evidence)
      /\ Len(digests) \in Nat /\ Len(evidence) \in Nat
      /\ Cited(digests) \subseteq Numbers /\ excused \subseteq Numbers
    BY <1>1 DEF WorkInv, EvidenceInv
<1>3. /\ Pack(digests) \in Seq(Texts) /\ Cited(Pack(digests)) = Cited(digests)
      /\ Len(Pack(digests)) <= Len(digests)
      /\ Join(digests) \in Texts /\ Join(digests).cites = Cited(digests)
    BY <1>2, PackKeeps, JoinType, JoinCites
<1>4. \A n \in Numbers : n \in Cited(digests) \/ n \in excused \/ ~HasClaim(n)
    BY <1>1 DEF KeptInv
<1>5. /\ merged' = Join(digests) /\ digests' = <<>>
      /\ \/ stage' = "merged" /\ groups' = <<>>
         \/ stage' = "reduce" /\ groups' = Pack(digests) /\ depth' < MaxDepth
      /\ depth' \in 0..MaxDepth
    <2>1. depth \in 0..MaxDepth /\ (stage = "reduce" => depth < MaxDepth)
        BY DEF DepthInv
    <2>2. CASE stage = "condense" /\ Loop(Join(digests), 0)
        BY <1>1, <2>1, <2>2, Bounds DEF Loop
    <2>3. CASE stage = "reduce" /\ Loop(Join(digests), depth + 1)
        BY <1>1, <2>1, <2>3, Bounds DEF Loop
    <2>4. CASE /\ stage = "reduce" /\ Join(digests) = merged
               /\ stage' = "merged" /\ digests' = <<>>
               /\ UNCHANGED <<depth, groups, merged>>
        BY <1>1, <2>1, <2>4
    <2> QED BY <2>2, <2>3, <2>4 DEF PassEnds
<1>6. EvidenceInv' /\ DepthInv' /\ AnswerInv'
    BY <1>1, <1>5 DEF EvidenceInv, DepthInv, AnswerInv, NoCitationNoClaim
<1>7. WorkInv'
    <2>1. Cited(digests') = {} /\ Len(digests') = 0 /\ digests' \in Seq(Texts)
        BY <1>1, <1>5
    <2>2. groups' \in Seq(Texts) /\ Len(groups') <= Len(evidence) /\ Cited(groups') \subseteq Numbers
        <3>1. CASE groups' = <<>>
            BY <1>1, <1>2, <3>1
        <3>2. CASE groups' = Pack(digests)
            <4>1. Len(Pack(digests)) \in Nat
                BY <1>3
            <4> QED BY <1>2, <1>3, <3>2, <4>1
        <3> QED BY <1>5, <3>1, <3>2
    <2> QED BY <1>1, <1>2, <1>3, <1>5, <2>1, <2>2 DEF WorkInv
<1>8. KeptInv'
    BY <1>1, <1>3, <1>4, <1>5 DEF KeptInv, NothingLostToTheMerge
<1> QED BY <1>6, <1>7, <1>8

----------------------------------------------------------------------------
(* The answer.                                                             *)

\* What is shown of a text that was composed: nothing is claimed unmarked.
LEMMA ResolvedIsMarked ==
    ASSUME NEW text, NEW i \in DOMAIN text, i \notin Resolve(text).uncited
    PROVE  /\ text[i].claim => text[i].cites \cap Numbers # {}
           /\ text[i].cites \ Numbers = {}
BY DEF Resolve, Marked

\* The digest of last resort is a text, and not an empty one.
LEMMA FallbackIsText ==
    ASSUME EvidenceInv
    PROVE  /\ FallbackDigest.text \in Seq(Sentences) /\ FallbackDigest.text # <<>>
           /\ FallbackDigest.sources = Sources(FallbackDigest.text)
           /\ FallbackDigest.uncited = {} /\ FallbackDigest.fallback = TRUE
<1> DEFINE Line(n) == CASE evidence[n].claim = "blank" -> <<>>
                     [] evidence[n].claim = "sentence" -> <<[cites |-> {n}, claim |-> TRUE]>>
                     [] OTHER -> <<[cites |-> {}, claim |-> TRUE], [cites |-> {n}, claim |-> TRUE]>>
           lines == [n \in Numbers |-> Line(n)]
           lead == <<[cites |-> {}, claim |-> FALSE]>>
           text == lead \o FlattenSeq(lines)
<1>1. Numbers = 1..Len(evidence) /\ Numbers \subseteq 1..MaxEvidence /\ Len(evidence) \in Nat
    BY BlocksCite DEF EvidenceInv
<1>2. \A n \in Numbers : Line(n) \in Seq(Sentences)
    <2> SUFFICES ASSUME NEW n \in Numbers PROVE Line(n) \in Seq(Sentences)
        OBVIOUS
    <2>1. [cites |-> {n}, claim |-> TRUE] \in Sentences /\ [cites |-> {}, claim |-> TRUE] \in Sentences
        BY <1>1, Bounds DEF Sentences
    <2>2. <<>> \in Seq(Sentences) /\ \A a, b \in Sentences : <<a>> \in Seq(Sentences) /\ <<a, b>> \in Seq(Sentences)
        OBVIOUS
    <2> QED BY <2>1, <2>2
<1>3. lines \in Seq(Seq(Sentences))
    BY <1>1, <1>2
<1>4. FlattenSeq(lines) \in Seq(Sentences)
    BY <1>3, FlattenType
<1>5. lead \in Seq(Sentences) /\ Len(lead) = 1
    BY DEF Sentences
<1> HIDE DEF lead, lines
<1>6. text \in Seq(Sentences) /\ text # <<>>
    <2> DEFINE rest == FlattenSeq(lines)
    <2>1. rest \in Seq(Sentences)
        BY <1>4
    <2> HIDE DEF rest
    <2>2. lead \o rest \in Seq(Sentences) /\ Len(lead \o rest) = 1 + Len(rest) /\ Len(rest) \in Nat
        <3>1. /\ lead \o rest \in Seq(Sentences)
              /\ Len(lead \o rest) = Len(lead) + Len(rest)
            BY <1>5, <2>1, ConcatProperties, Zenon
        <3> QED BY <1>5, <2>1, <3>1
    <2>3. lead \o rest # <<>>
        BY <2>2
    <2> QED BY <2>2, <2>3 DEF rest
<1>7. FallbackDigest = [Resolve(text) EXCEPT !.uncited = {}, !.fallback = TRUE]
    BY DEF FallbackDigest, lead, lines
<1> HIDE DEF text
<1> QED BY <1>6, <1>7 DEF Resolve

\* A finished answer rests on the evidence.
LEMMA AnsweredIsCited ==
    ASSUME EvidenceInv, NEW text \in Seq(Sentences), stage' = "done", Answered(text),
           UNCHANGED evidence
    PROVE  AnswerInv'
<1>1. UNCHANGED Numbers
    BY DEF Numbers
<1>2. CASE text = <<>>
    <2>1. answer' = FallbackDigest
        BY <1>2 DEF Answered
    <2>2. answer'.sources = (UNION {answer'.text[i].cites : i \in DOMAIN answer'.text}) \cap Numbers
        BY <2>1, FallbackIsText DEF Sources
    <2> QED BY <1>1, <2>1, <2>2, FallbackIsText DEF AnswerInv, NoCitationNoClaim
<1>3. CASE text # <<>>
    <2>1. answer' = Resolve(text)
        BY <1>3 DEF Answered
    <2>2. /\ answer'.text = text /\ answer'.uncited \subseteq DOMAIN text
          /\ answer'.sources = (UNION {text[i].cites : i \in DOMAIN text}) \cap Numbers
        BY <2>1 DEF Resolve, Sources
    <2>3. \A i \in DOMAIN text : i \notin answer'.uncited =>
              /\ text[i].claim => text[i].cites \cap Numbers # {}
              /\ text[i].cites \ Numbers = {}
        BY <2>1, ResolvedIsMarked
    <2> QED BY <1>1, <1>3, <2>2, <2>3 DEF AnswerInv, NoCitationNoClaim
<1> QED BY <1>2, <1>3

\* A reply is a sequence of sentences no longer than the bound.
LEMMA ReplyIsText ==
    ASSUME EvidenceInv, NEW k \in 0..MaxSentences, NEW text \in [1..k -> ReplySentences]
    PROVE  text \in Seq(Sentences) /\ DOMAIN text \subseteq 1..MaxSentences
<1>1. ReplySentences \subseteq Sentences
    <2>1. Len(evidence) + 1 \in 1..(MaxEvidence + 1) /\ Numbers \subseteq 1..(MaxEvidence + 1)
        BY BlocksCite, Bounds DEF EvidenceInv
    <2>2. ASSUME NEW r \in ReplySentences PROVE r \in Sentences
        <3> DEFINE wrong == Len(evidence) + 1
        <3>1. CASE r \in [cites : {{}}, claim : BOOLEAN]
            BY <3>1 DEF Sentences
        <3>2. CASE r \in [cites : {{wrong}} \cup UNION {{{n}, {n, wrong}} : n \in Numbers},
                          claim : {TRUE}]
            <4>1. /\ r.cites = {wrong} \/ \E n \in Numbers : r.cites \in {{n}, {n, wrong}}
                  /\ r.claim = TRUE /\ r = [cites |-> r.cites, claim |-> r.claim]
                BY <3>2
            <4>2. r.cites \subseteq 1..(MaxEvidence + 1)
                BY <2>1, <4>1
            <4> QED BY <4>1, <4>2 DEF Sentences
        <3> QED BY <2>2, <3>1, <3>2 DEF ReplySentences
    <2> QED BY <2>2
<1>2. text \in [1..k -> Sentences] /\ k \in Nat
    BY <1>1, Bounds
<1> QED BY <1>2, Bounds

\* Resolution drops the numbers that are no evidence and marks the claims
\* left without one.
LEMMA AnswerNext == IInv /\ Answer => IInv'
<1> SUFFICES ASSUME IInv, Answer PROVE IInv'
    OBVIOUS
<1> USE DEF IInv
<1>1. /\ stage \in {"answer", "repair"} /\ stage' \in {"repair", "done"} /\ groups = <<>>
      /\ UNCHANGED <<evidence, depth, groups, digests, merged, excused, Numbers>>
    BY DEF Answer, WorkInv, Numbers
<1>2. EvidenceInv' /\ WorkInv' /\ DepthInv' /\ KeptInv'
    BY <1>1 DEF EvidenceInv, WorkInv, DepthInv, KeptInv, NothingLostToTheMerge, Cited
<1>3. PICK k \in 0..MaxSentences : \E text \in [1..k -> ReplySentences] :
          IF stage = "answer" /\ Resolve(text).uncited # {}
          THEN stage' = "repair" /\ answer' = [Resolve(text) EXCEPT !.text = <<>>]
          ELSE stage' = "done" /\ Answered(text)
    BY DEF Answer
<1>4. PICK text \in [1..k -> ReplySentences] :
          IF stage = "answer" /\ Resolve(text).uncited # {}
          THEN stage' = "repair" /\ answer' = [Resolve(text) EXCEPT !.text = <<>>]
          ELSE stage' = "done" /\ Answered(text)
    BY <1>3
<1>7. text \in Seq(Sentences) /\ DOMAIN text \subseteq 1..MaxSentences
    BY ReplyIsText
<1>5. CASE stage' = "repair" /\ answer' = [Resolve(text) EXCEPT !.text = <<>>]
    <2>1. answer'.text = <<>> /\ answer'.uncited \subseteq DOMAIN text
        BY <1>5 DEF Resolve
    <2> QED BY <1>2, <1>7, <1>5, <2>1 DEF AnswerInv, NoCitationNoClaim
<1>6. CASE stage' = "done" /\ Answered(text)
    BY <1>1, <1>2, <1>7, <1>6, AnsweredIsCited
<1> QED BY <1>4, <1>5, <1>6

\* Every step keeps it.
LEMMA InvNext == IInv /\ [Next]_vars => IInv'
<1> SUFFICES ASSUME IInv, [Next]_vars PROVE IInv'
    OBVIOUS
<1> USE DEF IInv
<1>1. CASE CallForAnswer
    <2>1. UNCHANGED <<evidence, groups, digests, answer, Numbers>>
        BY <1>1 DEF CallForAnswer, Numbers
    <2>2. Blank \in Texts /\ Blank.cites = {}
        BY DEF Blank, Texts
    <2>3. WorkInv'
        BY <1>1, <2>1, <2>2 DEF CallForAnswer, WorkInv, Cited
    <2> QED BY <1>1, <2>1, <2>3, Bounds
            DEF CallForAnswer, EvidenceInv, DepthInv, KeptInv, NothingLostToTheMerge,
                AnswerInv, NoCitationNoClaim
<1>2. CASE CallFails
    <2>1. UNCHANGED <<evidence, depth, groups, digests, merged, excused, answer, Numbers>>
        BY <1>2 DEF CallFails, Numbers
    <2>2. stage # "done" /\ stage' = "failed"
        BY <1>2 DEF CallFails, WorkInv
    <2> QED BY <2>1, <2>2
            DEF EvidenceInv, WorkInv, Cited, DepthInv, KeptInv, NothingLostToTheMerge,
                AnswerInv, NoCitationNoClaim
<1>3. CASE UNCHANGED vars
    <2>1. /\ UNCHANGED <<evidence, stage, depth, groups, digests, merged, excused, answer>>
          /\ UNCHANGED Numbers /\ \A n \in Numbers : HasClaim(n)' = HasClaim(n)
        BY <1>3 DEF vars, Numbers, HasClaim
    <2>2. EvidenceInv' /\ DepthInv' /\ AnswerInv'
        BY <2>1 DEF EvidenceInv, DepthInv, AnswerInv, NoCitationNoClaim
    <2>3. WorkInv' /\ KeptInv'
        BY <2>1 DEF WorkInv, Cited, KeptInv, NothingLostToTheMerge
    <2> QED BY <2>2, <2>3
<1> QED
    BY <1>1, <1>2, <1>3, StartNext, CondenseEvidenceNext, CondenseTextNext,
       PassEndsNext, AnswerNext DEF Next

\* It holds in every reachable state.
LEMMA InvHolds == Spec => []IInv
BY InvInit, InvNext, PTL DEF Spec

\* A synthesis holds no more batches than it had evidence and makes no more
\* passes than its bound, however long the digests its model returns.
THEOREM TypeCorrect == Spec => []TypeOK
BY InvHolds, InvTyped, PTL

\* In an answer that is shown every claim cites evidence that exists or is
\* among those marked as uncited, after any repair round and in the digest
\* that replaces an answer without citations.
THEOREM ClaimsAreCited == Spec => []NoCitationNoClaim
<1>1. IInv => NoCitationNoClaim
    BY DEF IInv, AnswerInv
<1> QED BY <1>1, InvHolds, PTL

\* Through any number of condensing passes an evidence number is lost only
\* where a reply left it out or a text was cut: batching and joining lose none.
THEOREM NumbersSurvive == Spec => []NothingLostToTheMerge
<1>1. IInv => NothingLostToTheMerge
    BY DEF IInv, KeptInv
<1> QED BY <1>1, InvHolds, PTL
=============================================================================
