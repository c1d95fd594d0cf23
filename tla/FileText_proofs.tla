--------------------------- MODULE FileText_proofs ---------------------------
(***************************************************************************)
(* What is proved of one file's text on its way through the program, for   *)
(* texts, token budgets, weights and thresholds of any size: where its     *)
(* pages are marked, how it is cut into sections, and what becomes of a    *)
(* quote.                                                                  *)
(***************************************************************************)
EXTENDS FileText, FoldFacts

----------------------------------------------------------------------------
(* Texts.                                                                  *)

\* The characters texts are made of and can be counted.
Char == Symbols \cap DOMAIN Weight

\* What an item exports to is a text.
LEMMA PieceType == Pieces \subseteq Seq(Char)
<1> SUFFICES ASSUME NEW s \in Pieces PROVE s \in Seq(Char)
    OBVIOUS
<1>1. s \in Seq(Symbols) /\ s \in Seq(DOMAIN Weight)
    BY FileTextAssumption
<1>2. \A k \in 1..Len(s) : s[k] \in Char
    BY <1>1 DEF Char
<1>3. Len(s) \in Nat /\ s = [k \in 1..Len(s) |-> s[k]]
    BY <1>1
<1> QED BY <1>2, <1>3

\* A part of a text, from any place to any other, is a text.
LEMMA PartType ==
    ASSUME NEW S, NEW s \in Seq(S), NEW i \in 1..Len(s), NEW j \in 1..Len(s), i <= j
    PROVE  /\ SubSeq(s, i, j) \in Seq(S)
           /\ Len(SubSeq(s, i, j)) = j - i + 1
           /\ \A k \in 1..(j - i + 1) : SubSeq(s, i, j)[k] = s[i + k - 1]
BY SubSeqProperties

\* Where the text that is left of s without the blanks around it starts and ends.
LEMMA StrippedEnds ==
    ASSUME NEW S, NEW s \in Seq(S), Stripped(s) # <<>>
    PROVE  \E i, j \in 1..Len(s) :
              /\ i <= j /\ Stripped(s) = SubSeq(s, i, j)
              /\ s[i] \notin Blanks /\ s[j] \notin Blanks
              /\ \A k \in 1..Len(s) : s[k] \notin Blanks => i <= k /\ k <= j
<1> DEFINE solid == {i \in DOMAIN s : s[i] \notin Blanks}
<1>1. solid # {}
    BY DEF Stripped
<1>2. solid \subseteq Nat /\ solid \subseteq Int /\ DOMAIN s = 1..Len(s) /\ Len(s) \in Nat
    OBVIOUS
<1>3. IsFiniteSet(solid)
    <2>1. IsFiniteSet(1..Len(s)) /\ solid \subseteq 1..Len(s)
        BY <1>2, FS_Interval
    <2> QED BY <2>1, FS_Subset
<1> DEFINE i == Min(solid)
           j == Max(solid)
<1>4. i \in solid /\ \A x \in solid : i <= x
    BY <1>1, <1>2, MinIn
<1>5. j \in solid /\ \A x \in solid : x <= j
    BY <1>1, <1>2, <1>3, MaxIn
<1>6. Stripped(s) = SubSeq(s, i, j)
    BY <1>1 DEF Stripped
<1> HIDE DEF i, j
<1>7. i \in 1..Len(s) /\ j \in 1..Len(s) /\ i <= j
    BY <1>2, <1>4, <1>5
<1> QED BY <1>2, <1>4, <1>5, <1>6, <1>7

\* Without the blanks around it a text is a text.
LEMMA StrippedType ==
    ASSUME NEW S, NEW s \in Seq(S)
    PROVE  Stripped(s) \in Seq(S)
<1>1. CASE Stripped(s) = <<>>
    BY <1>1
<1>2. CASE Stripped(s) # <<>>
    <2>1. PICK i, j \in 1..Len(s) : i <= j /\ Stripped(s) = SubSeq(s, i, j)
        BY <1>2, StrippedEnds
    <2> QED BY <2>1, PartType
<1> QED BY <1>1, <1>2

\* s stands in t at p.
StandsAt(t, s, p) == SubSeq(t, p, p + Len(s) - 1) = s

\* Find gives the first place from a place on, or 0 where there is none.
LEMMA FindFirst ==
    ASSUME NEW S, NEW t \in Seq(S), NEW T, NEW s \in Seq(T), NEW from \in Nat \ {0}
    PROVE  /\ Find(t, s, from) \in Nat
           /\ Find(t, s, from) # 0 =>
                /\ from <= Find(t, s, from) /\ Find(t, s, from) + Len(s) <= Len(t) + 1
                /\ StandsAt(t, s, Find(t, s, from))
           /\ \A p \in Nat : from <= p /\ p + Len(s) <= Len(t) + 1 /\ StandsAt(t, s, p) =>
                Find(t, s, from) # 0 /\ Find(t, s, from) <= p
<1> DEFINE places == {p \in from..(Len(t) - Len(s) + 1) : SubSeq(t, p, p + Len(s) - 1) = s}
<1>1. places \subseteq Nat /\ Len(t) \in Nat /\ Len(s) \in Nat
    OBVIOUS
<1>2. \A p \in places : p # 0 /\ from <= p /\ p + Len(s) <= Len(t) + 1 /\ StandsAt(t, s, p)
    BY DEF StandsAt
<1>3. \A p \in Nat : from <= p /\ p + Len(s) <= Len(t) + 1 /\ StandsAt(t, s, p) => p \in places
    BY <1>1 DEF StandsAt
<1>4. Find(t, s, from) = IF places = {} THEN 0 ELSE Min(places)
    BY DEF Find
<1> HIDE DEF places
<1>5. CASE places = {}
    <2>1. Find(t, s, from) = 0
        BY <1>4, <1>5
    <2> QED BY <1>3, <1>5, <2>1
<1>6. CASE places # {}
    <2> DEFINE m == Min(places)
    <2>1. m \in places /\ \A p \in places : m <= p
        BY <1>1, <1>6, MinIn
    <2>2. Find(t, s, from) = m
        BY <1>4, <1>6
    <2> HIDE DEF m
    <2>3. m \in Nat /\ m # 0 /\ from <= m /\ m + Len(s) <= Len(t) + 1 /\ StandsAt(t, s, m)
        BY <1>1, <1>2, <2>1
    <2>4. \A p \in Nat : from <= p /\ p + Len(s) <= Len(t) + 1 /\ StandsAt(t, s, p) => m <= p
        BY <1>3, <2>1
    <2> QED BY <2>2, <2>3, <2>4
<1> QED BY <1>5, <1>6

----------------------------------------------------------------------------
(* The page marks.                                                         *)

\* The constants that are numbers.
LEMMA Thresholds ==
    /\ MinFragment \in Nat /\ MaxTrim \in Nat /\ MinWords \in Nat
    /\ MinRun \in Nat /\ MinRun # 0 /\ AnchorChars \in Nat /\ AnchorChars # 0
    /\ Pages \subseteq Nat
BY ProvenanceAssumption, FileTextAssumption

Marks == [at : Nat \ {0}, page : Pages]

\* The items of a document as _build_page_map gets them.
Places(S) == [text : Seq(S), page : Pages]

\* What a pass over the items knows.
Marking == [marks : Seq(Marks), cursor : Nat \ {0}, last : Pages \cup {Nil}]

InOrderMarks(ms) ==
    \A i \in 1..(Len(ms) - 1) : ms[i].at < ms[i + 1].at /\ ms[i].page # ms[i + 1].page

\* The marks so far are in order, before the cursor, and the last of them is
\* that of the last page.
MarkingInv(acc) ==
    /\ InOrderMarks(acc.marks)
    /\ acc.marks # <<>> =>
          /\ acc.marks[Len(acc.marks)].at < acc.cursor
          /\ acc.marks[Len(acc.marks)].page = acc.last

\* An anchor is a part of its text, and not empty.
LEMMA AnchorPart ==
    ASSUME NEW S, NEW s \in Seq(S), s # <<>>
    PROVE  LET a == SubSeq(s, 1, Min({AnchorChars, Len(s)}))
           IN a \in Seq(S) /\ Len(a) \in Nat \ {0}
<1> DEFINE m == Min({AnchorChars, Len(s)})
<1>1. Len(s) \in Nat /\ Len(s) # 0
    OBVIOUS
<1>2. m \in {AnchorChars, Len(s)} /\ m <= Len(s)
    BY <1>1, Thresholds, MinIn
<1>3. m \in 1..Len(s) /\ 1 \in 1..Len(s) /\ 1 <= m
    BY <1>1, <1>2, Thresholds
<1> HIDE DEF m
<1>4. SubSeq(s, 1, m) \in Seq(S) /\ Len(SubSeq(s, 1, m)) = m - 1 + 1
    BY <1>3, PartType
<1>5. Len(SubSeq(s, 1, m)) \in Nat \ {0}
    BY <1>3, <1>4
<1> QED BY <1>4, <1>5 DEF m

\* One more item keeps the marks in order, and the cursor never goes back.
LEMMA MarkOneKeeps ==
    ASSUME NEW C, NEW t \in Seq(C), NEW S, NEW item \in Places(S),
           NEW acc \in Marking
    PROVE  /\ MarkOne(t, acc, item) \in Marking
           /\ acc.cursor <= MarkOne(t, acc, item).cursor
           /\ MarkingInv(acc) => MarkingInv(MarkOne(t, acc, item))
<1> DEFINE s == SubSeq(item.text, 1, Min({AnchorChars, Len(item.text)}))
           p == Anchor(t, s, acc.cursor)
           new == MarkOne(t, acc, item)
<1>1. acc.marks \in Seq(Marks) /\ acc.cursor \in Nat \ {0} /\ acc.last \in Pages \cup {Nil}
    BY DEF Marking
<1>2. CASE item.text = <<>> \/ item.page = Nil \/ p = 0
    <2>1. new = acc
        BY <1>2 DEF MarkOne
    <2> QED BY <1>1, <2>1
<1>3. CASE ~(item.text = <<>> \/ item.page = Nil \/ p = 0)
    <2>1. item.text \in Seq(S) /\ item.page \in Pages
        BY DEF Places
    <2>2. s \in Seq(S) /\ Len(s) \in Nat \ {0}
        BY <1>3, <2>1, AnchorPart
    <2>3. p = Find(t, s, acc.cursor)
        BY DEF Anchor
    <2>4. /\ new.marks = IF item.page = acc.last THEN acc.marks
                         ELSE Append(acc.marks, [at |-> p, page |-> item.page])
          /\ new.cursor = p + Len(s) /\ new.last = item.page
          /\ new = [marks |-> new.marks, cursor |-> new.cursor, last |-> new.last]
        BY <1>3 DEF MarkOne
    <2> HIDE DEF s, p, new
    <2>5. p \in Nat \ {0} /\ acc.cursor <= p
        BY <1>1, <1>3, <2>2, <2>3, FindFirst
    <2>6. new.cursor \in Nat \ {0} /\ p < new.cursor /\ acc.cursor <= new.cursor
        BY <1>1, <2>2, <2>4, <2>5
    <2>7. CASE item.page = acc.last
        <3>1. new.marks = acc.marks /\ new.last = acc.last
            BY <2>4, <2>7
        <3>2. new \in Marking
            BY <1>1, <2>1, <2>4, <2>6, <3>1 DEF Marking
        <3>3. MarkingInv(acc) /\ acc.marks # <<>> => acc.marks[Len(acc.marks)].at < new.cursor
            <4> SUFFICES ASSUME MarkingInv(acc), acc.marks # <<>>
                         PROVE  acc.marks[Len(acc.marks)].at < new.cursor
                OBVIOUS
            <4>1. acc.marks[Len(acc.marks)].at < acc.cursor
                BY DEF MarkingInv
            <4>2. acc.marks[Len(acc.marks)] \in Marks
                BY <1>1
            <4>3. acc.marks[Len(acc.marks)].at \in Nat
                BY <4>2 DEF Marks
            <4> QED BY <1>1, <2>6, <4>1, <4>3
        <3>4. MarkingInv(acc) => MarkingInv(new)
            BY <3>1, <3>3 DEF MarkingInv
        <3> QED BY <2>6, <3>2, <3>4 DEF new
    <2>8. CASE item.page # acc.last
        <3> DEFINE mark == [at |-> p, page |-> item.page]
                   n == Len(acc.marks)
        <3>1. mark \in Marks /\ mark.at = p /\ mark.page = item.page
            BY <2>1, <2>5 DEF Marks
        <3>2. new.marks = Append(acc.marks, mark)
            BY <2>4, <2>8
        <3> HIDE DEF mark
        <3>3. /\ n \in Nat /\ new.marks \in Seq(Marks) /\ Len(new.marks) = n + 1
              /\ new.marks[n + 1] = mark /\ \A i \in 1..n : new.marks[i] = acc.marks[i]
            BY <1>1, <3>1, <3>2, AppendProperties
        <3>4. new \in Marking
            BY <2>1, <2>4, <2>6, <3>3 DEF Marking
        <3>5. ASSUME MarkingInv(acc) PROVE MarkingInv(new)
            <4>1. n # 0 => acc.marks[n].at < acc.cursor /\ acc.marks[n].page = acc.last
                BY <1>1, <3>5 DEF MarkingInv
            <4>2. n # 0 => acc.marks[n].at < mark.at /\ acc.marks[n].page # mark.page
                <5> SUFFICES ASSUME n # 0 PROVE acc.marks[n].at < mark.at /\ acc.marks[n].page # mark.page
                    OBVIOUS
                <5>1. acc.marks[n] \in Marks
                    BY <1>1, <3>3
                <5>2. acc.marks[n].at \in Nat
                    BY <5>1 DEF Marks
                <5> HIDE DEF n
                <5> QED BY <1>1, <2>5, <2>8, <3>1, <4>1, <5>2
            <4>3. \A i \in 1..(n - 1) : acc.marks[i].at < acc.marks[i + 1].at
                                        /\ acc.marks[i].page # acc.marks[i + 1].page
                BY <3>5 DEF MarkingInv, InOrderMarks
            <4> HIDE DEF n
            <4>4. InOrderMarks(new.marks)
                <5> SUFFICES ASSUME NEW i \in 1..n
                             PROVE  /\ new.marks[i].at < new.marks[i + 1].at
                                    /\ new.marks[i].page # new.marks[i + 1].page
                    BY <3>3 DEF InOrderMarks
                <5>1. CASE i = n
                    BY <3>3, <4>2, <5>1
                <5>2. CASE i # n
                    <6>1. i \in 1..(n - 1) /\ i + 1 \in 1..n
                        BY <3>3, <5>2
                    <6> QED BY <3>3, <4>3, <6>1
                <5> QED BY <5>1, <5>2
            <4> QED BY <2>4, <2>6, <3>1, <3>3, <4>4 DEF MarkingInv
        <3> QED BY <2>6, <3>4, <3>5 DEF new
    <2> QED BY <2>7, <2>8
<1> QED BY <1>2, <1>3

FirstMarking == [marks |-> <<>>, cursor |-> 1, last |-> Nil]

MarkFold(t, items, h) ==
    h = [s \in SUBSET DOMAIN items |->
            IF s = {} THEN FirstMarking ELSE MarkOne(t, h[s \ {Max(s)}], items[Max(s)])]

\* The pass over the items, step by step.
LEMMA MarkSteps ==
    ASSUME NEW C, NEW t \in Seq(C), NEW S, NEW items \in Seq(Places(S))
    PROVE  \E it :
              /\ it[1..0] = FirstMarking
              /\ \A k \in 0..(Len(items) - 1) : it[1..(k + 1)] = MarkOne(t, it[1..k], items[k + 1])
              /\ PageMap(t, items) = it[1..Len(items)].marks
<1> DEFINE n == Len(items)
           op == [x \in (1..n) \X Marking |-> MarkOne(t, x[2], items[x[1]])]
           it == CHOOSE h : MarkFold(t, items, h)
<1>1. n \in Nat /\ DOMAIN items = 1..n /\ \A i \in 1..n : items[i] \in Places(S)
    OBVIOUS
<1>2. op \in [(1..n) \X Marking -> Marking]
    BY <1>1, MarkOneKeeps
<1>3. FirstMarking \in Marking
    BY DEF Marking, FirstMarking
<1> HIDE DEF n, op
<1>4. \E h : MarkFold(t, items, h)
    <2>1. PICK h : IsLeftFold(h, n, Marking, FirstMarking, op)
        BY <1>1, <1>2, <1>3, LeftFoldExists
    <2>2. \A s \in SUBSET (1..n) :
              h[s] = IF s = {} THEN FirstMarking ELSE MarkOne(t, h[s \ {Max(s)}], items[Max(s)])
        BY <2>1 DEF op, IsLeftFold
    <2>3. h = [s \in SUBSET (1..n) |-> h[s]]
        BY <2>1 DEF IsLeftFold
    <2>4. h = [s \in SUBSET (1..n) |->
                IF s = {} THEN FirstMarking ELSE MarkOne(t, h[s \ {Max(s)}], items[Max(s)])]
        BY <2>2, <2>3
    <2>5. MarkFold(t, items, h)
        BY <1>1, <2>4 DEF MarkFold
    <2> QED BY <2>5
<1>5. MarkFold(t, items, it)
    BY <1>4
<1> HIDE DEF it
<1>6. it[1..0] = FirstMarking
    BY <1>1, <1>5 DEF MarkFold
<1>7. ASSUME NEW k \in 0..(n - 1)
      PROVE  it[1..(k + 1)] = MarkOne(t, it[1..k], items[k + 1])
    <2>1. Max(1..(k + 1)) = k + 1 /\ (1..(k + 1)) \ {Max(1..(k + 1))} = 1..k
        BY <1>1, MaxOfInterval
    <2>2. 1..(k + 1) \in SUBSET (1..n) /\ 1..(k + 1) # {}
        <3>1. k + 1 \in 1..(k + 1) /\ \A i \in 1..(k + 1) : i \in 1..n
            BY <1>1
        <3> QED BY <3>1
    <2> QED BY <1>1, <1>5, <2>1, <2>2 DEF MarkFold
<1>8. PageMap(t, items) = it[1..n].marks
    BY <1>1 DEF PageMap, it, MarkFold, FirstMarking, FoldLeft, MapThenFoldSet
<1> QED BY <1>6, <1>7, <1>8 DEF n

\* The marks of a text are in its order, whatever the items are.
LEMMA PageMapInOrder ==
    ASSUME NEW C, NEW t \in Seq(C), NEW S, NEW items \in Seq(Places(S))
    PROVE  PageMap(t, items) \in Seq(Marks) /\ InOrderMarks(PageMap(t, items))
<1> DEFINE n == Len(items)
<1>1. n \in Nat /\ \A i \in 1..n : items[i] \in Places(S)
    OBVIOUS
<1>2. PICK it :
          /\ it[1..0] = FirstMarking
          /\ \A k \in 0..(n - 1) : it[1..(k + 1)] = MarkOne(t, it[1..k], items[k + 1])
          /\ PageMap(t, items) = it[1..n].marks
    BY MarkSteps
<1> DEFINE P == {k \in Nat : k <= n => it[1..k] \in Marking /\ MarkingInv(it[1..k])}
<1> HIDE DEF n
<1>3. 0 \in P
    <2>1. FirstMarking \in Marking /\ MarkingInv(FirstMarking)
        BY DEF Marking, FirstMarking, MarkingInv, InOrderMarks
    <2> QED BY <1>2, <2>1
<1>4. ASSUME NEW k \in Nat, k \in P PROVE k + 1 \in P
    <2> SUFFICES ASSUME k + 1 <= n PROVE it[1..(k + 1)] \in Marking /\ MarkingInv(it[1..(k + 1)])
        OBVIOUS
    <2>1. k \in 0..(n - 1) /\ k + 1 \in 1..n /\ k <= n
        BY <1>1
    <2>2. it[1..k] \in Marking /\ MarkingInv(it[1..k]) /\ items[k + 1] \in Places(S)
        BY <1>1, <1>4, <2>1
    <2> DEFINE acc == it[1..k]
               item == items[k + 1]
    <2>3. it[1..(k + 1)] = MarkOne(t, acc, item)
        BY <1>2, <2>1
    <2>4. acc \in Marking /\ MarkingInv(acc) /\ item \in Places(S)
        BY <2>2
    <2> HIDE DEF acc, item
    <2> QED BY <2>3, <2>4, MarkOneKeeps
<1> HIDE DEF P
<1>5. n \in P
    BY <1>1, <1>3, <1>4, CountingUp
<1>6. it[1..n] \in Marking /\ MarkingInv(it[1..n])
    BY <1>1, <1>5 DEF P
<1> QED BY <1>2, <1>6 DEF Marking, MarkingInv, n

----------------------------------------------------------------------------
(* The types.                                                              *)

Items == [text : Pieces, page : Pages, kept : BOOLEAN]

Stages == {"document", "text", "sections", "quoted", "snapped"}

\* A text is that of its document from its conversion on.
TextTyped ==
    /\ stage \in Stages
    /\ document \in Seq(Items)
    /\ text \in Seq(Char)

\* What docling exported is put together.
LEMMA ConvertedType ==
    ASSUME document \in Seq(Items)
    PROVE  /\ [i \in DOMAIN document |-> document[i].text] \in Seq(Seq(Char))
           /\ FlattenSeq([i \in DOMAIN document |-> document[i].text]) \in Seq(Char)
<1> DEFINE ts == [i \in DOMAIN document |-> document[i].text]
           n == Len(document)
<1>1. n \in Nat /\ DOMAIN document = 1..n /\ \A i \in 1..n : document[i].text \in Pieces
    <2>1. n \in Nat /\ DOMAIN document = 1..n /\ \A i \in 1..n : document[i] \in Items
        OBVIOUS
    <2> HIDE DEF n
    <2> QED BY <2>1 DEF Items
<1>2. ts = [i \in 1..n |-> document[i].text] /\ \A i \in 1..n : document[i].text \in Seq(Char)
    BY <1>1, PieceType
<1>3. ts \in Seq(Seq(Char))
    BY <1>1, <1>2
<1> HIDE DEF ts
<1>4. FlattenSeq(ts) \in Seq(Char)
    BY <1>3, FlattenType
<1> QED BY <1>3, <1>4 DEF ts

\* The types hold at the start.
LEMMA TextTypedInit == Init => TextTyped
<1> SUFFICES ASSUME Init PROVE TextTyped
    OBVIOUS
<1>1. PICK n \in 1..MaxItems : document \in [1..n -> Items]
    BY DEF Init, Items
<1>2. MaxItems \in Nat
    BY FileTextAssumption
<1>3. document \in Seq(Items)
    BY <1>1, <1>2
<1> QED BY <1>3 DEF Init, TextTyped, Stages

\* Every step keeps the types.
LEMMA TextTypedNext == TextTyped /\ [Next]_vars => TextTyped'
<1> SUFFICES ASSUME TextTyped, [Next]_vars PROVE TextTyped'
    OBVIOUS
<1>1. CASE Convert
    <2>1. text' = FlattenSeq([i \in DOMAIN document |-> document[i].text])
        BY <1>1 DEF Convert
    <2>2. text' \in Seq(Char)
        BY <2>1, ConvertedType DEF TextTyped
    <2> QED BY <1>1, <2>2 DEF Convert, TextTyped, Stages
<1>2. CASE PlanSections
    BY <1>2 DEF PlanSections, TextTyped, Stages
<1>3. CASE Reply
    BY <1>3 DEF Reply, TextTyped, Stages
<1>4. CASE Snap
    BY <1>4 DEF Snap, TextTyped, Stages
<1>5. CASE UNCHANGED vars
    BY <1>5 DEF vars, TextTyped
<1> QED BY <1>1, <1>2, <1>3, <1>4, <1>5 DEF Next

\* The texts of the items, and the items as _build_page_map gets them.
Texts == [i \in DOMAIN document |-> document[i].text]
AsItem(d) == [text |-> IF d.kept THEN Stripped(d.text) ELSE <<"?">>, page |-> d.page]
AsItems == [i \in DOMAIN document |-> AsItem(document[i])]

\* They are texts with their pages.
LEMMA AsItemsType ==
    ASSUME document \in Seq(Items)
    PROVE  AsItems \in Seq(Places(Char \cup {"?"}))
<1> DEFINE n == Len(document)
           S == Char \cup {"?"}
<1>1. n \in Nat /\ DOMAIN document = 1..n /\ \A i \in 1..n : document[i] \in Items
    OBVIOUS
<1>2. ASSUME NEW i \in 1..n PROVE AsItem(document[i]) \in Places(S)
    <2> DEFINE s == Stripped(document[i].text)
    <2>1. document[i].text \in Seq(Char) /\ document[i].page \in Pages
        BY <1>1, PieceType DEF Items
    <2>2. s \in Seq(Char) /\ Char \subseteq S /\ <<"?">> \in Seq(S)
        BY <2>1, StrippedType
    <2> HIDE DEF s, S
    <2>3. s \in Seq(S)
        BY <2>2, SeqMonotonic
    <2>4. (IF document[i].kept THEN s ELSE <<"?">>) \in Seq(S)
        BY <2>2, <2>3
    <2> QED BY <2>1, <2>4 DEF Places, AsItem, s
<1> HIDE DEF S
<1>3. AsItems \in Seq(Places(S))
    BY <1>1, <1>2 DEF AsItems
<1> QED BY <1>3 DEF S

\* The marks are in order, or there are none yet.
MarksInv ==
    /\ marks \in Seq(Marks) /\ InOrderMarks(marks)

\* From the conversion on text and marks are what it makes of the document.
ConvertedInv ==
    stage # "document" => text = FlattenSeq(Texts) /\ marks = PageMap(text, AsItems)

\* They stay so.
LEMMA ConvertedNext == ConvertedInv /\ [Next]_vars => ConvertedInv'
<1> SUFFICES ASSUME ConvertedInv, [Next]_vars PROVE ConvertedInv'
    OBVIOUS
<1>1. CASE Convert
    BY <1>1 DEF Convert, ConvertedInv, Texts, AsItems, AsItem
<1>2. CASE PlanSections \/ Reply \/ Snap \/ UNCHANGED vars
    <2>1. document' = document /\ text' = text /\ marks' = marks
        BY <1>2 DEF PlanSections, Reply, Snap, vars
    <2>2. stage' # "document" => stage # "document"
        BY <1>2 DEF PlanSections, Reply, Snap, vars
    <2> QED BY <2>1, <2>2 DEF ConvertedInv, Texts, AsItems
<1> QED BY <1>1, <1>2 DEF Next

\* Conversion gives marks in order.
LEMMA MarksNext == TextTyped /\ MarksInv /\ [Next]_vars => MarksInv'
<1> SUFFICES ASSUME TextTyped, MarksInv, [Next]_vars PROVE MarksInv'
    OBVIOUS
<1>1. CASE Convert
    <2>1. marks' = PageMap(text', AsItems)
        BY <1>1 DEF Convert, AsItems, AsItem
    <2>2. text' \in Seq(Char)
        BY TextTypedNext DEF TextTyped
    <2>3. AsItems \in Seq(Places(Char \cup {"?"}))
        BY AsItemsType DEF TextTyped
    <2> QED BY <2>1, <2>2, <2>3, PageMapInOrder DEF MarksInv
<1>2. CASE PlanSections \/ Reply \/ Snap \/ UNCHANGED vars
    BY <1>2 DEF PlanSections, Reply, Snap, vars, MarksInv
<1> QED BY <1>1, <1>2 DEF Next

\* Pages are marked in the order of the text, one mark to a change of page,
\* whatever docling exports of them.
THEOREM PagesInOrder == Spec => []MarksInOrder
<1>1. Init => MarksInv
    BY DEF Init, MarksInv, InOrderMarks
<1>2. MarksInv => MarksInOrder
    BY DEF MarksInv, InOrderMarks, MarksInOrder
<1> QED BY TextTypedInit, TextTypedNext, MarksNext, <1>1, <1>2, PTL DEF Spec

----------------------------------------------------------------------------
(* Stretches of positions.                                                 *)

\* The positions from one to another, in their order.
LEMMA BetweenType ==
    ASSUME NEW i \in Int, NEW j \in Int, i <= j + 1, NEW S, i..j \subseteq S
    PROVE  /\ Between(i, j) \in Seq(S) /\ Len(Between(i, j)) = j - i + 1
           /\ \A k \in 1..(j - i + 1) : Between(i, j)[k] = i + k - 1
<1> DEFINE n == j - i + 1
<1>1. n \in Nat /\ Between(i, j) = [k \in 1..n |-> i + k - 1]
    BY DEF Between
<1>2. \A k \in 1..n : i + k - 1 \in S
    OBVIOUS
<1> HIDE DEF n
<1>3. [k \in 1..n |-> i + k - 1] \in Seq(S)
    BY <1>1, <1>2
<1>4. Len([k \in 1..n |-> i + k - 1]) = n
    BY <1>1
<1> QED BY <1>1, <1>3, <1>4 DEF n

\* Two stretches, one after the other, are one.
LEMMA BetweenJoin ==
    ASSUME NEW i \in Int, NEW k \in Int, NEW j \in Int, i <= k, k <= j + 1
    PROVE  Between(i, k - 1) \o Between(k, j) = Between(i, j)
<1> DEFINE a == Between(i, k - 1)
           b == Between(k, j)
           c == Between(i, j)
<1>1. a \in Seq(Int) /\ Len(a) = k - i /\ \A q \in 1..(k - i) : a[q] = i + q - 1
    <2>1. (k - 1) - i + 1 = k - i /\ i <= (k - 1) + 1 /\ k - 1 \in Int /\ i..(k - 1) \subseteq Int
        OBVIOUS
    <2>2. /\ a \in Seq(Int) /\ Len(a) = (k - 1) - i + 1
          /\ \A q \in 1..((k - 1) - i + 1) : a[q] = i + q - 1
        BY <2>1, BetweenType
    <2> QED BY <2>1, <2>2
<1>2. b \in Seq(Int) /\ Len(b) = j - k + 1 /\ \A q \in 1..(j - k + 1) : b[q] = k + q - 1
    <2>1. k..j \subseteq Int
        OBVIOUS
    <2> QED BY <2>1, BetweenType
<1>3. c \in Seq(Int) /\ Len(c) = j - i + 1 /\ \A q \in 1..(j - i + 1) : c[q] = i + q - 1
    <2>1. i..j \subseteq Int /\ i <= j + 1
        OBVIOUS
    <2> QED BY <2>1, BetweenType
<1> HIDE DEF a, b, c
<1>4. a \o b \in Seq(Int) /\ Len(a \o b) = j - i + 1
    <2>1. a \o b \in Seq(Int) /\ Len(a \o b) = Len(a) + Len(b)
        BY <1>1, <1>2, ConcatProperties
    <2> QED BY <1>1, <1>2, <2>1
<1>5. ASSUME NEW q \in 1..(j - i + 1) PROVE (a \o b)[q] = c[q]
    <2>1. CASE q <= k - i
        <3>1. q \in 1..(k - i) /\ (a \o b)[q] = a[q]
            BY <1>1, <1>2, <2>1
        <3> QED BY <1>1, <1>3, <3>1
    <2>2. CASE ~(q <= k - i)
        <3>1. q - (k - i) \in 1..(j - k + 1)
            BY <2>2
        <3>2. (a \o b)[q] = b[q - (k - i)]
            BY <1>1, <1>2, <2>2
        <3>3. b[q - (k - i)] = k + (q - (k - i)) - 1
            BY <1>2, <3>1
        <3> QED BY <1>3, <3>2, <3>3
    <2> QED BY <2>1, <2>2
<1>6. a \o b = c
    BY <1>3, <1>4, <1>5, SeqEqual
<1> QED BY <1>6 DEF a, b, c

\* Stretches that follow one another are one when flattened.
LEMMA ChainFlat ==
    ASSUME NEW m \in Nat, m # 0, NEW a \in [1..m -> Int], NEW b \in [1..m -> Int],
           \A q \in 1..m : a[q] <= b[q],
           \A q \in 1..(m - 1) : a[q + 1] = b[q] + 1
    PROVE  /\ FlattenSeq([q \in 1..m |-> Between(a[q], b[q])]) = Between(a[1], b[m])
           /\ \A q \in 1..m : a[1] <= a[q] /\ b[q] <= b[m]
<1> DEFINE ss == [q \in 1..m |-> Between(a[q], b[q])]
<1>1. \A q \in 1..m : Between(a[q], b[q]) \in Seq(Int)
    <2> SUFFICES ASSUME NEW q \in 1..m PROVE Between(a[q], b[q]) \in Seq(Int)
        OBVIOUS
    <2>1. a[q] \in Int /\ b[q] \in Int /\ a[q] <= b[q] + 1 /\ a[q]..b[q] \subseteq Int
        OBVIOUS
    <2> QED BY <2>1, BetweenType
<1>2. ss \in Seq(Seq(Int)) /\ Len(ss) = m /\ ss # <<>> /\ \A q \in 1..m : ss[q] = Between(a[q], b[q])
    <2>1. ss \in [1..m -> Seq(Int)] /\ \A q \in 1..m : ss[q] = Between(a[q], b[q])
        BY <1>1
    <2> HIDE DEF ss
    <2>2. ss \in Seq(Seq(Int)) /\ Len(ss) = m
        BY <2>1
    <2> QED BY <2>1, <2>2
<1> HIDE DEF ss
<1>3. PICK f \in [1..m -> Seq(Int)] :
          /\ f[1] = ss[1]
          /\ \A i \in 2..m : f[i] = f[i - 1] \o ss[i]
          /\ FlattenSeq(ss) = f[m]
    BY <1>2, FlattenDefined
<1> DEFINE P == {q \in 1..m : f[q] = Between(a[1], b[q]) /\ a[1] <= a[q]}
<1>4. 1 \in P
    BY <1>2, <1>3
<1>5. ASSUME NEW q \in 1..(m - 1), q \in P PROVE q + 1 \in P
    <2>1. q + 1 \in 2..m /\ q + 1 \in 1..m /\ q \in 1..m /\ (q + 1) - 1 = q
        OBVIOUS
    <2>2. f[q + 1] = f[(q + 1) - 1] \o ss[q + 1]
        BY <1>3, <2>1
    <2> DEFINE x == a[1]
               y == b[q]
               z == b[q + 1]
               w == a[q + 1]
    <2>3. x \in Int /\ y \in Int /\ z \in Int /\ w \in Int /\ w = y + 1 /\ w <= z /\ x <= y
        <3>1. 1 \in 1..m
            OBVIOUS
        <3>2. x \in Int /\ y \in Int /\ z \in Int /\ w \in Int /\ a[q] \in Int
            BY <2>1, <3>1
        <3>3. w = y + 1 /\ w <= z /\ a[q] <= y /\ x <= a[q]
            BY <1>5, <2>1
        <3> HIDE DEF x, y, z, w
        <3> QED BY <3>2, <3>3
    <2>4. f[q + 1] = Between(x, y) \o Between(w, z)
        BY <1>2, <1>5, <2>1, <2>2
    <2> HIDE DEF x, y, z, w
    <2>5. x <= w /\ w <= z + 1 /\ y = w - 1
        BY <2>3
    <2>6. f[q + 1] = Between(x, z)
        <3>1. Between(x, w - 1) \o Between(w, z) = Between(x, z)
            BY <2>3, <2>5, BetweenJoin
        <3> QED BY <2>4, <2>5, <3>1
    <2> QED BY <2>1, <2>5, <2>6 DEF x, z, w
<1> HIDE DEF P
<1>6. \A q \in 1..m : q \in P
    BY <1>4, <1>5, Along
<1>7. m \in 1..m
    OBVIOUS
<1>8. FlattenSeq(ss) = Between(a[1], b[m])
    BY <1>3, <1>6, <1>7 DEF P
<1> DEFINE R == {q \in 1..m : \A r \in 1..q : b[r] <= b[q]}
<1>9. 1 \in R
    <2>1. 1 \in 1..m /\ b[1] \in Int /\ \A r \in 1..1 : r = 1
        OBVIOUS
    <2> QED BY <2>1
<1>10. ASSUME NEW q \in 1..(m - 1), q \in R PROVE q + 1 \in R
    <2>1. q + 1 \in 1..m /\ q \in 1..m
        OBVIOUS
    <2>2. b[q] <= b[q + 1]
        <3>1. a[q + 1] = b[q] + 1 /\ a[q + 1] <= b[q + 1]
            BY <2>1
        <3>2. b[q] \in Int /\ b[q + 1] \in Int
            BY <2>1
        <3> QED BY <3>1, <3>2
    <2>3. ASSUME NEW r \in 1..(q + 1) PROVE b[r] <= b[q + 1]
        <3>1. r \in 1..m /\ b[r] \in Int /\ b[q] \in Int /\ b[q + 1] \in Int
            BY <2>1
        <3>2. CASE r = q + 1
            BY <3>1, <3>2
        <3>3. CASE r # q + 1
            <4>1. r \in 1..q
                BY <3>3
            <4>2. b[r] <= b[q]
                BY <1>10, <4>1
            <4> QED BY <2>2, <3>1, <4>2
        <3> QED BY <3>2, <3>3
    <2> QED BY <2>1, <2>3
<1> HIDE DEF R
<1>11. \A q \in 1..m : q \in R
    BY <1>9, <1>10, Along
<1>12. \A q \in 1..m : a[1] <= a[q] /\ b[q] <= b[m]
    BY <1>6, <1>7, <1>11 DEF P, R
<1> QED BY <1>8, <1>12 DEF ss

\* Sorted lists a finite set of numbers.
LEMMA SortedLists ==
    ASSUME NEW S, S \subseteq Int, IsFiniteSet(S)
    PROVE  Cardinality(S) \in Nat /\ Lists(Sorted(S), S)
<1> DEFINE n == Cardinality(S)
           s == Sorted(S)
<1>1. PICK r : Lists(r, S)
    BY ListingExists
<1>2. n \in Nat
    BY ListingExists
<1>3. s \in [1..n -> S] /\ \A i, j \in 1..n : i < j => s[i] < s[j]
    <2>1. r \in [1..n -> S] /\ \A i, j \in DOMAIN r : i < j => r[i] < r[j]
        BY <1>1 DEF Lists
    <2>2. s = CHOOSE q \in [1..n -> S] : \A i, j \in DOMAIN q : i < j => q[i] < q[j]
        BY DEF Sorted
    <2>3. s \in [1..n -> S] /\ \A i, j \in DOMAIN s : i < j => s[i] < s[j]
        BY <2>1, <2>2
    <2> QED BY <2>3
<1> HIDE DEF n, s
<1>4. s \in Injection(1..n, S)
    <2> SUFFICES \A i, j \in 1..n : s[i] = s[j] => i = j
        BY <1>3 DEF Injection, IsInjective
    <2>1. ASSUME NEW i \in 1..n, NEW j \in 1..n, s[i] = s[j] PROVE i = j
        <3>1. s[i] \in S /\ i \in Int /\ j \in Int
            BY <1>2, <1>3
        <3>3. s[i] \in Int
            BY <3>1
        <3>2. ~(i < j) /\ ~(j < i)
            BY <1>3, <2>1, <3>3
        <3> QED BY <3>1, <3>2
    <2> QED BY <2>1
<1>5. Cardinality(1..n) = n
    BY <1>2, FS_Interval
<1>6. s \in Surjection(1..n, S)
    BY <1>4, <1>5, FS_Injection DEF n
<1>7. \A x \in S : \E i \in 1..n : s[i] = x
    BY <1>6 DEF Surjection
<1> QED BY <1>2, <1>3, <1>7 DEF Lists, n, s

----------------------------------------------------------------------------
(* Tokens.                                                                 *)

\* The numbers a section is measured by.
LEMMA Budgets ==
    /\ CharsPerToken \in Nat /\ CharsPerToken # 0
    /\ TokenBudget \in Nat /\ TokenBudget # 0
    /\ CharBudget \in Nat /\ CharBudget # 0
<1>1. CharsPerToken \in Nat \ {0} /\ TokenBudget \in Nat \ {0}
    BY SplittingAssumption
<1> DEFINE a == TokenBudget
           b == CharsPerToken
<1>2. a \in Nat \ {0} /\ b \in Nat \ {0}
    BY <1>1
<1> HIDE DEF a, b
<1>3. a * b \in Nat /\ a * b # 0
    BY <1>2
<1> QED BY <1>1, <1>3 DEF CharBudget, a, b

\* A character of a text takes something.
LEMMA WeightType ==
    ASSUME NEW t \in Seq(Char), NEW p \in 1..Len(t)
    PROVE  Weight[t[p]] \in Nat /\ Weight[t[p]] # 0
<1>1. t[p] \in DOMAIN Weight
    BY DEF Char
<1> QED BY <1>1, SplittingAssumption

WeighFold(t, ps, h) ==
    h = [s \in SUBSET DOMAIN ps |->
            IF s = {} THEN 0 ELSE h[s \ {Max(s)}] + Weight[t[ps[Max(s)]]]]

\* What characters take adds up, one after the other.
LEMMA WeighSteps ==
    ASSUME NEW t \in Seq(Char), NEW ps \in Seq(1..Len(t))
    PROVE  \E it :
              /\ it[1..0] = 0
              /\ \A k \in 0..(Len(ps) - 1) : it[1..(k + 1)] = it[1..k] + Weight[t[ps[k + 1]]]
              /\ \A k \in 0..Len(ps) : it[1..k] \in Nat
              /\ Weighs(t, ps) = it[1..Len(ps)]
<1> DEFINE n == Len(ps)
           op == [x \in (1..n) \X Nat |-> x[2] + Weight[t[ps[x[1]]]]]
           it == CHOOSE h : WeighFold(t, ps, h)
<1>1. n \in Nat /\ DOMAIN ps = 1..n /\ \A i \in 1..n : ps[i] \in 1..Len(t)
    OBVIOUS
<1>2. op \in [(1..n) \X Nat -> Nat]
    <2>1. \A i \in 1..n : Weight[t[ps[i]]] \in Nat
        BY <1>1, WeightType
    <2>2. \A x \in (1..n) \X Nat : x[1] \in 1..n /\ x[2] \in Nat
        OBVIOUS
    <2>3. \A x \in (1..n) \X Nat : x[2] + Weight[t[ps[x[1]]]] \in Nat
        BY <2>1, <2>2
    <2> QED BY <2>3
<1> HIDE DEF n
<1>3. PICK h : IsLeftFold(h, n, Nat, 0, op)
    <2>1. 0 \in Nat
        OBVIOUS
    <2> HIDE DEF op
    <2> QED BY <1>1, <1>2, <2>1, LeftFoldExists
<1>4. /\ h \in [SUBSET (1..n) -> Nat]
      /\ \A s \in SUBSET (1..n) :
              h[s] = IF s = {} THEN 0 ELSE h[s \ {Max(s)}] + Weight[t[ps[Max(s)]]]
    <2>1. h \in [SUBSET (1..n) -> Nat]
        BY <1>3 DEF IsLeftFold
    <2>2. ASSUME NEW s \in SUBSET (1..n), s # {}
          PROVE  h[s] = h[s \ {Max(s)}] + Weight[t[ps[Max(s)]]]
        <3>1. Max(s) \in 1..n /\ s \ {Max(s)} \in SUBSET (1..n)
              /\ h[s] = op[<<Max(s), h[s \ {Max(s)}]>>]
            BY <2>2, <1>3 DEF IsLeftFold
        <3>2. h[s \ {Max(s)}] \in Nat
            BY <2>1, <3>1
        <3> QED BY <3>1, <3>2
    <2>3. h[{}] = 0
        BY <1>3 DEF IsLeftFold
    <2> QED BY <2>1, <2>2, <2>3
<1>5. \E g : WeighFold(t, ps, g)
    <2>1. h = [s \in SUBSET (1..n) |-> h[s]]
        BY <1>4
    <2>2. h = [s \in SUBSET (1..n) |->
                IF s = {} THEN 0 ELSE h[s \ {Max(s)}] + Weight[t[ps[Max(s)]]]]
        BY <1>4, <2>1
    <2>3. WeighFold(t, ps, h)
        BY <1>1, <2>2 DEF WeighFold
    <2> QED BY <2>3
<1>6. WeighFold(t, ps, it)
    BY <1>5
<1>7. Weighs(t, ps) = it[1..n]
    BY <1>1 DEF Weighs, it, WeighFold, FoldLeft, MapThenFoldSet
<1> HIDE DEF it, op
<1>8. it[1..0] = 0
    BY <1>1, <1>6 DEF WeighFold
<1>9. ASSUME NEW k \in 0..(n - 1)
      PROVE  it[1..(k + 1)] = it[1..k] + Weight[t[ps[k + 1]]]
    <2>1. Max(1..(k + 1)) = k + 1 /\ (1..(k + 1)) \ {Max(1..(k + 1))} = 1..k
        BY <1>1, MaxOfInterval
    <2>2. 1..(k + 1) \in SUBSET (1..n) /\ 1..(k + 1) # {}
        <3>1. k + 1 \in 1..(k + 1) /\ \A i \in 1..(k + 1) : i \in 1..n
            BY <1>1
        <3> QED BY <3>1
    <2> QED BY <1>1, <1>6, <2>1, <2>2 DEF WeighFold
<1> DEFINE P == {k \in Nat : k <= n => it[1..k] \in Nat}
<1>10. 0 \in P
    BY <1>8
<1>11. ASSUME NEW k \in Nat, k \in P PROVE k + 1 \in P
    <2> SUFFICES ASSUME k + 1 <= n PROVE it[1..(k + 1)] \in Nat
        OBVIOUS
    <2>1. k \in 0..(n - 1) /\ k + 1 \in 1..n /\ k <= n
        BY <1>1
    <2>2. it[1..(k + 1)] = it[1..k] + Weight[t[ps[k + 1]]]
        BY <1>9, <2>1
    <2>3. it[1..k] \in Nat
        BY <1>11, <2>1
    <2>4. Weight[t[ps[k + 1]]] \in Nat
        BY <1>1, <2>1, WeightType
    <2> QED BY <2>2, <2>3, <2>4
<1> HIDE DEF P
<1>12. Nat \subseteq P
    BY <1>10, <1>11, CountingUp
<1>13. \A k \in 0..n : it[1..k] \in Nat
    BY <1>1, <1>12 DEF P
<1> QED BY <1>7, <1>8, <1>9, <1>13 DEF n

\* One more character takes what it takes.
LEMMA WeighsAppend ==
    ASSUME NEW t \in Seq(Char), NEW ps \in Seq(1..Len(t)), NEW p \in 1..Len(t)
    PROVE  /\ Weighs(t, ps) \in Nat
           /\ Weighs(t, Append(ps, p)) = Weighs(t, ps) + Weight[t[p]]
<1> DEFINE n == Len(ps)
           more == Append(ps, p)
<1>1. n \in Nat /\ more \in Seq(1..Len(t)) /\ Len(more) = n + 1 /\ more[n + 1] = p
      /\ \A k \in 1..n : more[k] = ps[k]
    BY AppendProperties
<1> HIDE DEF n, more
<1>2. PICK f :
          /\ f[1..0] = 0
          /\ \A k \in 0..(n - 1) : f[1..(k + 1)] = f[1..k] + Weight[t[ps[k + 1]]]
          /\ \A k \in 0..n : f[1..k] \in Nat
          /\ Weighs(t, ps) = f[1..n]
    BY WeighSteps DEF n
<1>3. PICK g :
          /\ g[1..0] = 0
          /\ \A k \in 0..((n + 1) - 1) : g[1..(k + 1)] = g[1..k] + Weight[t[more[k + 1]]]
          /\ Weighs(t, more) = g[1..(n + 1)]
    <2>1. PICK g :
              /\ g[1..0] = 0
              /\ \A k \in 0..(Len(more) - 1) : g[1..(k + 1)] = g[1..k] + Weight[t[more[k + 1]]]
              /\ Weighs(t, more) = g[1..Len(more)]
        BY <1>1, WeighSteps
    <2> QED BY <1>1, <2>1
<1> DEFINE P == {k \in Nat : k <= n => f[1..k] = g[1..k]}
<1>4. 0 \in P
    BY <1>2, <1>3
<1>5. ASSUME NEW k \in Nat, k \in P PROVE k + 1 \in P
    <2> SUFFICES ASSUME k + 1 <= n PROVE f[1..(k + 1)] = g[1..(k + 1)]
        OBVIOUS
    <2>1. k \in 0..(n - 1) /\ k \in 0..((n + 1) - 1) /\ k <= n /\ k + 1 \in 1..n
        BY <1>1
    <2> DEFINE i == k + 1
               w == Weight[t[ps[i]]]
    <2>2. f[1..i] = f[1..k] + w
        BY <1>2, <2>1
    <2>3. g[1..i] = g[1..k] + w
        BY <1>1, <1>3, <2>1
    <2>4. f[1..k] = g[1..k]
        BY <1>5, <2>1
    <2> HIDE DEF i, w
    <2>5. f[1..i] = g[1..i]
        BY <2>2, <2>3, <2>4
    <2> QED BY <2>5 DEF i
<1> HIDE DEF P
<1>6. n \in P
    BY <1>1, <1>4, <1>5, CountingUp
<1>7. f[1..n] = g[1..n] /\ n \in 0..((n + 1) - 1) /\ n \in 0..n
    BY <1>1, <1>6 DEF P
<1>8. g[1..(n + 1)] = g[1..n] + Weight[t[more[n + 1]]]
    BY <1>3, <1>7
<1> QED BY <1>1, <1>2, <1>3, <1>7, <1>8 DEF more

\* No characters take nothing, more take no less.
LEMMA WeighsMore ==
    ASSUME NEW t \in Seq(Char), NEW a \in Seq(1..Len(t))
    PROVE  /\ Weighs(t, <<>>) = 0
           /\ \A b \in Seq(1..Len(t)) : Weighs(t, a) <= Weighs(t, a \o b)
<1>1. Weighs(t, <<>>) = 0
    <2> DEFINE e == <<>>
    <2>1. e \in Seq(1..Len(t)) /\ Len(e) = 0
        OBVIOUS
    <2> HIDE DEF e
    <2>2. PICK it : it[1..0] = 0 /\ Weighs(t, e) = it[1..Len(e)]
        BY <2>1, WeighSteps
    <2>3. Weighs(t, e) = 0
        BY <2>1, <2>2
    <2> QED BY <2>3 DEF e
<1> DEFINE T == 1..Len(t)
<1>2. \A s \in Seq(T) : Weighs(t, s) \in Nat
    <2> SUFFICES ASSUME NEW s \in Seq(T) PROVE Weighs(t, s) \in Nat
        OBVIOUS
    <2>1. Len(s) \in 0..Len(s)
        OBVIOUS
    <2> QED BY <2>1, WeighSteps
<1>3. \A s \in Seq(T), p \in T : Weighs(t, s) <= Weighs(t, Append(s, p))
    <2> SUFFICES ASSUME NEW s \in Seq(T), NEW p \in T PROVE Weighs(t, s) <= Weighs(t, Append(s, p))
        OBVIOUS
    <2>1. Weighs(t, Append(s, p)) = Weighs(t, s) + Weight[t[p]] /\ Weighs(t, s) \in Nat
        BY WeighsAppend
    <2>2. Weight[t[p]] \in Nat
        BY WeightType
    <2> QED BY <2>1, <2>2
<1> HIDE DEF T
<1> DEFINE P == {n \in Nat : \A b \in Seq(T) : Len(b) = n => Weighs(t, a) <= Weighs(t, a \o b)}
<1>4. a \in Seq(T)
    BY DEF T
<1>5. 0 \in P
    <2> SUFFICES ASSUME NEW b \in Seq(T), Len(b) = 0 PROVE Weighs(t, a) <= Weighs(t, a \o b)
        OBVIOUS
    <2>1. a \o b = a
        BY <1>4
    <2> QED BY <1>2, <1>4, <2>1
<1>6. ASSUME NEW n \in Nat, n \in P PROVE n + 1 \in P
    <2> SUFFICES ASSUME NEW b \in Seq(T), Len(b) = n + 1 PROVE Weighs(t, a) <= Weighs(t, a \o b)
        OBVIOUS
    <2>1. b # <<>>
        OBVIOUS
    <2>2. PICK r \in Seq(T), x \in T : b = Append(r, x)
        BY <2>1, AppendedApart
    <2>3. Len(r) = n /\ a \o r \in Seq(T) /\ a \o b = Append(a \o r, x)
        BY <1>4, <2>2, ConcatAppend, AppendProperties, ConcatProperties
    <2> DEFINE u == a \o r
    <2>4. Weighs(t, a) <= Weighs(t, u) /\ Weighs(t, u) <= Weighs(t, Append(u, x))
        BY <1>3, <1>6, <2>3
    <2>5. Append(u, x) \in Seq(T)
        BY <2>3
    <2>6. Weighs(t, a) \in Nat /\ Weighs(t, u) \in Nat /\ Weighs(t, Append(u, x)) \in Nat
        BY <1>2, <1>4, <2>3, <2>5
    <2> HIDE DEF u
    <2>7. Weighs(t, a) <= Weighs(t, Append(u, x))
        BY <2>4, <2>6
    <2> QED BY <2>3, <2>7 DEF u
<1> HIDE DEF P
<1>7. Nat \subseteq P
    BY <1>5, <1>6, CountingUp
<1>8. ASSUME NEW b \in Seq(T) PROVE Weighs(t, a) <= Weighs(t, a \o b)
    <2>1. Len(b) \in Nat
        OBVIOUS
    <2> QED BY <1>7, <2>1 DEF P
<1> QED BY <1>1, <1>8 DEF T

\* What fits also fits without its last part, and nothing fits.
LEMMA FitsMore ==
    ASSUME NEW t \in Seq(Char), NEW a \in Seq(1..Len(t)), NEW b \in Seq(1..Len(t))
    PROVE  /\ FitsTokens(t, a \o b) => FitsTokens(t, a)
           /\ FitsTokens(t, <<>>)
<1> DEFINE x == Weighs(t, a)
           y == Weighs(t, a \o b)
           c == CharsPerToken
<1>1. x \in Nat /\ y \in Nat /\ x <= y
    <2>1. a \o b \in Seq(1..Len(t))
        BY ConcatProperties
    <2>2. \A s \in Seq(1..Len(t)) : Weighs(t, s) \in Nat
        <3> SUFFICES ASSUME NEW s \in Seq(1..Len(t)) PROVE Weighs(t, s) \in Nat
            OBVIOUS
        <3>1. Len(s) \in 0..Len(s)
            OBVIOUS
        <3> QED BY <3>1, WeighSteps
    <2> QED BY <2>1, <2>2, WeighsMore
<1>2. c \in Nat /\ c # 0 /\ TokenBudget \in Nat
    BY Budgets
<1>3. Tokens(t, a) = (x + c - 1) \div c /\ Tokens(t, a \o b) = (y + c - 1) \div c
    BY DEF Tokens
<1>4. Tokens(t, <<>>) = (0 + c - 1) \div c
    BY WeighsMore DEF Tokens
<1> HIDE DEF x, y, c
<1>5. (x + c - 1) \div c <= (y + c - 1) \div c
    <2> DEFINE u == x + c - 1
               v == y + c - 1
    <2>1. u \in Nat /\ v \in Nat /\ u <= v
        BY <1>1, <1>2
    <2> HIDE DEF u, v
    <2>2. u \div c <= v \div c
        BY <1>2, <2>1
    <2> QED BY <2>2 DEF u, v
<1>6. (0 + c - 1) \div c = 0
    BY <1>2
<1>7. (x + c - 1) \div c \in Int /\ (y + c - 1) \div c \in Int
    BY <1>1, <1>2
<1>8. FitsTokens(t, <<>>)
    BY <1>2, <1>4, <1>6 DEF FitsTokens
<1>9. FitsTokens(t, a \o b) => FitsTokens(t, a)
    <2> DEFINE u == (x + c - 1) \div c
               v == (y + c - 1) \div c
    <2> HIDE DEF u, v
    <2>1. u \in Int /\ v \in Int /\ u <= v
        BY <1>5, <1>7 DEF u, v
    <2>2. v <= TokenBudget => u <= TokenBudget
        BY <1>2, <2>1
    <2> QED BY <1>3, <2>2 DEF FitsTokens, u, v
<1> QED BY <1>8, <1>9

----------------------------------------------------------------------------
(* Packing.                                                                *)

\* What may be sent: it fits, or is one character.
Small(t, ps) == FitsTokens(t, ps) \/ Len(ps) = 1

\* What is packed may be sent, and no two neighbours together.
Packed(t, out) ==
    /\ \A n \in 1..Len(out) : Small(t, out[n])
    /\ \A n \in 1..(Len(out) - 1) : ~FitsTokens(t, out[n] \o out[n + 1])

\* One more piece is packed after the others.
LEMMA PackOneKeeps ==
    ASSUME NEW t \in Seq(Char), NEW out \in Seq(Seq(1..Len(t))), NEW ps \in Seq(1..Len(t))
    PROVE  /\ PackOne(t, out, ps) \in Seq(Seq(1..Len(t)))
           /\ FlattenSeq(PackOne(t, out, ps)) = FlattenSeq(out) \o ps
           /\ Packed(t, out) /\ Small(t, ps) => Packed(t, PackOne(t, out, ps))
<1> DEFINE T == 1..Len(t)
           n == Len(out)
           new == PackOne(t, out, ps)
<1>1. ps \in Seq(T) /\ out \in Seq(Seq(T)) /\ n \in Nat /\ (out # <<>> <=> n # 0)
    OBVIOUS
<1>2. CASE out # <<>> /\ FitsTokens(t, Last(out) \o ps)
    <2> DEFINE front == Front(out)
               end == Last(out)
               joined == end \o ps
    <2>1. new = Append(front, joined)
        BY <1>2 DEF PackOne
    <2>2. front \in Seq(Seq(T)) /\ end \in Seq(T) /\ out = Append(front, end) /\ Len(front) = n - 1
        BY <1>1, <1>2, AppendedApart
    <2> HIDE DEF front, end, T, new
    <2>3. joined \in Seq(T)
        BY <1>1, <2>2, ConcatProperties
    <2>4. FitsTokens(t, joined)
        BY <1>2 DEF end
    <2> HIDE DEF joined, n
    <2>5. new \in Seq(Seq(T)) /\ Len(new) = n /\ new[n] = joined
          /\ \A i \in 1..(n - 1) : new[i] = front[i] /\ out[i] = front[i]
          /\ out[n] = end
        BY <1>1, <2>1, <2>2, <2>3, AppendProperties
    <2>6. FlattenSeq(new) = FlattenSeq(out) \o ps
        <3> DEFINE f == FlattenSeq(front)
        <3>1. f \in Seq(T)
            BY <2>2, FlattenType
        <3>2. FlattenSeq(new) = f \o joined /\ FlattenSeq(out) = f \o end
            BY <2>1, <2>2, <2>3, FlattenAppend
        <3> HIDE DEF f
        <3>3. (f \o end) \o ps = f \o (end \o ps)
            <4>1. f \in Seq(T) /\ end \in Seq(T) /\ ps \in Seq(T)
                BY <1>1, <2>2, <3>1
            <4> QED BY ONLY <4>1, ConcatAssociative
        <3> QED BY <3>2, <3>3 DEF joined
    <2>7. ASSUME Packed(t, out) PROVE Packed(t, new)
        <3>1. ASSUME NEW i \in 1..n PROVE Small(t, new[i])
            <4>1. CASE i = n
                BY <2>4, <2>5, <4>1 DEF Small
            <4>2. CASE i # n
                <5>1. i \in 1..(n - 1)
                    BY <1>1, <4>2
                <5>2. Small(t, out[i])
                    BY <2>7 DEF Packed, n
                <5> QED BY <2>5, <5>1, <5>2
            <4> QED BY <4>1, <4>2
        <3>2. ASSUME NEW i \in 1..(n - 1) PROVE ~FitsTokens(t, new[i] \o new[i + 1])
            <4>1. ~FitsTokens(t, out[i] \o out[i + 1])
                BY <2>7 DEF Packed, n
            <4>2. new[i] = out[i]
                BY <2>5
            <4>3. CASE i + 1 = n
                <5> DEFINE o == out[i]
                <5>1. o \in Seq(T)
                    BY <1>1, <4>3 DEF n
                <5> HIDE DEF o
                <5>2. o \o joined = (o \o end) \o ps
                    <6>1. (o \o end) \o ps = o \o (end \o ps)
                        <7>1. o \in Seq(T) /\ end \in Seq(T) /\ ps \in Seq(T)
                            BY <1>1, <2>2, <5>1
                        <7> QED BY ONLY <7>1, ConcatAssociative
                    <6> QED BY <6>1 DEF joined
                <5> DEFINE oe == o \o end
                <5>3. oe \in Seq(1..Len(t)) /\ ps \in Seq(1..Len(t))
                    BY <1>1, <2>2, <5>1, ConcatProperties DEF T
                <5>4. ~FitsTokens(t, oe)
                    BY <2>5, <4>1, <4>3 DEF o
                <5> HIDE DEF oe
                <5>5. ~FitsTokens(t, oe \o ps)
                    BY <5>3, <5>4, FitsMore
                <5> QED BY <2>5, <4>2, <4>3, <5>2, <5>5 DEF o, oe
            <4>4. CASE i + 1 # n
                <5>1. i + 1 \in 1..(n - 1)
                    BY <1>1, <4>4
                <5> QED BY <2>5, <4>1, <4>2, <5>1
            <4> QED BY <4>3, <4>4
        <3> QED BY <2>5, <3>1, <3>2 DEF Packed
    <2> QED BY <2>5, <2>6, <2>7 DEF T, new
<1>3. CASE ~(out # <<>> /\ FitsTokens(t, Last(out) \o ps))
    <2>1. new = Append(out, ps)
        BY <1>3 DEF PackOne
    <2> HIDE DEF T, new, n
    <2>2. new \in Seq(Seq(T)) /\ Len(new) = n + 1 /\ new[n + 1] = ps
          /\ \A i \in 1..n : new[i] = out[i]
        BY <1>1, <2>1, AppendProperties DEF n
    <2>3. FlattenSeq(new) = FlattenSeq(out) \o ps
        BY <1>1, <2>1, FlattenAppend
    <2>4. ASSUME Packed(t, out), Small(t, ps) PROVE Packed(t, new)
        <3>1. ASSUME NEW i \in 1..(n + 1) PROVE Small(t, new[i])
            <4>1. CASE i = n + 1
                BY <2>2, <2>4, <4>1
            <4>2. CASE i # n + 1
                <5>1. i \in 1..n
                    BY <1>1, <4>2
                <5>2. Small(t, out[i])
                    BY <2>4, <5>1 DEF Packed, n
                <5> QED BY <2>2, <5>1, <5>2
            <4> QED BY <4>1, <4>2
        <3>2. ASSUME NEW i \in 1..n PROVE ~FitsTokens(t, new[i] \o new[i + 1])
            <4>1. CASE i = n
                <5>1. out # <<>> /\ Last(out) = out[n]
                    BY <1>1 DEF Last, n
                <5> QED BY <1>3, <2>2, <4>1, <5>1
            <4>2. CASE i # n
                <5>1. i \in 1..(n - 1) /\ i + 1 \in 1..n
                    BY <1>1, <4>2
                <5>2. ~FitsTokens(t, out[i] \o out[i + 1])
                    BY <2>4, <5>1 DEF Packed, n
                <5> QED BY <2>2, <5>1, <5>2
            <4> QED BY <4>1, <4>2
        <3>3. (n + 1) - 1 = n
            BY <1>1
        <3> QED BY <2>2, <3>1, <3>2, <3>3 DEF Packed
    <2> QED BY <2>2, <2>3, <2>4 DEF T, new
<1> QED BY <1>2, <1>3

PackFold(t, pieces, h) ==
    h = [s \in SUBSET DOMAIN pieces |->
            IF s = {} THEN <<>> ELSE PackOne(t, h[s \ {Max(s)}], pieces[Max(s)])]

\* Packing, piece by piece.
LEMMA PackSteps ==
    ASSUME NEW t \in Seq(Char), NEW pieces \in Seq(Seq(1..Len(t)))
    PROVE  \E it :
              /\ it[1..0] = <<>>
              /\ \A k \in 0..(Len(pieces) - 1) : it[1..(k + 1)] = PackOne(t, it[1..k], pieces[k + 1])
              /\ Pack(t, pieces) = it[1..Len(pieces)]
<1> DEFINE n == Len(pieces)
           V == Seq(Seq(1..Len(t)))
           op == [x \in (1..n) \X V |-> PackOne(t, x[2], pieces[x[1]])]
           it == CHOOSE h : PackFold(t, pieces, h)
<1>1. n \in Nat /\ DOMAIN pieces = 1..n /\ \A i \in 1..n : pieces[i] \in Seq(1..Len(t))
    OBVIOUS
<1>2. op \in [(1..n) \X V -> V]
    <2>1. \A x \in (1..n) \X V : PackOne(t, x[2], pieces[x[1]]) \in V
        BY <1>1, PackOneKeeps
    <2> QED BY <2>1
<1>3. <<>> \in V
    OBVIOUS
<1> HIDE DEF n, op, V
<1>4. \E h : PackFold(t, pieces, h)
    <2>1. PICK h : IsLeftFold(h, n, V, <<>>, op)
        BY <1>1, <1>2, <1>3, LeftFoldExists
    <2>2. \A s \in SUBSET (1..n) :
              h[s] = IF s = {} THEN <<>> ELSE PackOne(t, h[s \ {Max(s)}], pieces[Max(s)])
        <3> SUFFICES ASSUME NEW s \in SUBSET (1..n), s # {}
                     PROVE  h[s] = PackOne(t, h[s \ {Max(s)}], pieces[Max(s)])
            BY <2>1 DEF IsLeftFold
        <3>1. h[s] = op[<<Max(s), h[s \ {Max(s)}]>>] /\ Max(s) \in 1..n /\ h[s \ {Max(s)}] \in V
            BY <2>1 DEF IsLeftFold
        <3> QED BY <3>1 DEF op
    <2>3. h = [s \in SUBSET (1..n) |-> h[s]]
        BY <2>1 DEF IsLeftFold
    <2>4. h = [s \in SUBSET (1..n) |->
                IF s = {} THEN <<>> ELSE PackOne(t, h[s \ {Max(s)}], pieces[Max(s)])]
        BY <2>2, <2>3
    <2>5. PackFold(t, pieces, h)
        BY <1>1, <2>4 DEF PackFold
    <2> QED BY <2>5
<1>5. PackFold(t, pieces, it)
    BY <1>4
<1> HIDE DEF it
<1>6. it[1..0] = <<>>
    BY <1>1, <1>5 DEF PackFold
<1>7. ASSUME NEW k \in 0..(n - 1)
      PROVE  it[1..(k + 1)] = PackOne(t, it[1..k], pieces[k + 1])
    <2>1. Max(1..(k + 1)) = k + 1 /\ (1..(k + 1)) \ {Max(1..(k + 1))} = 1..k
        BY <1>1, MaxOfInterval
    <2>2. 1..(k + 1) \in SUBSET (1..n) /\ 1..(k + 1) # {}
        <3>1. k + 1 \in 1..(k + 1) /\ \A i \in 1..(k + 1) : i \in 1..n
            BY <1>1
        <3> QED BY <3>1
    <2> QED BY <1>1, <1>5, <2>1, <2>2 DEF PackFold
<1>8. Pack(t, pieces) = it[1..n]
    BY <1>1 DEF Pack, it, PackFold, FoldLeft, MapThenFoldSet
<1> QED BY <1>6, <1>7, <1>8 DEF n

\* Packing neither drops, repeats nor moves anything, and packs as it should.
LEMMA PackKeeps ==
    ASSUME NEW t \in Seq(Char), NEW pieces \in Seq(Seq(1..Len(t))),
           \A i \in 1..Len(pieces) : Small(t, pieces[i])
    PROVE  /\ Pack(t, pieces) \in Seq(Seq(1..Len(t)))
           /\ FlattenSeq(Pack(t, pieces)) = FlattenSeq(pieces)
           /\ Packed(t, Pack(t, pieces))
<1> DEFINE n == Len(pieces)
           T == 1..Len(t)
<1>1. n \in Nat /\ (n = 0 <=> pieces = <<>>) /\ \A i \in 1..n : pieces[i] \in Seq(T)
    OBVIOUS
<1>2. PICK it :
          /\ it[1..0] = <<>>
          /\ \A k \in 0..(n - 1) : it[1..(k + 1)] = PackOne(t, it[1..k], pieces[k + 1])
          /\ Pack(t, pieces) = it[1..n]
    BY PackSteps
<1>3. <<>> \in Seq(Seq(T)) /\ FlattenSeq(<<>>) = <<>> /\ Packed(t, <<>>)
    BY DEF FlattenSeq, Packed
<1> DEFINE Done(k) == it[1..k] \in Seq(Seq(T)) /\ Packed(t, it[1..k])
<1>4. ASSUME NEW k \in 0..(n - 1), Done(k)
      PROVE  Done(k + 1) /\ FlattenSeq(it[1..(k + 1)]) = FlattenSeq(it[1..k]) \o pieces[k + 1]
    <2> DEFINE out == it[1..k]
               ps == pieces[k + 1]
    <2>1. k + 1 \in 1..n /\ it[1..(k + 1)] = PackOne(t, out, ps)
        <3>1. k + 1 \in 1..n
            BY <1>1
        <3> QED BY <1>2, <3>1
    <2>2. out \in Seq(Seq(T)) /\ ps \in Seq(T) /\ Packed(t, out) /\ Small(t, ps)
        BY <1>1, <1>4, <2>1
    <2> HIDE DEF out, ps
    <2>3. /\ PackOne(t, out, ps) \in Seq(Seq(T))
          /\ FlattenSeq(PackOne(t, out, ps)) = FlattenSeq(out) \o ps
          /\ Packed(t, PackOne(t, out, ps))
        BY <2>2, PackOneKeeps
    <2> QED BY <2>1, <2>3 DEF out, ps
<1> HIDE DEF n, T
<1>5. CASE n = 0
    BY <1>1, <1>2, <1>3, <1>5 DEF T
<1>6. CASE n # 0
    <2>1. PICK f \in [1..n -> Seq(T)] :
              /\ f[1] = pieces[1]
              /\ \A i \in 2..n : f[i] = f[i - 1] \o pieces[i]
              /\ FlattenSeq(pieces) = f[n]
        BY <1>1, <1>6, FlattenDefined DEF n, T
    <2> DEFINE P == {q \in 1..n : Done(q) /\ FlattenSeq(it[1..q]) = f[q]}
    <2>2. 1 \in P
        <3>1. 0 \in 0..(n - 1) /\ 0 + 1 = 1 /\ 1 \in 1..n
            BY <1>1, <1>6
        <3>2. Done(0) /\ FlattenSeq(it[1..0]) = <<>>
            BY <1>2, <1>3
        <3>3. Done(0 + 1) /\ FlattenSeq(it[1..(0 + 1)]) = FlattenSeq(it[1..0]) \o pieces[0 + 1]
            BY <1>4, <3>1, <3>2
        <3>4. FlattenSeq(it[1..1]) = <<>> \o pieces[1] /\ Done(1)
            BY <3>1, <3>2, <3>3
        <3>5. <<>> \o pieces[1] = pieces[1]
            BY <1>1, <3>1
        <3> QED BY <2>1, <3>1, <3>4, <3>5
    <2>3. ASSUME NEW q \in 1..(n - 1), q \in P PROVE q + 1 \in P
        <3>1. q \in 0..(n - 1) /\ q + 1 \in 2..n /\ q + 1 \in 1..n /\ (q + 1) - 1 = q
            BY <1>1
        <3>2. Done(q) /\ FlattenSeq(it[1..q]) = f[q]
            BY <2>3
        <3>3. Done(q + 1) /\ FlattenSeq(it[1..(q + 1)]) = FlattenSeq(it[1..q]) \o pieces[q + 1]
            BY <1>4, <3>1, <3>2
        <3>4. f[q + 1] = f[q] \o pieces[q + 1]
            BY <2>1, <3>1
        <3> HIDE DEF Done
        <3> QED BY <3>1, <3>2, <3>3, <3>4
    <2> HIDE DEF P
    <2>4. \A q \in 1..n : q \in P
        BY <1>1, <1>6, <2>2, <2>3, Along
    <2>5. n \in 1..n
        BY <1>1, <1>6
    <2>6. Done(n) /\ FlattenSeq(it[1..n]) = f[n]
        BY <2>4, <2>5 DEF P
    <2> QED BY <1>2, <2>1, <2>6 DEF T
<1> QED BY <1>5, <1>6

----------------------------------------------------------------------------
(* What is too dense.                                                      *)

\* Half the way back from k to i, and at least to i.
Half(i, k) == i + Max({(k - i + 1) \div 2, 1}) - 1

\* Half the way back is shorter.
LEMMA HalfLess ==
    ASSUME NEW i \in Nat, NEW k \in Nat, i < k
    PROVE  Half(i, k) \in Nat /\ i <= Half(i, k) /\ Half(i, k) < k
<1> DEFINE d == (k - i + 1) \div 2
           m == Max({d, 1})
<1>1. d \in Nat /\ d <= k - i
    <2> DEFINE x == k - i
    <2>1. x \in Nat /\ x >= 1
        OBVIOUS
    <2> HIDE DEF x
    <2>2. (x + 1) \div 2 \in Nat /\ (x + 1) \div 2 <= x
        BY <2>1
    <2> QED BY <2>2 DEF x
<1> HIDE DEF d
<1>2. {d, 1} \subseteq Int /\ IsFiniteSet({d, 1})
    <2>1. IsFiniteSet({1}) /\ {d, 1} = {1} \cup {d}
        BY FS_Singleton
    <2>2. IsFiniteSet({d, 1})
        BY <2>1, FS_AddElement
    <2> QED BY <1>1, <2>2
<1>3. m \in {d, 1} /\ 1 <= m
    BY <1>2, MaxIn
<1> HIDE DEF m
<1>4. m \in Nat /\ m <= k - i
    BY <1>1, <1>3
<1>5. i + m - 1 \in Nat /\ i <= i + m - 1 /\ i + m - 1 < k
    BY <1>3, <1>4
<1> QED BY <1>5 DEF Half, m, d

\* The definition inside Shrunk.
ShrunkFold(t, i, j, f) ==
    f = [k \in i..j |-> IF k = i \/ FitsTokens(t, Between(i, k)) THEN k
                        ELSE f[Half(i, k)]]

\* What is shrunk to fits, or is one character.
LEMMA ShrunkFits ==
    ASSUME NEW t \in Seq(Char), NEW i \in 1..Len(t), NEW j \in i..Len(t)
    PROVE  /\ Shrunk(t, i, j) \in i..j
           /\ Shrunk(t, i, j) = i \/ FitsTokens(t, Between(i, Shrunk(t, i, j)))
<1> DEFINE S == i..j
           Ends(k) == k = i \/ FitsTokens(t, Between(i, k))
           op == [x \in S \X [S -> S] |-> IF Ends(x[1]) THEN x[1] ELSE x[2][Half(i, x[1])]]
           m == [k \in S |-> k - i]
           it == CHOOSE f : ShrunkFold(t, i, j, f)
           K == j - i
<1>1. Shrunk(t, i, j) = it[j]
    BY DEF Shrunk, it, ShrunkFold, Half
<1> HIDE DEF it, Ends
<1>2. i \in Nat /\ j \in Nat /\ K \in Nat /\ i \in S /\ j \in S
      /\ \A k \in S : k \in Nat /\ i <= k /\ k - i \in 0..K
    OBVIOUS
<1>3. ASSUME NEW k \in S, ~Ends(k) PROVE Half(i, k) \in S /\ Half(i, k) < k
    <2>1. k \in Nat /\ k # i
        BY <1>2, <1>3 DEF Ends
    <2>2. i < k /\ k <= j
        BY <1>2, <2>1
    <2>3. Half(i, k) \in Nat /\ i <= Half(i, k) /\ Half(i, k) < k
        BY <1>2, <2>1, <2>2, HalfLess
    <2> QED BY <1>2, <2>1, <2>2, <2>3
<1>4. op \in [S \X [S -> S] -> S]
    <2>1. ASSUME NEW x \in S \X [S -> S]
          PROVE  (IF Ends(x[1]) THEN x[1] ELSE x[2][Half(i, x[1])]) \in S
        <3>1. x[1] \in S /\ x[2] \in [S -> S]
            OBVIOUS
        <3> HIDE DEF S
        <3> QED BY <1>3, <3>1
    <2> QED BY <2>1
<1>5. m \in [S -> 0..K]
    BY <1>2
<1>6. Descends(op, S, S, m, K)
    <2> SUFFICES ASSUME NEW x \in S, NEW g \in [S -> S], NEW h \in [S -> S],
                        \A y \in S : m[y] < m[x] => g[y] = h[y]
                 PROVE  op[<<x, g>>] = op[<<x, h>>]
        BY <1>2, <1>4, <1>5 DEF Descends
    <2>1. op[<<x, g>>] = IF Ends(x) THEN x ELSE g[Half(i, x)]
        OBVIOUS
    <2>2. op[<<x, h>>] = IF Ends(x) THEN x ELSE h[Half(i, x)]
        OBVIOUS
    <2>3. ASSUME ~Ends(x) PROVE g[Half(i, x)] = h[Half(i, x)]
        <3> DEFINE y == Half(i, x)
        <3>1. y \in S /\ y < x
            BY <1>3, <2>3
        <3> HIDE DEF y
        <3>2. m[y] < m[x]
            BY <1>2, <3>1
        <3> HIDE DEF m
        <3>3. g[y] = h[y]
            BY <3>1, <3>2
        <3> QED BY <3>3 DEF y
    <2> QED BY <2>1, <2>2, <2>3
<1>7. \E f : ShrunkFold(t, i, j, f)
    <2> HIDE DEF op, m, K, S
    <2>1. PICK f \in [S -> S] : \A x \in S : f[x] = op[<<x, f>>]
        BY <1>6, RecursionExists
    <2>2. \A x \in S : f[x] = IF Ends(x) THEN x ELSE f[Half(i, x)]
        <3> SUFFICES ASSUME NEW x \in S PROVE f[x] = IF Ends(x) THEN x ELSE f[Half(i, x)]
            OBVIOUS
        <3>1. op[<<x, f>>] = IF Ends(x) THEN x ELSE f[Half(i, x)]
            BY <2>1 DEF op
        <3> QED BY <2>1, <3>1
    <2>3. f = [x \in S |-> f[x]]
        BY <2>1
    <2>4. f = [x \in S |-> IF Ends(x) THEN x ELSE f[Half(i, x)]]
        BY <2>2, <2>3
    <2>5. ShrunkFold(t, i, j, f)
        BY <2>4 DEF ShrunkFold, S, Ends
    <2> QED BY <2>5
<1>8. ShrunkFold(t, i, j, it)
    BY <1>7 DEF it
<1>9. \A k \in S : it[k] = IF Ends(k) THEN k ELSE it[Half(i, k)]
    BY <1>8 DEF ShrunkFold, Ends
<1> DEFINE Good(k) == it[k] \in i..k /\ (it[k] = i \/ FitsTokens(t, Between(i, it[k])))
           P == {n \in Nat : n + i \in S => Good(n + i)}
<1>10. ASSUME NEW n \in Nat, \A q \in Nat : q < n => q \in P PROVE n \in P
    <2> SUFFICES ASSUME n + i \in S PROVE Good(n + i)
        OBVIOUS
    <2> DEFINE k == n + i
    <2>1. k \in S /\ k \in i..k
        BY <1>2
    <2>2. CASE Ends(k)
        <3>1. it[k] = k
            BY <1>9, <2>1, <2>2
        <3>2. k = i \/ FitsTokens(t, Between(i, k))
            BY <2>2 DEF Ends
        <3> HIDE DEF k
        <3> QED BY <2>1, <3>1, <3>2 DEF k
    <2>3. CASE ~Ends(k)
        <3> DEFINE h == Half(i, k)
                   d == h - i
        <3>1. it[k] = it[h] /\ h \in S /\ h < k
            BY <1>3, <1>9, <2>1, <2>3
        <3> HIDE DEF h
        <3>2. d \in Nat /\ d < n /\ d + i = h /\ h \in Nat
            BY <1>2, <3>1
        <3>3. d \in P
            BY <1>10, <3>2
        <3> HIDE DEF d
        <3>4. Good(h)
            BY <3>1, <3>2, <3>3
        <3>5. it[h] \in i..k
            BY <1>2, <3>1, <3>2, <3>4
        <3> HIDE DEF k
        <3> QED BY <3>1, <3>4, <3>5 DEF k
    <2> QED BY <2>2, <2>3
<1> HIDE DEF P
<1>11. Nat \subseteq P
    BY <1>10, LesserFirst
<1>12. Good(j)
    <2>1. K \in P /\ K + i = j
        BY <1>2, <1>11
    <2> QED BY <1>2, <2>1 DEF P
<1> QED BY <1>1, <1>12

\* The end of the first piece that is sent from k on.
SplitEnd(t, k, j) == Shrunk(t, k, Min({k + CharBudget - 1, j}))

\* The first piece is not empty and may be sent.
LEMMA SplitEndFits ==
    ASSUME NEW t \in Seq(Char), NEW j \in 1..Len(t), NEW k \in 1..j
    PROVE  /\ SplitEnd(t, k, j) \in k..j
           /\ Between(k, SplitEnd(t, k, j)) \in Seq(1..Len(t))
           /\ Small(t, Between(k, SplitEnd(t, k, j)))
<1> DEFINE m == Min({k + CharBudget - 1, j})
           e == SplitEnd(t, k, j)
<1>1. m \in k..j
    <2>1. k + CharBudget - 1 \in Nat /\ k <= k + CharBudget - 1 /\ j \in Nat /\ k <= j
        BY Budgets
    <2>2. {k + CharBudget - 1, j} \subseteq Nat /\ {k + CharBudget - 1, j} # {}
        BY <2>1
    <2>3. m \in {k + CharBudget - 1, j} /\ m <= j
        BY <2>2, MinIn
    <2> QED BY <2>1, <2>3
<1> HIDE DEF m
<1>2. k \in 1..Len(t) /\ m \in k..Len(t)
    BY <1>1
<1>3. Shrunk(t, k, m) \in k..m
      /\ (Shrunk(t, k, m) = k \/ FitsTokens(t, Between(k, Shrunk(t, k, m))))
    BY <1>2, ShrunkFits
<1>4. e = Shrunk(t, k, m)
    BY DEF SplitEnd, m
<1> HIDE DEF e
<1>5. e \in k..j
    BY <1>1, <1>3, <1>4
<1>6. Between(k, e) \in Seq(1..Len(t)) /\ Len(Between(k, e)) = e - k + 1
    <2>1. k \in Int /\ e \in Int /\ k <= e + 1 /\ k..e \subseteq 1..Len(t)
        BY <1>5
    <2> QED BY <2>1, BetweenType
<1>7. Small(t, Between(k, e))
    BY <1>3, <1>4, <1>6 DEF Small
<1> QED BY <1>5, <1>6, <1>7 DEF e

\* The definition inside HardSplit.
RestFold(t, i, j, f) ==
    f = [k \in i..(j + 1) |->
            IF k > j THEN <<>>
            ELSE <<Between(k, SplitEnd(t, k, j))>> \o f[SplitEnd(t, k, j) + 1]]

\* Halving what is too dense keeps all of it, in pieces that may be sent.
LEMMA HardSplitKeeps ==
    ASSUME NEW t \in Seq(Char), NEW i \in 1..Len(t), NEW j \in i..Len(t)
    PROVE  /\ HardSplit(t, i, j) \in Seq(Seq(1..Len(t)))
           /\ FlattenSeq(HardSplit(t, i, j)) = Between(i, j)
           /\ \A n \in 1..Len(HardSplit(t, i, j)) : Small(t, HardSplit(t, i, j)[n])
<1> DEFINE S == i..(j + 1)
           T == 1..Len(t)
           V == Seq(Seq(T))
           e(k) == SplitEnd(t, k, j)
           op == [x \in S \X [S -> V] |->
                    IF x[1] > j THEN <<>> ELSE <<Between(x[1], e(x[1]))>> \o x[2][e(x[1]) + 1]]
           K == (j + 1) - i
           m == [k \in S |-> (j + 1) - k]
           it == CHOOSE f : RestFold(t, i, j, f)
<1>1. HardSplit(t, i, j) = it[i]
    BY DEF HardSplit, it, RestFold, SplitEnd
<1> HIDE DEF it
<1>2. /\ i \in Nat /\ j \in Nat /\ K \in Nat /\ i \in S
      /\ \A k \in S : k \in Nat /\ (j + 1) - k \in 0..K
    OBVIOUS
<1>3. ASSUME NEW k \in S, ~(k > j)
      PROVE  /\ k \in 1..j /\ e(k) \in k..j /\ e(k) + 1 \in S /\ k < e(k) + 1
             /\ Between(k, e(k)) \in Seq(T) /\ Small(t, Between(k, e(k)))
    <2>1. j \in 1..Len(t) /\ k \in 1..j
        BY <1>3
    <2>2. e(k) \in k..j /\ Between(k, e(k)) \in Seq(T) /\ Small(t, Between(k, e(k)))
        BY <2>1, SplitEndFits
    <2> HIDE DEF e
    <2>3. e(k) + 1 \in S /\ k < e(k) + 1
        BY <2>2
    <2> QED BY <2>1, <2>2, <2>3
<1> HIDE DEF e
<1>4. <<>> \in V
    OBVIOUS
<1>5. op \in [S \X [S -> V] -> V]
    <2>1. ASSUME NEW x \in S \X [S -> V]
          PROVE  (IF x[1] > j THEN <<>> ELSE <<Between(x[1], e(x[1]))>> \o x[2][e(x[1]) + 1]) \in V
        <3>1. x[1] \in S /\ x[2] \in [S -> V]
            OBVIOUS
        <3>2. CASE x[1] > j
            BY <1>4, <3>2
        <3>3. CASE ~(x[1] > j)
            <4> DEFINE b == Between(x[1], e(x[1]))
                       r == x[2][e(x[1]) + 1]
            <4>1. b \in Seq(T) /\ e(x[1]) + 1 \in S
                BY <1>3, <3>1, <3>3
            <4>2. r \in V
                BY <3>1, <4>1
            <4> HIDE DEF b, r
            <4>3. <<b>> \in V
                BY <4>1
            <4>4. <<b>> \o r \in V
                BY <4>2, <4>3, ConcatProperties
            <4> QED BY <3>3, <4>4 DEF b, r
        <3> QED BY <3>2, <3>3
    <2> HIDE DEF V, S
    <2> QED BY <2>1
<1>6. m \in [S -> 0..K]
    BY <1>2
<1> HIDE DEF V
<1>7. Descends(op, S, V, m, K)
    <2> SUFFICES ASSUME NEW x \in S, NEW g \in [S -> V], NEW h \in [S -> V],
                        \A y \in S : m[y] < m[x] => g[y] = h[y]
                 PROVE  op[<<x, g>>] = op[<<x, h>>]
        BY <1>2, <1>4, <1>5, <1>6 DEF Descends
    <2>1. op[<<x, g>>] = IF x > j THEN <<>> ELSE <<Between(x, e(x))>> \o g[e(x) + 1]
        OBVIOUS
    <2>2. op[<<x, h>>] = IF x > j THEN <<>> ELSE <<Between(x, e(x))>> \o h[e(x) + 1]
        OBVIOUS
    <2>3. ASSUME ~(x > j) PROVE g[e(x) + 1] = h[e(x) + 1]
        <3> DEFINE y == e(x) + 1
        <3>1. y \in S /\ x < y
            BY <1>3, <2>3
        <3> HIDE DEF y
        <3>2. m[y] < m[x]
            BY <1>2, <3>1
        <3> HIDE DEF m
        <3>3. g[y] = h[y]
            BY <3>1, <3>2
        <3> QED BY <3>3 DEF y
    <2> QED BY <2>1, <2>2, <2>3
<1>8. \E f : RestFold(t, i, j, f)
    <2> HIDE DEF op, m, K, S
    <2>1. PICK f \in [S -> V] : \A x \in S : f[x] = op[<<x, f>>]
        BY <1>7, RecursionExists
    <2>2. \A x \in S : f[x] = IF x > j THEN <<>> ELSE <<Between(x, e(x))>> \o f[e(x) + 1]
        <3> SUFFICES ASSUME NEW x \in S
                     PROVE  f[x] = IF x > j THEN <<>> ELSE <<Between(x, e(x))>> \o f[e(x) + 1]
            OBVIOUS
        <3>1. op[<<x, f>>] = IF x > j THEN <<>> ELSE <<Between(x, e(x))>> \o f[e(x) + 1]
            BY <2>1 DEF op
        <3> QED BY <2>1, <3>1
    <2>3. f = [x \in S |-> f[x]]
        BY <2>1
    <2>4. f = [x \in S |-> IF x > j THEN <<>> ELSE <<Between(x, e(x))>> \o f[e(x) + 1]]
        BY <2>2, <2>3
    <2>5. RestFold(t, i, j, f)
        BY <2>4 DEF RestFold, S, e
    <2> QED BY <2>5
<1>9. RestFold(t, i, j, it)
    BY <1>8 DEF it
<1>10. \A k \in S : it[k] = IF k > j THEN <<>> ELSE <<Between(k, e(k))>> \o it[e(k) + 1]
    BY <1>9 DEF RestFold, e
<1> DEFINE Good(k) == /\ it[k] \in Seq(Seq(T))
                      /\ FlattenSeq(it[k]) = Between(k, j)
                      /\ \A n \in 1..Len(it[k]) : Small(t, it[k][n])
           P == {n \in Nat : \A k \in S : (j + 1) - k = n => Good(k)}
<1>11. ASSUME NEW n \in Nat, \A q \in Nat : q < n => q \in P PROVE n \in P
    <2> SUFFICES ASSUME NEW k \in S, (j + 1) - k = n PROVE Good(k)
        OBVIOUS
    <2>1. CASE k > j
        <3>1. it[k] = <<>>
            BY <1>10, <2>1
        <3>2. Between(k, j) = <<>>
            <4>1. j - k + 1 = 0
                BY <1>2, <2>1
            <4>2. Between(k, j) = [q \in 1..0 |-> k + q - 1]
                BY <4>1 DEF Between
            <4> QED BY <4>2
        <3>3. FlattenSeq(<<>>) = <<>>
            BY DEF FlattenSeq
        <3> QED BY <3>1, <3>2, <3>3
    <2>2. CASE ~(k > j)
        <3> DEFINE h == e(k) + 1
                   d == (j + 1) - h
                   b == Between(k, e(k))
                   r == it[h]
        <3>1. it[k] = <<b>> \o r /\ h \in S /\ k < h /\ b \in Seq(T) /\ Small(t, b)
            BY <1>3, <1>10, <2>2
        <3>2. b = Between(k, h - 1)
            <4>1. e(k) \in k..j
                BY <1>3, <2>2
            <4>2. h - 1 = e(k)
                BY <4>1
            <4> QED BY <4>2
        <3> HIDE DEF h, b
        <3>3. d \in Nat /\ d < n /\ h \in Int /\ k \in Int /\ j \in Int /\ k <= h /\ h <= j + 1
            BY <1>2, <3>1
        <3>4. d \in P
            BY <1>11, <3>3
        <3>5. Good(h)
            BY <3>1, <3>4
        <3>6. r \in Seq(Seq(T)) /\ FlattenSeq(r) = Between(h, j) /\ \A q \in 1..Len(r) : Small(t, r[q])
            BY <3>5
        <3> HIDE DEF r, T
        <3>7. <<b>> \in Seq(Seq(T)) /\ Len(<<b>>) = 1 /\ <<b>>[1] = b
            BY <3>1
        <3> DEFINE one == <<b>>
        <3> HIDE DEF one
        <3>8. one \in Seq(Seq(T)) /\ Len(one) = 1 /\ one[1] = b
            BY <3>7 DEF one
        <3>9. one \o r \in Seq(Seq(T)) /\ Len(one \o r) = 1 + Len(r)
              /\ \A q \in 1..(1 + Len(r)) : (one \o r)[q] = IF q <= 1 THEN b ELSE r[q - 1]
            <4>1. one \o r \in Seq(Seq(T)) /\ Len(one \o r) = Len(one) + Len(r)
                  /\ \A q \in 1..(Len(one) + Len(r)) : (one \o r)[q] = IF q <= Len(one) THEN one[q] ELSE r[q - Len(one)]
                BY <3>6, <3>8, ConcatProperties
            <4>2. ASSUME NEW q \in 1..(1 + Len(r)) PROVE (one \o r)[q] = IF q <= 1 THEN b ELSE r[q - 1]
                <5>1. (one \o r)[q] = IF q <= 1 THEN one[q] ELSE r[q - 1]
                    BY <3>8, <4>1
                <5>2. q <= 1 => q = 1
                    BY <3>6
                <5> QED BY <3>8, <5>1, <5>2
            <4> QED BY <3>8, <4>1, <4>2
        <3>10. ASSUME NEW q \in 1..(1 + Len(r)) PROVE Small(t, (one \o r)[q])
            <4>1. CASE q <= 1
                BY <3>1, <3>9, <4>1
            <4>2. CASE ~(q <= 1)
                <5>1. q - 1 \in 1..Len(r)
                    BY <3>6, <4>2
                <5>2. Small(t, r[q - 1])
                    BY <3>6, <5>1
                <5> QED BY <3>9, <4>2, <5>2
            <4> QED BY <4>1, <4>2
        <3>11. FlattenSeq(one \o r) = Between(k, j)
            <4>1. FlattenSeq(one \o r) = FlattenSeq(one) \o FlattenSeq(r)
                BY <3>6, <3>8, FlattenConcat
            <4>2. FlattenSeq(one) = b
                BY <3>1, FlattenOne DEF one
            <4>3. Between(k, h - 1) \o Between(h, j) = Between(k, j)
                BY <3>3, BetweenJoin
            <4> QED BY <3>2, <3>6, <4>1, <4>2, <4>3
        <3>12. it[k] = one \o r
            BY <3>1 DEF one
        <3> QED BY <3>9, <3>10, <3>11, <3>12
    <2> QED BY <2>1, <2>2
<1> HIDE DEF P
<1>12. Nat \subseteq P
    BY <1>11, LesserFirst
<1>13. Good(i)
    BY <1>2, <1>12 DEF P, K
<1> QED BY <1>1, <1>13

----------------------------------------------------------------------------
(* Parts at headings.                                                      *)

\* Where the part that starts at k ends.
PartEnd(j, starts, k) == Min({j} \cup {s - 1 : s \in {s \in starts : s > k}})

\* A part ends before the next, or with the text.
LEMMA PartEnds ==
    ASSUME NEW i \in Nat, NEW j \in Nat, NEW starts, starts \subseteq i..j, NEW k \in starts
    PROVE  /\ PartEnd(j, starts, k) \in k..j
           /\ \A s \in starts : k < s => PartEnd(j, starts, k) < s
           /\ PartEnd(j, starts, k) # j => PartEnd(j, starts, k) + 1 \in starts
<1> DEFINE ends == {j} \cup {s - 1 : s \in {s \in starts : s > k}}
           e == PartEnd(j, starts, k)
<1>1. k \in Nat /\ k <= j /\ \A s \in starts : s \in Nat /\ s <= j
    OBVIOUS
<1>2. \A x \in ends : x \in Nat /\ k <= x
    BY <1>1
<1>3. ends \subseteq Nat /\ ends # {} /\ j \in ends
    BY <1>2
<1>4. e \in ends /\ \A x \in ends : e <= x
    BY <1>3, MinIn DEF PartEnd
<1>5. \A s \in starts : k < s => s - 1 \in ends
    BY <1>1
<1>6. \A x \in ends : x = j \/ (x + 1 \in starts /\ x + 1 \in Nat)
    BY <1>1
<1> HIDE DEF e, ends
<1>7. e \in Nat /\ k <= e /\ e <= j
    BY <1>2, <1>3, <1>4
<1>8. ASSUME NEW s \in starts, k < s PROVE e < s
    <2>1. e <= s - 1 /\ s \in Nat
        BY <1>1, <1>4, <1>5, <1>8
    <2> QED BY <1>7, <2>1
<1>9. e # j => e + 1 \in starts
    BY <1>4, <1>6
<1> QED BY <1>1, <1>7, <1>8, <1>9 DEF e

\* parts are the m stretches from a[q] to b[q], which follow one another to
\* the end of i..j; only blanks stand before them, and only the first may
\* start with one.
Chain(t, i, j, parts, m, a, b) ==
    /\ parts = [q \in 1..m |-> Between(a[q], b[q])]
    /\ a \in [1..m -> i..j] /\ b \in [1..m -> i..j]
    /\ \A q \in 1..m : a[q] <= b[q]
    /\ \A q \in 1..(m - 1) : a[q + 1] = b[q] + 1
    /\ b[m] = j
    /\ \A q \in 2..m : t[a[q]] \notin Blanks
    /\ \A p \in i..j : p < a[1] => t[p] \in Blanks

\* Parts that start at headings leave nothing out but blanks.
LEMMA PartsChain ==
    ASSUME NEW t \in Seq(Char), NEW i \in 1..Len(t), NEW j \in i..Len(t),
           NEW starts, starts \subseteq i..j, i \in starts,
           \A s \in starts : s # i => t[s] \notin Blanks
    PROVE  /\ PartsAt(t, j, starts) \in Seq(Seq(1..Len(t)))
           /\ PartsAt(t, j, starts) # <<>> =>
                \E a, b : Chain(t, i, j, PartsAt(t, j, starts), Len(PartsAt(t, j, starts)), a, b)
<1> DEFINE e(k) == PartEnd(j, starts, k)
           part == [k \in starts |-> Between(k, e(k))]
           kept == {k \in starts : ~IsBlank(t, part[k])}
           a == Sorted(kept)
           m == Cardinality(kept)
           parts == PartsAt(t, j, starts)
<1>1. parts = Those(part, kept)
    BY DEF PartsAt, PartEnd
<1>2. i \in Nat /\ j \in Nat /\ i <= j /\ \A k \in starts : k \in Nat /\ i <= k /\ k <= j
    OBVIOUS
<1>3. \A k \in starts : /\ e(k) \in k..j
                        /\ \A s \in starts : k < s => e(k) < s
                        /\ e(k) # j => e(k) + 1 \in starts
    BY <1>2, PartEnds
<1> HIDE DEF e
<1>4. \A k \in starts : part[k] = Between(k, e(k)) /\ part[k] \in Seq(1..Len(t))
                        /\ Len(part[k]) = e(k) - k + 1
                        /\ \A q \in 1..(e(k) - k + 1) : part[k][q] = k + q - 1
    <2> SUFFICES ASSUME NEW k \in starts
                 PROVE  /\ part[k] = Between(k, e(k)) /\ part[k] \in Seq(1..Len(t))
                        /\ Len(part[k]) = e(k) - k + 1
                        /\ \A q \in 1..(e(k) - k + 1) : part[k][q] = k + q - 1
        OBVIOUS
    <2>1. k \in Int /\ e(k) \in Int /\ k <= e(k) + 1 /\ k..e(k) \subseteq 1..Len(t)
        BY <1>2, <1>3
    <2>2. part[k] = Between(k, e(k))
        OBVIOUS
    <2> HIDE DEF part
    <2> QED BY <2>1, <2>2, BetweenType
<1> HIDE DEF part
<1>5. \A s \in starts : s # i => s \in kept
    <2> SUFFICES ASSUME NEW s \in starts, s # i PROVE ~IsBlank(t, part[s])
        OBVIOUS
    <2>1. 1 \in 1..(e(s) - s + 1) /\ s + 1 - 1 = s
        BY <1>2, <1>3
    <2>2. 1 \in DOMAIN part[s] /\ part[s][1] = s
        BY <1>4, <2>1
    <2> QED BY <2>2 DEF IsBlank
<1>6. kept \subseteq starts /\ kept \subseteq Int /\ IsFiniteSet(kept)
    <2>1. kept \subseteq starts
        OBVIOUS
    <2> HIDE DEF kept
    <2>2. kept \subseteq i..j
        BY <2>1
    <2>4. kept \subseteq Int
        BY <1>2, <2>1
    <2>3. IsFiniteSet(i..j)
        BY <1>2, FS_Interval
    <2> QED BY <2>1, <2>2, <2>3, <2>4, FS_Subset
<1>7. ~(i \in kept) => \A p \in i..e(i) : t[p] \in Blanks
    <2> SUFFICES ASSUME ~(i \in kept), NEW p \in i..e(i) PROVE t[p] \in Blanks
        OBVIOUS
    <2>1. IsBlank(t, part[i])
        OBVIOUS
    <2>2. p - i + 1 \in 1..(e(i) - i + 1) /\ i + (p - i + 1) - 1 = p
        BY <1>2, <1>3
    <2>3. p - i + 1 \in DOMAIN part[i] /\ part[i][p - i + 1] = p
        BY <1>4, <2>2
    <2> QED BY <2>1, <2>3 DEF IsBlank
<1> HIDE DEF kept
<1>8. m \in Nat /\ Lists(a, kept)
    BY <1>6, SortedLists
<1> HIDE DEF a, m
<1>9. /\ a \in [1..m -> kept] /\ \A p, q \in 1..m : p < q => a[p] < a[q]
      /\ \A x \in kept : \E q \in 1..m : a[q] = x
    BY <1>8 DEF Lists, m
<1> DEFINE b == [q \in 1..m |-> e(a[q])]
<1>10. parts = [q \in 1..m |-> Between(a[q], b[q])]
    <2>1. parts = [q \in 1..m |-> part[a[q]]]
        BY <1>1, <1>9 DEF Those, a
    <2>2. \A q \in 1..m : part[a[q]] = Between(a[q], b[q])
        BY <1>4, <1>6, <1>9
    <2> QED BY <2>1, <2>2
<1>11. parts \in Seq(Seq(1..Len(t))) /\ Len(parts) = m
    <2>1. \A q \in 1..m : part[a[q]] \in Seq(1..Len(t))
        BY <1>4, <1>6, <1>9
    <2>2. parts = [q \in 1..m |-> part[a[q]]]
        BY <1>1, <1>9 DEF Those, a
    <2> QED BY <1>8, <2>1, <2>2
<1> HIDE DEF b, parts
<1>12. \A q \in 1..m : a[q] \in starts /\ a[q] \in Nat /\ b[q] = e(a[q]) /\ b[q] \in Nat
                       /\ i <= a[q] /\ a[q] <= b[q] /\ b[q] <= j
    <2> SUFFICES ASSUME NEW q \in 1..m
                 PROVE  /\ a[q] \in starts /\ a[q] \in Nat /\ b[q] = e(a[q]) /\ b[q] \in Nat
                        /\ i <= a[q] /\ a[q] <= b[q] /\ b[q] <= j
        OBVIOUS
    <2>1. a[q] \in starts /\ b[q] = e(a[q])
        BY <1>6, <1>9 DEF b
    <2>2. e(a[q]) \in a[q]..j /\ a[q] \in Nat /\ i <= a[q]
        BY <1>2, <1>3, <2>1
    <2> QED BY <1>2, <2>1, <2>2
<1>13. ASSUME NEW q \in 1..m, b[q] # j
       PROVE  \E r \in 1..m : q < r /\ a[r] = b[q] + 1
    <2> DEFINE x == b[q] + 1
    <2>1. x \in starts /\ x # i /\ a[q] < x
        <3>1. e(a[q]) + 1 \in starts
            BY <1>3, <1>12, <1>13
        <3>2. a[q] \in Nat /\ b[q] \in Nat /\ i <= a[q] /\ a[q] <= b[q] /\ b[q] = e(a[q])
            BY <1>12
        <3> QED BY <1>2, <3>1, <3>2
    <2>2. PICK r \in 1..m : a[r] = x
        BY <1>5, <1>9, <2>1
    <2> HIDE DEF x
    <2>3. ~(r < q) /\ r # q
        <3>1. a[q] \in Nat /\ a[r] \in Nat
            BY <1>12
        <3>2. a[q] < a[r]
            BY <2>1, <2>2
        <3>3. r < q => a[r] < a[q]
            BY <1>9
        <3> QED BY <3>1, <3>2, <3>3
    <2>4. q < r
        BY <1>8, <2>3
    <2> QED BY <2>2, <2>4 DEF x
<1>14. ASSUME NEW q \in 1..(m - 1) PROVE a[q + 1] = b[q] + 1
    <2> DEFINE r == q + 1
    <2>1. q \in 1..m /\ r \in 1..m /\ q < r
        BY <1>8
    <2>2. a[q] < a[r] /\ a[q] \in starts /\ a[r] \in starts /\ a[r] \in Nat /\ b[q] \in Nat
        BY <1>9, <1>12, <2>1
    <2>3. b[q] < a[r]
        BY <1>3, <1>12, <2>1, <2>2
    <2>4. b[q] # j
        <3>1. a[r] <= b[r] /\ b[r] <= j /\ b[r] \in Nat
            BY <1>12, <2>1
        <3> HIDE DEF r
        <3> QED BY <1>2, <2>2, <2>3, <3>1
    <2>5. PICK s \in 1..m : q < s /\ a[s] = b[q] + 1
        BY <1>13, <2>1, <2>4
    <2>6. CASE s = r
        BY <2>5, <2>6
    <2>7. CASE s # r
        <3>1. r < s
            BY <1>8, <2>5, <2>7
        <3>2. a[r] < a[s] /\ a[s] \in Nat
            BY <1>9, <1>12, <2>1, <3>1
        <3> HIDE DEF r
        <3>3. FALSE
            BY <2>2, <2>3, <2>5, <3>2
        <3> QED BY <3>3
    <2> QED BY <2>6, <2>7
<1>15. ASSUME m # 0 PROVE b[m] = j
    <2> SUFFICES ASSUME b[m] # j PROVE FALSE
        OBVIOUS
    <2>1. m \in 1..m
        BY <1>8, <1>15
    <2>2. PICK r \in 1..m : m < r
        BY <1>13, <2>1
    <2> QED BY <1>8, <2>2
<1>16. ASSUME NEW q \in 2..m PROVE t[a[q]] \notin Blanks
    <2>1. 1 \in 1..m /\ q \in 1..m /\ 1 < q
        BY <1>8
    <2>2. a[1] < a[q] /\ i <= a[1] /\ a[1] \in Nat /\ a[q] \in Nat /\ a[q] \in starts
        BY <1>9, <1>12, <2>1
    <2>3. a[q] # i
        BY <1>2, <2>2
    <2> QED BY <2>2, <2>3
<1>17. ASSUME m # 0, NEW p \in i..j, p < a[1] PROVE t[p] \in Blanks
    <2>1. 1 \in 1..m /\ a[1] \in starts /\ a[1] \in Nat /\ a[1] \in kept
        BY <1>8, <1>9, <1>12, <1>17
    <2>2. ~(i \in kept)
        <3> SUFFICES ASSUME i \in kept PROVE FALSE
            OBVIOUS
        <3>1. PICK q \in 1..m : a[q] = i
            BY <1>9
        <3>2. q = 1 \/ 1 < q
            BY <1>8
        <3>3. 1 < q => a[1] < a[q]
            BY <1>9, <2>1
        <3>4. p \in Nat /\ i <= p
            BY <1>2
        <3> QED BY <1>2, <1>17, <2>1, <3>1, <3>2, <3>3, <3>4
    <2>3. a[1] # i
        BY <2>1, <2>2
    <2>4. i < a[1] /\ e(i) \in i..j
        BY <1>2, <1>3, <2>1, <2>3
    <2>5. e(i) # j
        <3>1. e(i) < a[1] /\ a[1] <= j
            BY <1>2, <1>3, <2>1, <2>4
        <3> QED BY <1>2, <2>1, <2>4, <3>1
    <2>6. e(i) + 1 \in starts /\ e(i) + 1 # i
        BY <1>2, <1>3, <2>4, <2>5
    <2>7. PICK q \in 1..m : a[q] = e(i) + 1
        BY <1>5, <1>9, <2>6
    <2>8. a[1] <= a[q]
        <3>1. q = 1 \/ 1 < q
            BY <1>8
        <3>2. a[q] \in Nat
            BY <1>12
        <3>3. 1 < q => a[1] < a[q]
            BY <1>9, <2>1
        <3> QED BY <2>1, <3>1, <3>2, <3>3
    <2>9. p \in i..e(i)
        BY <1>2, <1>17, <2>1, <2>4, <2>7, <2>8
    <2> QED BY <1>7, <2>2, <2>9
<1>18. parts # <<>> => m # 0
    BY <1>11
<1>19. a \in [1..m -> i..j] /\ b \in [1..m -> i..j]
    <2>1. \A q \in 1..m : a[q] \in i..j /\ b[q] \in i..j
        BY <1>2, <1>12
    <2> QED BY <1>9, <2>1 DEF b
<1>20. m # 0 => Chain(t, i, j, parts, m, a, b)
    BY <1>10, <1>12, <1>14, <1>15, <1>16, <1>17, <1>19 DEF Chain
<1> QED BY <1>11, <1>18, <1>20 DEF parts

\* A heading does not start with a blank.
LEMMA HeadingStartsSolid ==
    ASSUME NEW t \in Seq(Char), NEW i \in 1..Len(t), NEW j \in i..Len(t), NEW level \in 1..6
    PROVE  /\ {i} \cup HeadingStarts(t, i, j, level) \subseteq i..j
           /\ \A s \in {i} \cup HeadingStarts(t, i, j, level) : s # i => t[s] \notin Blanks
<1> DEFINE hs == HeadingStarts(t, i, j, level)
<1>1. ASSUME NEW k \in hs PROVE k \in i..j /\ t[k] = "#"
    <2>1. k \in i..(j - level) /\ \A h \in k..(k + level - 1) : t[h] = "#"
        BY DEF HeadingStarts
    <2>2. k \in i..j /\ k \in k..(k + level - 1)
        BY <2>1
    <2> QED BY <2>1, <2>2
<1>2. "#" \notin Blanks
    BY DEF Blanks
<1> HIDE DEF hs
<1>3. i \in i..j
    OBVIOUS
<1> QED BY <1>1, <1>2, <1>3 DEF hs

----------------------------------------------------------------------------
(* Cutting at headings.                                                    *)

\* The stretches of a text.
Stretches(t) == {Between(x[1], x[2]) : x \in {x \in (DOMAIN t) \X (DOMAIN t) : x[1] <= x[2]}}

\* A stretch starts and ends where it does.
LEMMA StretchEnds ==
    ASSUME NEW t \in Seq(Char), NEW i \in 1..Len(t), NEW j \in i..Len(t)
    PROVE  /\ Between(i, j) \in Stretches(t) /\ Between(i, j) \in Seq(1..Len(t))
           /\ Between(i, j)[1] = i /\ Last(Between(i, j)) = j
           /\ Len(Between(i, j)) = j - i + 1
           /\ \A k \in 1..(j - i + 1) : Between(i, j)[k] = i + k - 1
<1>1. <<i, j>> \in {x \in (DOMAIN t) \X (DOMAIN t) : x[1] <= x[2]}
    OBVIOUS
<1>2. Between(i, j) \in Stretches(t)
    BY <1>1 DEF Stretches
<1>3. i \in Int /\ j \in Int /\ i <= j + 1 /\ i..j \subseteq 1..Len(t)
    OBVIOUS
<1>4. /\ Between(i, j) \in Seq(1..Len(t)) /\ Len(Between(i, j)) = j - i + 1
      /\ \A k \in 1..(j - i + 1) : Between(i, j)[k] = i + k - 1
    BY <1>3, BetweenType
<1>5. 1 \in 1..(j - i + 1) /\ j - i + 1 \in 1..(j - i + 1) /\ i + 1 - 1 = i /\ i + (j - i + 1) - 1 = j
    OBVIOUS
<1> QED BY <1>2, <1>4, <1>5 DEF Last

\* The parts are m, more than one, each shorter than i..j.
Divides(t, i, j, parts, m, a, b) ==
    /\ m \in Nat /\ m > 1 /\ Chain(t, i, j, parts, m, a, b)
    /\ DOMAIN parts = 1..m
    /\ \A q \in 1..m :
          /\ a[q] \in i..j /\ b[q] \in i..j /\ a[q] <= b[q] /\ b[q] - a[q] < j - i
          /\ parts[q][1] = a[q] /\ Last(parts[q]) = b[q]

\* A level with more than one part divides what is cut.
LEMMA PartsAtLevel ==
    ASSUME NEW t \in Seq(Char), NEW i \in 1..Len(t), NEW j \in i..Len(t), NEW level \in 1..6,
           Len(Parts(t, i, j, level)) > 1
    PROVE  \E m, a, b : Divides(t, i, j, Parts(t, i, j, level), m, a, b)
<1> DEFINE parts == Parts(t, i, j, level)
           m == Len(parts)
           starts == {i} \cup HeadingStarts(t, i, j, level)
<1>1. parts = PartsAt(t, j, starts)
    BY DEF Parts
<1>2. starts \subseteq i..j /\ i \in starts /\ \A s \in starts : s # i => t[s] \notin Blanks
    BY HeadingStartsSolid
<1> HIDE DEF starts, parts
<1>3. parts \in Seq(Seq(1..Len(t))) /\ (parts # <<>> => \E a, b : Chain(t, i, j, parts, m, a, b))
    BY <1>1, <1>2, PartsChain
<1>4. m \in Nat /\ m > 1 /\ parts # <<>>
    BY <1>3 DEF parts
<1>5. PICK a, b : Chain(t, i, j, parts, m, a, b)
    BY <1>3, <1>4
<1> HIDE DEF m
<1>6. /\ parts = [q \in 1..m |-> Between(a[q], b[q])]
      /\ \A q \in 1..m : a[q] \in i..j /\ b[q] \in i..j /\ a[q] <= b[q]
      /\ \A q \in 1..(m - 1) : a[q + 1] = b[q] + 1
    BY <1>5 DEF Chain
<1>7. ASSUME NEW q \in 1..m PROVE parts[q][1] = a[q] /\ Last(parts[q]) = b[q]
    <2>1. a[q] \in 1..Len(t) /\ b[q] \in a[q]..Len(t)
        BY <1>6
    <2>2. Between(a[q], b[q])[1] = a[q] /\ Last(Between(a[q], b[q])) = b[q]
        BY <2>1, StretchEnds
    <2> QED BY <1>6, <2>2
<1>8. ASSUME NEW q \in 1..m PROVE b[q] - a[q] < j - i
    <2> DEFINE x == a[q]
               y == b[q]
    <2>1. x \in i..j /\ y \in i..j /\ x <= y
        BY <1>6
    <2>2. CASE q = 1
        <3>1. 1 \in 1..(m - 1) /\ 1 + 1 \in 1..m /\ q \in 1..(m - 1)
            BY <1>4, <2>2
        <3> DEFINE z == a[q + 1]
        <3>2. z = y + 1 /\ z \in i..j
            BY <1>6, <2>2, <3>1
        <3> HIDE DEF x, y, z
        <3>3. y < j
            BY <2>1, <3>2
        <3>4. y - x < j - i
            BY <2>1, <3>3
        <3> QED BY <3>4 DEF x, y
    <2>3. CASE q # 1
        <3> DEFINE r == q - 1
                   z == b[r]
                   w == a[r]
        <3>1. r \in 1..(m - 1) /\ r \in 1..m /\ r + 1 = q
            BY <1>4, <2>3
        <3>2. x = z + 1 /\ z \in i..j /\ w \in i..j /\ w <= z
            <4> HIDE DEF r
            <4> QED BY <1>6, <3>1
        <3> HIDE DEF x, y, z, w
        <3>3. i < x
            BY <2>1, <3>2
        <3>4. y - x < j - i
            BY <2>1, <3>3
        <3> QED BY <3>4 DEF x, y
    <2> QED BY <2>2, <2>3
<1>9. DOMAIN parts = 1..m
    BY <1>6
<1>10. Divides(t, i, j, parts, m, a, b)
    BY <1>4, <1>5, <1>6, <1>7, <1>8, <1>9 DEF Divides
<1> QED BY <1>10 DEF parts

\* The levels at which a stretch has more than one part.
Levels(t, i, j) == {l \in 1..6 : Len(Parts(t, i, j, l)) > 1}

\* The shallowest such level is one.
LEMMA Shallowest ==
    ASSUME NEW t, NEW i, NEW j, Levels(t, i, j) # {}
    PROVE  Min(Levels(t, i, j)) \in 1..6 /\ Len(Parts(t, i, j, Min(Levels(t, i, j)))) > 1
<1> DEFINE ls == Levels(t, i, j)
<1>1. ls \subseteq Nat /\ \A l \in ls : l \in 1..6 /\ Len(Parts(t, i, j, l)) > 1
    BY DEF Levels
<1> HIDE DEF ls
<1>2. ls # {}
    BY DEF ls
<1>3. Min(ls) \in ls
    BY <1>1, <1>2, MinIn
<1> QED BY <1>1, <1>3 DEF ls

\* A stretch without headings is cut by its characters.
LEMMA ChunksChain ==
    ASSUME NEW i \in Nat, NEW j \in Nat, i <= j
    PROVE  LET chunks == (j - i + CharBudget) \div CharBudget
               a == [n \in 1..chunks |-> i + (n - 1) * CharBudget]
               b == [n \in 1..chunks |-> Min({j, i + n * CharBudget - 1})]
           IN /\ chunks \in Nat /\ chunks # 0
              /\ a \in [1..chunks -> i..j] /\ b \in [1..chunks -> i..j]
              /\ \A q \in 1..chunks : a[q] <= b[q]
              /\ \A q \in 1..(chunks - 1) : a[q + 1] = b[q] + 1
              /\ a[1] = i /\ b[chunks] = j
<1> DEFINE K == CharBudget
           d == j - i
           c == (d + K) \div K
           a == [n \in 1..c |-> i + (n - 1) * K]
           b == [n \in 1..c |-> Min({j, i + n * K - 1})]
<1>1. K \in Nat /\ K # 0 /\ d \in Nat /\ j = i + d
    BY Budgets
<1> HIDE DEF K, d
<1>2. c \in Nat /\ c # 0 /\ (c - 1) * K <= d /\ d < c * K
    <2>1. c \in Nat /\ c * K <= d + K /\ d + K < (c + 1) * K
        BY <1>1
    <2> HIDE DEF c
    <2>2. c # 0
        <3>1. c = 0 => d + K < K
            BY <1>1, <2>1
        <3> QED BY <1>1, <3>1
    <2>3. (c - 1) * K = c * K - K /\ (c + 1) * K = c * K + K
        BY <1>1, <2>1
    <2>4. c * K \in Nat
        BY <1>1, <2>1
    <2> DEFINE x == c * K
    <2> HIDE DEF x
    <2>5. x \in Nat /\ x <= d + K /\ d + K < x + K
        BY <2>1, <2>3, <2>4 DEF x
    <2>6. x - K <= d /\ d < x
        BY <1>1, <2>5
    <2> QED BY <2>1, <2>2, <2>3, <2>6 DEF x
<1> HIDE DEF c
<1>3. ASSUME NEW q \in Nat, NEW r \in Nat, q <= r
      PROVE  q * K \in Nat /\ r * K \in Nat /\ q * K <= r * K /\ (q + 1) * K = q * K + K
    BY <1>1, <1>3
<1>4. ASSUME NEW q \in 1..c
      PROVE  /\ (q - 1) * K \in Nat /\ (q - 1) * K <= d /\ q * K = (q - 1) * K + K /\ q * K \in Nat
             /\ q < c => q * K <= d
    <2> DEFINE p == q - 1
    <2>1. p \in Nat /\ c - 1 \in Nat /\ p <= c - 1 /\ q = p + 1 /\ q \in Nat
        BY <1>2
    <2> HIDE DEF p
    <2>2. p * K \in Nat /\ p * K <= (c - 1) * K /\ (p + 1) * K = p * K + K
        BY <1>3, <2>1
    <2>3. (c - 1) * K \in Nat /\ q * K \in Nat
        BY <1>3, <2>1
    <2>4. q < c => q * K <= (c - 1) * K
        <3>1. q < c => q <= c - 1
            BY <1>2, <2>1
        <3> QED BY <1>3, <2>1, <3>1
    <2> DEFINE u == (c - 1) * K
               v == p * K
               w == q * K
    <2>5. u \in Nat /\ v \in Nat /\ w \in Nat /\ u <= d /\ v <= u /\ w = v + K /\ (q < c => w <= u)
        BY <1>2, <2>1, <2>2, <2>3, <2>4
    <2> HIDE DEF u, v, w
    <2>6. v <= d /\ (q < c => w <= d)
        BY <1>1, <2>5
    <2> QED BY <2>1, <2>5, <2>6 DEF v, w, p
<1>5. ASSUME NEW q \in 1..c
      PROVE  LET x == (q - 1) * K
             IN /\ x \in Nat /\ x <= d
                /\ a[q] = i + x /\ a[q] \in i..j /\ b[q] \in i..j /\ a[q] <= b[q]
                /\ q < c => b[q] = i + x + K - 1
                /\ d < x + K => b[q] = j
    <2> DEFINE x == (q - 1) * K
               y == i + q * K - 1
    <2>1. x \in Nat /\ x <= d /\ q * K = x + K /\ (q < c => x + K <= d)
        BY <1>4
    <2>2. a[q] = i + x /\ b[q] = Min({j, y})
        OBVIOUS
    <2> HIDE DEF x
    <2>3. y = i + x + K - 1 /\ y \in Nat
        BY <1>1, <2>1
    <2> HIDE DEF y, a, b
    <2>4. {j, y} \subseteq Nat
        BY <2>3
    <2>5. Min({j, y}) \in {j, y} /\ Min({j, y}) <= j /\ Min({j, y}) <= y
        BY <2>4, MinIn
    <2> DEFINE z == Min({j, y})
    <2> HIDE DEF z
    <2>6. b[q] = z /\ (z = j \/ z = y) /\ z <= j /\ z <= y
        BY <2>2, <2>5 DEF z
    <2>7. a[q] \in i..j
        BY <1>1, <2>1, <2>2
    <2>8. b[q] \in i..j /\ a[q] <= b[q]
        BY <1>1, <2>1, <2>2, <2>3, <2>6
    <2>9. q < c => b[q] = i + x + K - 1
        BY <1>1, <2>1, <2>3, <2>6
    <2>10. d < x + K => b[q] = j
        BY <1>1, <2>1, <2>3, <2>6
    <2> QED BY <2>1, <2>2, <2>7, <2>8, <2>9, <2>10 DEF x
<1>6. a[1] = i
    <2>1. 1 \in 1..c /\ (1 - 1) * K = 0
        BY <1>1, <1>2
    <2>2. a[1] = i + (1 - 1) * K
        BY <2>1
    <2> QED BY <2>1, <2>2
<1>7. b[c] = j
    <2>1. c \in 1..c
        BY <1>2
    <2>2. d < (c - 1) * K + K
        BY <1>2, <1>4, <2>1
    <2> HIDE DEF b
    <2> QED BY <1>5, <2>1, <2>2
<1>8. ASSUME NEW q \in 1..(c - 1) PROVE a[q + 1] = b[q] + 1
    <2> DEFINE r == q + 1
               x == (q - 1) * K
    <2>1. q \in 1..c /\ r \in 1..c /\ q < c /\ r - 1 = q
        BY <1>2
    <2>2. b[q] = i + x + K - 1 /\ x \in Nat
        BY <1>5, <2>1
    <2>3. a[r] = i + (r - 1) * K
        BY <2>1
    <2>4. q * K = x + K
        BY <1>4, <2>1
    <2> HIDE DEF a, b, x, r
    <2>5. a[r] = i + x + K
        BY <2>1, <2>2, <2>3, <2>4, <1>1
    <2>6. a[r] = b[q] + 1
        BY <1>1, <2>2, <2>5
    <2> QED BY <2>6 DEF r
<1>9. a \in [1..c -> i..j] /\ b \in [1..c -> i..j]
    <2>1. \A q \in 1..c : a[q] \in i..j /\ b[q] \in i..j
        BY <1>5
    <2>2. a = [q \in 1..c |-> a[q]] /\ b = [q \in 1..c |-> b[q]]
        OBVIOUS
    <2> HIDE DEF a, b
    <2> QED BY <2>1, <2>2
<1>10. \A q \in 1..c : a[q] <= b[q]
    BY <1>5
<1> QED BY <1>2, <1>6, <1>7, <1>8, <1>9, <1>10 DEF K, d, c

\* The stretches of a text that are cut, from one place to another.
Cuts(t) == (DOMAIN t) \X (DOMAIN t)

\* What each of the parts is cut into.
CutParts(g, parts) == [n \in DOMAIN parts |-> g[<<parts[n][1], Last(parts[n])>>]]

Chunks(i, j) ==
    [n \in 1..((j - i + CharBudget) \div CharBudget) |->
        Between(i + (n - 1) * CharBudget, Min({j, i + n * CharBudget - 1}))]

\* The three ways to cut.
LEMMA CutWays ==
    ASSUME NEW t, NEW g, NEW i, NEW j
    PROVE  CutOne(t, g, i, j) =
              IF j - i + 1 <= CharBudget THEN <<Between(i, j)>>
              ELSE IF Levels(t, i, j) # {}
              THEN FlattenSeq(CutParts(g, Parts(t, i, j, Min(Levels(t, i, j)))))
              ELSE Chunks(i, j)
BY DEF CutOne, Levels, CutParts, Chunks

\* What the parts of a stretch that has more than one are cut into.
LEMMA CutPartsAre ==
    ASSUME NEW t \in Seq(Char), NEW i \in 1..Len(t), NEW j \in i..Len(t), Levels(t, i, j) # {}
    PROVE  \E m, a, b :
              /\ Divides(t, i, j, Parts(t, i, j, Min(Levels(t, i, j))), m, a, b)
              /\ \A g : CutParts(g, Parts(t, i, j, Min(Levels(t, i, j)))) =
                            [q \in 1..m |-> g[<<a[q], b[q]>>]]
              /\ \A q \in 1..m : <<a[q], b[q]>> \in Cuts(t)
<1> DEFINE level == Min(Levels(t, i, j))
           parts == Parts(t, i, j, level)
<1>1. level \in 1..6 /\ Len(parts) > 1
    BY Shallowest
<1> HIDE DEF level
<1>2. PICK m, a, b : Divides(t, i, j, parts, m, a, b)
    BY <1>1, PartsAtLevel
<1> HIDE DEF parts
<1>3. ASSUME NEW g PROVE CutParts(g, parts) = [q \in 1..m |-> g[<<a[q], b[q]>>]]
    BY <1>2 DEF CutParts, Divides
<1>4. ASSUME NEW q \in 1..m PROVE <<a[q], b[q]>> \in Cuts(t)
    <2>1. a[q] \in i..j /\ b[q] \in i..j
        BY <1>2 DEF Divides
    <2> QED BY <2>1 DEF Cuts
<1> QED BY <1>2, <1>3, <1>4 DEF parts, level

\* The chunks of a stretch are one after the other.
LEMMA ChunksAre ==
    ASSUME NEW t \in Seq(Char), NEW i \in 1..Len(t), NEW j \in i..Len(t)
    PROVE  /\ Chunks(i, j) \in Seq(Stretches(t)) /\ Chunks(i, j) \in Seq(Seq(1..Len(t)))
           /\ FlattenSeq(Chunks(i, j)) = Between(i, j)
<1> DEFINE c == (j - i + CharBudget) \div CharBudget
           a == [n \in 1..c |-> i + (n - 1) * CharBudget]
           b == [n \in 1..c |-> Min({j, i + n * CharBudget - 1})]
<1>1. /\ c \in Nat /\ c # 0
      /\ a \in [1..c -> i..j] /\ b \in [1..c -> i..j]
      /\ \A q \in 1..c : a[q] <= b[q]
      /\ \A q \in 1..(c - 1) : a[q + 1] = b[q] + 1
      /\ a[1] = i /\ b[c] = j
    <2>1. i \in Nat /\ j \in Nat /\ i <= j
        OBVIOUS
    <2> QED BY <2>1, ChunksChain
<1>2. Chunks(i, j) = [q \in 1..c |-> Between(a[q], b[q])]
    BY DEF Chunks
<1> HIDE DEF a, b, c
<1>3. a \in [1..c -> Int] /\ b \in [1..c -> Int]
    <2>1. i..j \subseteq Int
        OBVIOUS
    <2> QED BY <1>1, <2>1
<1>4. FlattenSeq(Chunks(i, j)) = Between(i, j)
    BY <1>1, <1>2, <1>3, ChainFlat
<1>5. ASSUME NEW q \in 1..c
      PROVE  Between(a[q], b[q]) \in Stretches(t) /\ Between(a[q], b[q]) \in Seq(1..Len(t))
    <2>1. a[q] \in 1..Len(t) /\ b[q] \in a[q]..Len(t)
        BY <1>1
    <2> QED BY <2>1, StretchEnds
<1>6. Chunks(i, j) \in [1..c -> Stretches(t)] /\ Chunks(i, j) \in [1..c -> Seq(1..Len(t))]
    BY <1>2, <1>5
<1> QED BY <1>1, <1>4, <1>6

\* What is cut is cut into stretches of positions.
LEMMA CutOneType ==
    ASSUME NEW t \in Seq(Char), NEW g \in [Cuts(t) -> Seq(Seq(1..Len(t)))],
           NEW i \in 1..Len(t), NEW j \in 1..Len(t)
    PROVE  CutOne(t, g, i, j) \in Seq(Seq(1..Len(t)))
<1> DEFINE T == 1..Len(t)
<1>1. CASE j - i + 1 <= CharBudget
    <2>1. CutOne(t, g, i, j) = <<Between(i, j)>>
        BY <1>1, CutWays
    <2>2. Between(i, j) \in Seq(T)
        <3>1. CASE i <= j
            <4>1. j \in i..Len(t)
                BY <3>1
            <4> QED BY <4>1, StretchEnds
        <3>2. CASE ~(i <= j)
            <4>1. 1..(j - i + 1) = 1..0
                BY <3>2
            <4>2. Between(i, j) = [k \in 1..0 |-> i + k - 1]
                BY <4>1, Zenon DEF Between
            <4>3. [k \in 1..0 |-> i + k - 1] = <<>>
                OBVIOUS
            <4> QED BY <4>2, <4>3
        <3> QED BY <3>1, <3>2
    <2> QED BY <2>1, <2>2
<1>2. CASE ~(j - i + 1 <= CharBudget)
    <2>1. j \in i..Len(t)
        BY <1>2, Budgets
    <2>2. CASE Levels(t, i, j) # {}
        <3> DEFINE xs == CutParts(g, Parts(t, i, j, Min(Levels(t, i, j))))
        <3>1. CutOne(t, g, i, j) = FlattenSeq(xs)
            BY <1>2, <2>2, CutWays
        <3>4. PICK m, a, b :
                  /\ Divides(t, i, j, Parts(t, i, j, Min(Levels(t, i, j))), m, a, b)
                  /\ \A f : CutParts(f, Parts(t, i, j, Min(Levels(t, i, j)))) =
                                [q \in 1..m |-> f[<<a[q], b[q]>>]]
                  /\ \A q \in 1..m : <<a[q], b[q]>> \in Cuts(t)
            BY <2>1, <2>2, CutPartsAre
        <3>2. /\ m \in Nat /\ xs = [q \in 1..m |-> g[<<a[q], b[q]>>]]
              /\ \A q \in 1..m : <<a[q], b[q]>> \in Cuts(t)
            BY <3>4 DEF Divides
        <3> HIDE DEF xs, T
        <3>3. xs \in Seq(Seq(Seq(T)))
            <4>1. \A q \in 1..m : g[<<a[q], b[q]>>] \in Seq(Seq(T))
                BY <3>2 DEF T
            <4> QED BY <3>2, <4>1
        <3> QED BY <3>1, <3>3, FlattenType DEF T
    <2>3. CASE ~(Levels(t, i, j) # {})
        <3>1. CutOne(t, g, i, j) = Chunks(i, j)
            BY <1>2, <2>3, CutWays
        <3> QED BY <2>1, <3>1, ChunksAre
    <2> QED BY <2>2, <2>3
<1> QED BY <1>1, <1>2

\* What a stretch is cut into depends on the shorter ones only.
LEMMA CutOneSame ==
    ASSUME NEW t \in Seq(Char), NEW g, NEW h,
           NEW i \in 1..Len(t), NEW j \in 1..Len(t),
           \A y \in Cuts(t) : y[1] <= y[2] /\ y[2] - y[1] < j - i => g[y] = h[y]
    PROVE  CutOne(t, g, i, j) = CutOne(t, h, i, j)
<1>1. CASE j - i + 1 <= CharBudget \/ Levels(t, i, j) = {}
    <2>1. CASE j - i + 1 <= CharBudget
        <3>1. CutOne(t, g, i, j) = <<Between(i, j)>>
            BY <2>1, CutWays
        <3>2. CutOne(t, h, i, j) = <<Between(i, j)>>
            BY <2>1, CutWays
        <3> QED BY <3>1, <3>2
    <2>2. CASE ~(j - i + 1 <= CharBudget)
        <3>1. CutOne(t, g, i, j) = Chunks(i, j)
            BY <1>1, <2>2, CutWays
        <3>2. CutOne(t, h, i, j) = Chunks(i, j)
            BY <1>1, <2>2, CutWays
        <3> QED BY <3>1, <3>2
    <2> QED BY <2>1, <2>2
<1>2. CASE ~(j - i + 1 <= CharBudget) /\ Levels(t, i, j) # {}
    <2> DEFINE parts == Parts(t, i, j, Min(Levels(t, i, j)))
    <2>1. j \in i..Len(t)
        BY <1>2, Budgets
    <2>2. PICK m, a, b :
              /\ Divides(t, i, j, parts, m, a, b)
              /\ \A f : CutParts(f, parts) = [q \in 1..m |-> f[<<a[q], b[q]>>]]
              /\ \A q \in 1..m : <<a[q], b[q]>> \in Cuts(t)
        BY <1>2, <2>1, CutPartsAre
    <2>3. CutOne(t, g, i, j) = FlattenSeq(CutParts(g, parts))
        BY <1>2, CutWays
    <2>4. CutOne(t, h, i, j) = FlattenSeq(CutParts(h, parts))
        BY <1>2, CutWays
    <2> HIDE DEF parts
    <2>5. ASSUME NEW q \in 1..m PROVE g[<<a[q], b[q]>>] = h[<<a[q], b[q]>>]
        <3> DEFINE y == <<a[q], b[q]>>
        <3>1. y \in Cuts(t) /\ y[1] <= y[2] /\ y[2] - y[1] < j - i
            BY <2>2 DEF Divides
        <3> HIDE DEF y
        <3>2. g[y] = h[y]
            BY <3>1
        <3> QED BY <3>2 DEF y
    <2>6. CutParts(g, parts) = [q \in 1..m |-> g[<<a[q], b[q]>>]]
        BY <2>2
    <2>7. CutParts(h, parts) = [q \in 1..m |-> h[<<a[q], b[q]>>]]
        BY <2>2
    <2>8. CutParts(g, parts) = CutParts(h, parts)
        BY <2>5, <2>6, <2>7
    <2> QED BY <2>3, <2>4, <2>8
<1> QED BY <1>1, <1>2

\* c cuts i..j into stretches and leaves out blanks at its start at most.
GoodCut(t, c, i, j) ==
    /\ c \in Seq(Stretches(t)) /\ c \in Seq(Seq(1..Len(t)))
    /\ \E k \in i..j : /\ FlattenSeq(c) = Between(k, j)
                       /\ \A p \in i..j : p < k => t[p] \in Blanks

\* A stretch is cut well if shorter ones are.
LEMMA CutOneGood ==
    ASSUME NEW t \in Seq(Char), NEW g,
           NEW i \in 1..Len(t), NEW j \in i..Len(t),
           \A y \in Cuts(t) : y[1] <= y[2] /\ y[2] - y[1] < j - i => GoodCut(t, g[y], y[1], y[2])
    PROVE  GoodCut(t, CutOne(t, g, i, j), i, j)
<1> DEFINE T == 1..Len(t)
           Whole(c) == /\ c \in Seq(Stretches(t)) /\ c \in Seq(Seq(T))
                       /\ FlattenSeq(c) = Between(i, j)
<1>1. ASSUME NEW c, Whole(c) PROVE GoodCut(t, c, i, j)
    <2>1. i \in i..j /\ \A p \in i..j : ~(p < i)
        OBVIOUS
    <2> QED BY <1>1, <2>1 DEF GoodCut
<1>2. CASE j - i + 1 <= CharBudget
    <2> DEFINE s == Between(i, j)
    <2>1. CutOne(t, g, i, j) = <<s>>
        BY <1>2, CutWays
    <2>2. s \in Stretches(t) /\ s \in Seq(T)
        BY StretchEnds
    <2> HIDE DEF s, T
    <2>3. <<s>> \in Seq(Stretches(t)) /\ <<s>> \in Seq(Seq(T))
        BY <2>2
    <2>4. FlattenSeq(<<s>>) = s
        BY <2>2, FlattenOne
    <2>5. Whole(<<s>>)
        BY <2>3, <2>4 DEF s
    <2> HIDE DEF Whole
    <2> QED BY <1>1, <2>1, <2>5
<1>3. CASE ~(j - i + 1 <= CharBudget) /\ Levels(t, i, j) = {}
    <2>1. CutOne(t, g, i, j) = Chunks(i, j)
        BY <1>3, CutWays
    <2>2. Whole(Chunks(i, j))
        BY ChunksAre
    <2> HIDE DEF Whole
    <2> QED BY <1>1, <2>1, <2>2
<1>4. CASE ~(j - i + 1 <= CharBudget) /\ Levels(t, i, j) # {}
    <2> DEFINE parts == Parts(t, i, j, Min(Levels(t, i, j)))
    <2>1. PICK m, a, b :
              /\ Divides(t, i, j, parts, m, a, b)
              /\ \A f : CutParts(f, parts) = [q \in 1..m |-> f[<<a[q], b[q]>>]]
              /\ \A q \in 1..m : <<a[q], b[q]>> \in Cuts(t)
        BY <1>4, CutPartsAre
    <2>2. CutOne(t, g, i, j) = FlattenSeq(CutParts(g, parts))
        BY <1>4, CutWays
    <2> HIDE DEF parts
    <2> DEFINE x(q) == g[<<a[q], b[q]>>]
               xs == [q \in 1..m |-> x(q)]
               From(q, k) == /\ k \in a[q]..b[q] /\ FlattenSeq(x(q)) = Between(k, b[q])
                             /\ \A p \in a[q]..b[q] : p < k => t[p] \in Blanks
               ks == [q \in 1..m |-> CHOOSE k \in a[q]..b[q] : From(q, k)]
               ys == [q \in 1..m |-> Between(ks[q], b[q])]
    <2>3. CutParts(g, parts) = xs
        BY <2>1
    <2>4. /\ m \in Nat /\ m > 1
          /\ a \in [1..m -> i..j] /\ b \in [1..m -> i..j]
          /\ \A q \in 1..m : a[q] \in i..j /\ b[q] \in i..j /\ a[q] <= b[q] /\ b[q] - a[q] < j - i
          /\ \A q \in 1..(m - 1) : a[q + 1] = b[q] + 1
          /\ b[m] = j
          /\ \A q \in 2..m : t[a[q]] \notin Blanks
          /\ \A p \in i..j : p < a[1] => t[p] \in Blanks
        BY <2>1 DEF Divides, Chain
    <2>5. ASSUME NEW q \in 1..m
          PROVE  /\ x(q) \in Seq(Stretches(t)) /\ x(q) \in Seq(Seq(T)) /\ From(q, ks[q])
        <3> DEFINE y == <<a[q], b[q]>>
        <3>1. y \in Cuts(t) /\ y[1] <= y[2] /\ y[2] - y[1] < j - i
            BY <2>1, <2>4
        <3>2. y[1] = a[q] /\ y[2] = b[q]
            OBVIOUS
        <3> HIDE DEF y
        <3>3. GoodCut(t, g[y], y[1], y[2])
            BY <3>1
        <3>4. GoodCut(t, x(q), a[q], b[q])
            BY <3>2, <3>3 DEF y
        <3> HIDE DEF x
        <3>5. \E k \in a[q]..b[q] : From(q, k)
            BY <3>4 DEF GoodCut
        <3> HIDE DEF From
        <3>6. From(q, ks[q])
            BY <3>5
        <3> QED BY <3>4, <3>6 DEF GoodCut
    <2> HIDE DEF x
    <2>6. ASSUME NEW q \in 1..m
          PROVE  /\ ks[q] \in Int /\ a[q] <= ks[q] /\ ks[q] <= b[q] /\ FlattenSeq(x(q)) = Between(ks[q], b[q])
                 /\ \A p \in a[q]..b[q] : p < ks[q] => t[p] \in Blanks
        <3> HIDE DEF ks
        <3>1. From(q, ks[q]) /\ a[q] \in Int /\ b[q] \in Int
            BY <2>4, <2>5
        <3> QED BY <3>1
    <2>7. ASSUME NEW q \in 2..m PROVE ks[q] = a[q]
        <3> HIDE DEF ks
        <3>1. q \in 1..m /\ a[q] \in Int /\ b[q] \in Int /\ a[q] <= b[q] /\ t[a[q]] \notin Blanks
            BY <2>4
        <3>2. ~(a[q] < ks[q])
            <4>1. a[q] \in a[q]..b[q]
                BY <3>1
            <4> QED BY <2>6, <3>1, <4>1
        <3>3. ks[q] \in Int /\ a[q] <= ks[q]
            BY <2>6, <3>1
        <3> QED BY <3>1, <3>2, <3>3
    <2> HIDE DEF From
    <2>8. ks \in [1..m -> Int] /\ b \in [1..m -> Int]
        <3>1. \A q \in 1..m : ks[q] \in Int
            BY <2>6
        <3>2. ks = [q \in 1..m |-> ks[q]]
            OBVIOUS
        <3> HIDE DEF ks
        <3>3. i..j \subseteq Int
            OBVIOUS
        <3> QED BY <2>4, <3>1, <3>2, <3>3
    <2> HIDE DEF ks, T
    <2>9. \A q \in 1..m : ks[q] <= b[q]
        BY <2>6
    <2>10. \A q \in 1..(m - 1) : ks[q + 1] = b[q] + 1
        <3> SUFFICES ASSUME NEW q \in 1..(m - 1) PROVE ks[q + 1] = b[q] + 1
            OBVIOUS
        <3>1. q + 1 \in 2..m
            BY <2>4
        <3> QED BY <2>4, <2>7, <3>1
    <2>11. FlattenSeq(ys) = Between(ks[1], j)
        <3>1. m # 0
            BY <2>4
        <3>2. FlattenSeq(ys) = Between(ks[1], b[m])
            BY <2>4, <2>8, <2>9, <2>10, <3>1, ChainFlat
        <3> QED BY <2>4, <3>2
    <2>12. /\ xs \in Seq(Seq(Stretches(t))) /\ xs \in Seq(Seq(Seq(T))) /\ Len(xs) = m
        <3>1. xs \in [1..m -> Seq(Stretches(t))] /\ xs \in [1..m -> Seq(Seq(T))]
            BY <2>5
        <3>2. m \in Nat
            BY <2>4
        <3> HIDE DEF xs
        <3>3. Len(xs) = m
            BY <3>1, <3>2
        <3>4. xs \in Seq(Seq(Stretches(t)))
            BY <3>1, <3>2
        <3>5. xs \in Seq(Seq(Seq(T)))
            BY <3>1, <3>2
        <3> QED BY <3>3, <3>4, <3>5
    <2>13. ys \in Seq(Seq(T)) /\ Len(ys) = m
        <3>1. ASSUME NEW q \in 1..m PROVE Between(ks[q], b[q]) \in Seq(T)
            <4>1. FlattenSeq(x(q)) = Between(ks[q], b[q]) /\ x(q) \in Seq(Seq(T))
                BY <2>5, <2>6
            <4> QED BY <4>1, FlattenType
        <3>2. ys \in [1..m -> Seq(T)]
            BY <3>1
        <3> QED BY <2>4, <3>2
    <2>14. \A q \in 1..Len(xs) : FlattenSeq(xs[q]) = ys[q]
        BY <2>6, <2>12
    <2> DEFINE c == FlattenSeq(xs)
    <2> HIDE DEF xs, ys
    <2>15. c \in Seq(Seq(T)) /\ FlattenSeq(c) = FlattenSeq(ys)
        BY <2>12, <2>13, <2>14, FlattenParts
    <2>16. c \in Seq(Stretches(t))
        BY <2>12, FlattenType
    <2>17. ks[1] \in i..j /\ \A p \in i..j : p < ks[1] => t[p] \in Blanks
        <3>1. 1 \in 1..m
            BY <2>4
        <3>2. a[1] \in i..j /\ b[1] \in i..j
            BY <2>4, <3>1
        <3>3. ks[1] \in Int /\ a[1] <= ks[1] /\ ks[1] <= b[1]
              /\ \A p \in a[1]..b[1] : p < ks[1] => t[p] \in Blanks
            BY <2>6, <3>1
        <3>4. ASSUME NEW p \in i..j, p < ks[1] PROVE t[p] \in Blanks
            <4>1. CASE p < a[1]
                BY <2>4, <4>1
            <4>2. CASE ~(p < a[1])
                <5>1. p \in a[1]..b[1]
                    BY <3>2, <3>3, <3>4, <4>2
                <5> QED BY <3>3, <3>4, <5>1
            <4> QED BY <4>1, <4>2
        <3>5. ks[1] \in i..j
            BY <3>2, <3>3
        <3> QED BY <3>4, <3>5
    <2> HIDE DEF c
    <2>18. FlattenSeq(c) = Between(ks[1], j)
        BY <2>11, <2>15
    <2>19. GoodCut(t, c, i, j)
        BY <2>15, <2>16, <2>17, <2>18 DEF GoodCut, T
    <2> QED BY <2>2, <2>3, <2>19 DEF c
<1> QED BY <1>2, <1>3, <1>4

\* The definition inside HeadingPieces.
CutFold(t, f) == f = [x \in (DOMAIN t) \X (DOMAIN t) |-> CutOne(t, f, x[1], x[2])]

\* The pieces of a text are stretches, one after the other, and leave nothing
\* out but blanks at its start.
LEMMA HeadingPiecesGood ==
    ASSUME NEW t \in Seq(Char), t # <<>>
    PROVE  GoodCut(t, HeadingPieces(t), 1, Len(t))
<1> DEFINE S == Cuts(t)
           V == Seq(Seq(1..Len(t)))
           op == [x \in S \X [S -> V] |-> CutOne(t, x[2], x[1][1], x[1][2])]
           m == [x \in S |-> IF x[1] <= x[2] THEN x[2] - x[1] ELSE 0]
           K == Len(t)
           it == CHOOSE f : CutFold(t, f)
<1>1. HeadingPieces(t) = it[<<1, Len(t)>>]
    BY DEF HeadingPieces, it, CutFold
<1>2. K \in Nat /\ K # 0 /\ \A x \in S : x[1] \in 1..K /\ x[2] \in 1..K /\ x = <<x[1], x[2]>>
    BY DEF Cuts
<1> HIDE DEF it, K, S
<1>3. op \in [S \X [S -> V] -> V]
    <2>1. ASSUME NEW x \in S \X [S -> V] PROVE CutOne(t, x[2], x[1][1], x[1][2]) \in V
        <3>1. x[1] \in S /\ x[2] \in [S -> V]
            OBVIOUS
        <3>2. x[1][1] \in 1..Len(t) /\ x[1][2] \in 1..Len(t)
            BY <1>2, <3>1 DEF K
        <3> QED BY <3>1, <3>2, CutOneType DEF S
    <2> HIDE DEF V
    <2> QED BY <2>1
<1>4. m \in [S -> 0..K]
    <2>1. ASSUME NEW x \in S PROVE (IF x[1] <= x[2] THEN x[2] - x[1] ELSE 0) \in 0..K
        BY <1>2
    <2> QED BY <2>1
<1> HIDE DEF V
<1>5. Descends(op, S, V, m, K)
    <2>1. ASSUME NEW x \in S, NEW g \in [S -> V], NEW h \in [S -> V],
                 \A y \in S : m[y] < m[x] => g[y] = h[y]
          PROVE  op[<<x, g>>] = op[<<x, h>>]
        <3> DEFINE i == x[1]
                   j == x[2]
        <3>1. op[<<x, g>>] = CutOne(t, g, i, j) /\ op[<<x, h>>] = CutOne(t, h, i, j)
            OBVIOUS
        <3>2. i \in 1..Len(t) /\ j \in 1..Len(t)
            BY <1>2 DEF K
        <3>3. ASSUME NEW y \in Cuts(t), y[1] <= y[2], y[2] - y[1] < j - i PROVE g[y] = h[y]
            <4>1. y \in S /\ m[y] = y[2] - y[1] /\ y[1] \in Int /\ y[2] \in Int
                BY <1>2, <3>3 DEF S
            <4>2. i <= j
                BY <3>2, <3>3, <4>1
            <4>3. m[x] = j - i
                BY <4>2
            <4> HIDE DEF m
            <4>4. m[y] < m[x]
                BY <3>3, <4>1, <4>3
            <4> QED BY <2>1, <4>1, <4>4
        <3> HIDE DEF i, j
        <3>4. CutOne(t, g, i, j) = CutOne(t, h, i, j)
            BY <3>2, <3>3, CutOneSame
        <3> QED BY <3>1, <3>4
    <2>2. V # {}
        <3>1. <<>> \in V
            BY DEF V
        <3> QED BY <3>1
    <2> HIDE DEF op, m
    <2> QED BY <1>2, <1>3, <1>4, <2>1, <2>2 DEF Descends
<1>6. \E f : CutFold(t, f)
    <2> HIDE DEF op, m
    <2>1. PICK f \in [S -> V] : \A x \in S : f[x] = op[<<x, f>>]
        BY <1>5, RecursionExists
    <2>2. ASSUME NEW x \in S PROVE f[x] = CutOne(t, f, x[1], x[2])
        <3>1. op[<<x, f>>] = CutOne(t, f, x[1], x[2])
            BY <2>1 DEF op
        <3> QED BY <2>1, <3>1
    <2>3. f = [x \in S |-> f[x]]
        BY <2>1
    <2>4. f = [x \in S |-> CutOne(t, f, x[1], x[2])]
        BY <2>2, <2>3
    <2>5. CutFold(t, f)
        BY <2>4 DEF CutFold, S, Cuts
    <2> QED BY <2>5
<1>7. CutFold(t, it)
    BY <1>6 DEF it
<1>8. \A x \in S : it[x] = CutOne(t, it, x[1], x[2])
    BY <1>7 DEF CutFold, S, Cuts
<1> DEFINE P == {n \in Nat : \A x \in S : x[1] <= x[2] /\ x[2] - x[1] = n =>
                                              GoodCut(t, it[x], x[1], x[2])}
<1>9. ASSUME NEW n \in Nat, \A q \in Nat : q < n => q \in P PROVE n \in P
    <2> SUFFICES ASSUME NEW x \in S, x[1] <= x[2], x[2] - x[1] = n
                 PROVE  GoodCut(t, it[x], x[1], x[2])
        OBVIOUS
    <2> DEFINE i == x[1]
               j == x[2]
    <2>1. it[x] = CutOne(t, it, i, j) /\ i \in 1..Len(t) /\ j \in i..Len(t)
        <3>1. i \in 1..Len(t) /\ j \in 1..Len(t)
            BY <1>2 DEF K
        <3> QED BY <1>8, <3>1
    <2>2. ASSUME NEW y \in Cuts(t), y[1] <= y[2], y[2] - y[1] < j - i
          PROVE  GoodCut(t, it[y], y[1], y[2])
        <3> DEFINE q == y[2] - y[1]
        <3>1. y \in S /\ q \in Nat /\ q < n
            BY <1>2, <2>2 DEF S
        <3>2. q \in P
            BY <1>9, <3>1
        <3> QED BY <2>2, <3>1, <3>2
    <2> HIDE DEF i, j
    <2>3. GoodCut(t, CutOne(t, it, i, j), i, j)
        BY <2>1, <2>2, CutOneGood
    <2> QED BY <2>1, <2>3 DEF i, j
<1> HIDE DEF P
<1>10. Nat \subseteq P
    BY <1>9, LesserFirst
<1> DEFINE x == <<1, Len(t)>>
<1>11. x \in S /\ x[1] = 1 /\ x[2] = Len(t) /\ x[1] <= x[2] /\ x[2] - x[1] \in Nat
    BY <1>2 DEF K, S, Cuts
<1> HIDE DEF x
<1>12. GoodCut(t, it[x], x[1], x[2])
    BY <1>10, <1>11 DEF P
<1> QED BY <1>1, <1>11, <1>12 DEF x

\* What may be sent of a text.
Sendable(t) == {ps \in Seq(1..Len(t)) : Small(t, ps)}

\* A piece is sent as it is or in parts that may be sent.
LEMMA FittingKeeps ==
    ASSUME NEW t \in Seq(Char), NEW ps \in Stretches(t) \cup {<<>>}
    PROVE  /\ ps \in Seq(1..Len(t))
           /\ Fitting(t, ps) \in Seq(Sendable(t)) /\ Fitting(t, ps) \in Seq(Seq(1..Len(t)))
           /\ FlattenSeq(Fitting(t, ps)) = ps
<1> DEFINE T == 1..Len(t)
<1>1. ps = <<>> \/ \E i \in 1..Len(t) : \E j \in i..Len(t) : ps = Between(i, j)
    <2> SUFFICES ASSUME ps \in Stretches(t)
                 PROVE  \E i \in 1..Len(t) : \E j \in i..Len(t) : ps = Between(i, j)
        OBVIOUS
    <2>1. PICK x \in (DOMAIN t) \X (DOMAIN t) : x[1] <= x[2] /\ ps = Between(x[1], x[2])
        BY DEF Stretches
    <2>2. x[1] \in 1..Len(t) /\ x[2] \in x[1]..Len(t)
        BY <2>1
    <2> QED BY <2>1, <2>2
<1>2. ps \in Seq(T)
    <2>1. CASE ps = <<>>
        BY <2>1
    <2>2. ASSUME NEW i \in 1..Len(t), NEW j \in i..Len(t), ps = Between(i, j) PROVE ps \in Seq(T)
        BY <2>2, StretchEnds
    <2> QED BY <1>1, <2>1, <2>2
<1>3. CASE FitsTokens(t, ps)
    <2>1. Fitting(t, ps) = <<ps>>
        BY <1>3 DEF Fitting
    <2>2. ps \in Sendable(t)
        BY <1>2, <1>3 DEF Sendable, Small
    <2> HIDE DEF T
    <2>3. <<ps>> \in Seq(Sendable(t)) /\ <<ps>> \in Seq(Seq(T))
        BY <1>2, <2>2
    <2>4. FlattenSeq(<<ps>>) = ps
        BY <1>2, FlattenOne
    <2> QED BY <1>2, <2>1, <2>3, <2>4 DEF T
<1>4. CASE ~FitsTokens(t, ps)
    <2>1. ps # <<>>
        <3>1. <<>> \in Seq(1..Len(t))
            OBVIOUS
        <3>2. FitsTokens(t, <<>>)
            BY <3>1, FitsMore
        <3> QED BY <1>4, <3>2
    <2>2. PICK i \in 1..Len(t) : \E j \in i..Len(t) : ps = Between(i, j)
        BY <1>1, <2>1
    <2>7. PICK j \in i..Len(t) : ps = Between(i, j)
        BY <2>2
    <2>3. ps[1] = i /\ Last(ps) = j
        BY <2>7, StretchEnds
    <2> DEFINE hs == HardSplit(t, i, j)
    <2>4. Fitting(t, ps) = hs
        BY <1>4, <2>3 DEF Fitting
    <2>5. hs \in Seq(Seq(T)) /\ FlattenSeq(hs) = ps /\ \A n \in 1..Len(hs) : Small(t, hs[n])
        BY <2>7, HardSplitKeeps
    <2> HIDE DEF hs, T
    <2>6. hs \in Seq(Sendable(t))
        <3>1. \A n \in 1..Len(hs) : hs[n] \in Seq(T)
            BY <2>5
        <3>2. \A n \in 1..Len(hs) : hs[n] \in Sendable(t)
            BY <2>5, <3>1 DEF Sendable, T
        <3>3. Len(hs) \in Nat /\ hs = [n \in 1..Len(hs) |-> hs[n]]
            BY <2>5
        <3> QED BY <3>2, <3>3
    <2> QED BY <1>2, <2>4, <2>5, <2>6 DEF T
<1> QED BY <1>3, <1>4

\* The sections are the text, from its first character that is not blank on
\* at the latest, and are packed.
LEMMA SplitKeeps ==
    ASSUME NEW t \in Seq(Char)
    PROVE  /\ Split(t) \in Seq(Seq(1..Len(t))) /\ Packed(t, Split(t))
           /\ \E k \in 1..(Len(t) + 1) :
                 /\ FlattenSeq(Split(t)) = Between(k, Len(t))
                 /\ \A p \in 1..Len(t) : p < k => t[p] \in Blanks
<1> DEFINE T == 1..Len(t)
           pieces == HeadingPieces(t)
           From(k) == /\ FlattenSeq(pieces) = Between(k, Len(t))
                      /\ \A p \in 1..Len(t) : p < k => t[p] \in Blanks
<1>1. /\ pieces \in Seq(Stretches(t) \cup {<<>>})
      /\ \E k \in 1..(Len(t) + 1) : From(k)
    <2>1. CASE t = <<>>
        <3>1. pieces = <<<<>>>>
            BY <2>1 DEF HeadingPieces
        <3>2. FlattenSeq(<<<<>>>>) = <<>>
            <4>1. <<>> \in Seq(T)
                OBVIOUS
            <4> QED BY <4>1, FlattenOne
        <3>3. Len(t) = 0
            BY <2>1
        <3>4. Between(1, 0) = <<>>
            BY DEF Between
        <3>5. From(1)
            BY <3>1, <3>2, <3>3, <3>4
        <3>6. <<<<>>>> \in Seq(Stretches(t) \cup {<<>>})
            OBVIOUS
        <3>7. 1 \in 1..(Len(t) + 1)
            BY <3>3
        <3> QED BY <3>1, <3>5, <3>6, <3>7
    <2>2. CASE t # <<>>
        <3>1. GoodCut(t, pieces, 1, Len(t))
            BY <2>2, HeadingPiecesGood
        <3> HIDE DEF pieces
        <3>2. pieces \in Seq(Stretches(t)) /\ \E k \in 1..Len(t) : From(k)
            BY <3>1 DEF GoodCut
        <3>3. pieces \in Seq(Stretches(t) \cup {<<>>})
            <4>1. Stretches(t) \subseteq Stretches(t) \cup {<<>>}
                OBVIOUS
            <4> QED BY <3>2, <4>1, SeqMonotonic
        <3>4. \A k \in 1..Len(t) : k \in 1..(Len(t) + 1)
            OBVIOUS
        <3> QED BY <3>2, <3>3, <3>4
    <2> QED BY <2>1, <2>2
<1> DEFINE n == Len(pieces)
           xs == [q \in DOMAIN pieces |-> Fitting(t, pieces[q])]
<1>2. Split(t) = Pack(t, FlattenSeq(xs))
    BY DEF Split
<1> HIDE DEF pieces
<1>3. n \in Nat /\ DOMAIN pieces = 1..n /\ \A q \in 1..n : pieces[q] \in Stretches(t) \cup {<<>>}
    BY <1>1
<1>4. \A q \in 1..n : /\ pieces[q] \in Seq(T)
                      /\ Fitting(t, pieces[q]) \in Seq(Sendable(t))
                      /\ Fitting(t, pieces[q]) \in Seq(Seq(T))
                      /\ FlattenSeq(Fitting(t, pieces[q])) = pieces[q]
    BY <1>3, FittingKeeps
<1>5. pieces \in Seq(Seq(T))
    <2>1. pieces = [q \in 1..n |-> pieces[q]]
        BY <1>1
    <2> HIDE DEF n, T
    <2> QED BY <1>3, <1>4, <2>1
<1> HIDE DEF n, T
<1>6. /\ xs \in Seq(Seq(Sendable(t))) /\ xs \in Seq(Seq(Seq(T))) /\ Len(xs) = n
      /\ \A q \in 1..n : FlattenSeq(xs[q]) = pieces[q]
    <2>1. xs \in [1..n -> Seq(Sendable(t))] /\ xs \in [1..n -> Seq(Seq(T))]
          /\ \A q \in 1..n : xs[q] = Fitting(t, pieces[q])
        BY <1>3, <1>4
    <2> HIDE DEF xs
    <2>2. Len(xs) = n
        BY <1>3, <2>1
    <2>3. xs \in Seq(Seq(Sendable(t)))
        BY <1>3, <2>1
    <2>4. xs \in Seq(Seq(Seq(T)))
        BY <1>3, <2>1
    <2> QED BY <1>4, <2>1, <2>2, <2>3, <2>4
<1> HIDE DEF xs
<1> DEFINE fit == FlattenSeq(xs)
<1>7. fit \in Seq(Sendable(t))
    BY <1>6, FlattenType
<1>8. fit \in Seq(Seq(T)) /\ FlattenSeq(fit) = FlattenSeq(pieces)
    BY <1>5, <1>6, FlattenParts DEF n
<1> HIDE DEF fit
<1>9. \A q \in 1..Len(fit) : Small(t, fit[q])
    <2>1. \A q \in 1..Len(fit) : fit[q] \in Sendable(t)
        BY <1>7
    <2> QED BY <2>1 DEF Sendable
<1>10. /\ Pack(t, fit) \in Seq(Seq(1..Len(t)))
       /\ FlattenSeq(Pack(t, fit)) = FlattenSeq(fit)
       /\ Packed(t, Pack(t, fit))
    BY <1>8, <1>9, PackKeeps DEF T
<1>11. PICK k \in 1..(Len(t) + 1) : From(k)
    BY <1>1
<1> QED BY <1>2, <1>8, <1>10, <1>11 DEF fit

\* The sections are those of the text.
SectionsInv == stage \in {"sections", "quoted", "snapped"} => sections = Split(text)

\* Sections are planned from the text, and neither changes afterwards.
LEMMA SectionsNext == SectionsInv /\ [Next]_vars => SectionsInv'
<1> SUFFICES ASSUME SectionsInv, [Next]_vars PROVE SectionsInv'
    OBVIOUS
<1>1. CASE Convert
    BY <1>1 DEF Convert, SectionsInv
<1>2. CASE PlanSections
    BY <1>2 DEF PlanSections, SectionsInv
<1>3. CASE Reply
    BY <1>3 DEF Reply, SectionsInv
<1>4. CASE Snap
    BY <1>4 DEF Snap, SectionsInv
<1>5. CASE UNCHANGED vars
    BY <1>5 DEF vars, SectionsInv
<1> QED BY <1>1, <1>2, <1>3, <1>4, <1>5 DEF Next

\* The sections of a text hold it and fit.
LEMMA SectionsRight == TextTyped /\ SectionsInv => SectionsHoldTheText /\ SectionsFit
<1> SUFFICES ASSUME TextTyped, SectionsInv, Planned PROVE SectionsHoldTheText /\ SectionsFit
    BY DEF SectionsHoldTheText, SectionsFit
<1> DEFINE all == FlattenSeq(sections)
           n == Len(text)
<1>1. text \in Seq(Char) /\ sections = Split(text)
    BY DEF TextTyped, SectionsInv, Planned
<1>2. n \in Nat /\ DOMAIN text = 1..n
    BY <1>1
<1>3. /\ sections \in Seq(Seq(1..n)) /\ Packed(text, sections)
      /\ \E k \in 1..(n + 1) : all = Between(k, n) /\ \A p \in 1..n : p < k => text[p] \in Blanks
    BY <1>1, SplitKeeps
<1>4. PICK k \in 1..(n + 1) : all = Between(k, n) /\ \A p \in 1..n : p < k => text[p] \in Blanks
    BY <1>3
<1> HIDE DEF all, n
<1>5. Len(all) = n - k + 1 /\ DOMAIN all = 1..(n - k + 1) /\ \A q \in 1..(n - k + 1) : all[q] = k + q - 1
    <2>1. k \in Int /\ n \in Int /\ k <= n + 1 /\ k..n \subseteq Int
        BY <1>2
    <2>2. /\ Between(k, n) \in Seq(Int) /\ Len(Between(k, n)) = n - k + 1
          /\ \A q \in 1..(n - k + 1) : Between(k, n)[q] = k + q - 1
        BY <2>1, BetweenType
    <2> QED BY <1>4, <2>2
<1>6. ASSUME NEW q \in 1..(Len(all) - 1) PROVE all[q] < all[q + 1]
    <2>1. q \in 1..(n - k + 1) /\ q + 1 \in 1..(n - k + 1)
        BY <1>2, <1>5
    <2>2. all[q] = k + q - 1 /\ all[q + 1] = k + (q + 1) - 1
        BY <1>5, <2>1
    <2> QED BY <1>2, <2>2
<1>7. ASSUME NEW p \in (DOMAIN text) \ Range(all) PROVE text[p] \in Blanks
    <2>1. p \in 1..n
        BY <1>2
    <2>2. CASE p < k
        BY <1>4, <2>1, <2>2
    <2>3. CASE ~(p < k)
        <3>1. p - k + 1 \in 1..(n - k + 1) /\ k + (p - k + 1) - 1 = p
            BY <1>2, <2>1, <2>3
        <3>2. p - k + 1 \in DOMAIN all /\ all[p - k + 1] = p
            BY <1>5, <3>1
        <3>3. p \in Range(all)
            BY <3>2 DEF Range
        <3> QED BY <3>3
    <2> QED BY <2>2, <2>3
<1>8. SectionsHoldTheText
    BY <1>6, <1>7 DEF SectionsHoldTheText, all
<1>9. SectionsFit
    <2>1. DOMAIN sections = 1..Len(sections)
        BY <1>3
    <2> QED BY <1>3, <2>1 DEF SectionsFit, Packed, Small
<1> QED BY <1>8, <1>9

\* However a text is cut at its headings, halved where it is dense and packed
\* again, its sections hold all of it, in its order, but blanks.
THEOREM TextIsKept == Spec => []SectionsHoldTheText
<1>1. Init => SectionsInv
    BY DEF Init, SectionsInv
<1> QED BY TextTypedInit, TextTypedNext, SectionsNext, SectionsRight, <1>1, PTL DEF Spec

\* Every section fits its call, but for single characters that do not, and no
\* two neighbours could have been sent together.
THEOREM SectionsArePacked == Spec => []SectionsFit
<1>1. Init => SectionsInv
    BY DEF Init, SectionsInv
<1> QED BY TextTypedInit, TextTypedNext, SectionsNext, SectionsRight, <1>1, PTL DEF Spec

----------------------------------------------------------------------------
(* Folding.                                                                *)

\* What does not vanish, and of that what is no blank.
Left(t) == DOMAIN t \ Vanishing(t)
Solid(t) == {i \in Left(t) : t[i] \notin Blanks}

\* A blank that stands right after something solid, and before something solid.
GapAt(t, i) ==
    /\ \E s \in Solid(t) : s < i /\ \A j \in Left(t) : s < j /\ j < i => FALSE
    /\ \E s \in Solid(t) : i < s

\* What the character at i is folded to.
OfAt(t, i) ==
    IF i \in Solid(t)
    THEN [k \in DOMAIN Expand[t[i]] |-> [char |-> Expand[t[i]][k], from |-> i]]
    ELSE IF i \in Left(t) /\ GapAt(t, i) THEN <<[char |-> " ", from |-> i]>>
    ELSE <<>>

Ofs(t) == [i \in DOMAIN t |-> OfAt(t, i)]

\* The characters texts are folded to.
Folds == {" "} \cup UNION {Range(Expand[c]) : c \in DOMAIN Expand}

Folding(t) == [char : Folds, from : DOMAIN t]

\* A folded text is put together of what its characters are folded to.
LEMMA FoldedIs ==
    ASSUME NEW t
    PROVE  Folded(t) = FlattenSeq(Ofs(t))
BY DEF Folded, Ofs, OfAt, GapAt, Solid, Left

\* A character is folded to what comes from it: at least one character where
\* it is solid, and a space at most where it is not.
LEMMA OfAtType ==
    ASSUME NEW t \in Seq(Symbols), NEW i \in 1..Len(t)
    PROVE  /\ OfAt(t, i) \in Seq(Folding(t))
           /\ \A k \in 1..Len(OfAt(t, i)) :
                 OfAt(t, i)[k].from = i /\ (OfAt(t, i)[k].char = " " <=> i \notin Solid(t))
           /\ i \in Solid(t) => Len(OfAt(t, i)) # 0
<1> DEFINE of == OfAt(t, i)
           c == t[i]
<1>1. DOMAIN t = 1..Len(t) /\ c \in Symbols
    OBVIOUS
<1>2. CASE i \in Solid(t)
    <2>1. c \in DOMAIN Expand /\ c \notin Blanks /\ Expand[c] # <<>>
        BY <1>1, <1>2 DEF Symbols, Solid, Left, Vanishing
    <2> DEFINE x == Expand[c]
    <2>2. x \in Seq(Range(x) \ {" "}) /\ Range(x) \subseteq Folds
        <3>1. x \in Seq(Range(x) \ {" "})
            BY <2>1, ProvenanceAssumption
        <3>2. Range(x) \subseteq Folds
            BY <2>1 DEF Folds
        <3> QED BY <3>1, <3>2
    <2>3. of = [k \in DOMAIN x |-> [char |-> x[k], from |-> i]]
        BY <1>2 DEF OfAt
    <2>10. x # <<>>
        BY <2>1
    <2> DEFINE R == Range(x) \ {" "}
    <2>11. x \in Seq(R) /\ R \subseteq Folds /\ " " \notin R
        BY <2>2
    <2>12. x \in Seq(R)
        BY <2>11
    <2> HIDE DEF x, of, R
    <2>4. DOMAIN x = 1..Len(x) /\ Len(x) \in Nat /\ Len(x) # 0 /\ \A k \in 1..Len(x) : x[k] \in R
        <3>1. DOMAIN x = 1..Len(x) /\ Len(x) \in Nat /\ \A k \in 1..Len(x) : x[k] \in R
            BY <2>12
        <3>2. Len(x) # 0
            BY <2>10, <2>12
        <3> QED BY <3>1, <3>2
    <2>5. \A k \in 1..Len(x) : of[k] \in Folding(t) /\ of[k].from = i /\ of[k].char # " "
        <3> SUFFICES ASSUME NEW k \in 1..Len(x)
                     PROVE  of[k] \in Folding(t) /\ of[k].from = i /\ of[k].char # " "
            OBVIOUS
        <3>1. of[k] = [char |-> x[k], from |-> i] /\ x[k] \in Folds /\ x[k] # " "
            <4>1. k \in DOMAIN x /\ x[k] \in R
                BY <2>4
            <4> QED BY <2>3, <2>11, <4>1
        <3>2. i \in DOMAIN t
            BY <1>1
        <3> DEFINE y == x[k]
        <3> HIDE DEF y
        <3> DEFINE r == [char |-> y, from |-> i]
        <3>3. r \in Folding(t) /\ r.char = y /\ r.from = i
            BY <3>1, <3>2 DEF y, Folding
        <3>4. of[k] = r /\ y # " "
            BY <3>1 DEF y
        <3> HIDE DEF r
        <3> QED BY <3>3, <3>4
    <2>6. of \in [1..Len(x) -> Folding(t)]
        <3>1. of = [k \in 1..Len(x) |-> of[k]]
            BY <2>3, <2>4
        <3> QED BY <2>5, <3>1
    <2>7. of \in Seq(Folding(t)) /\ Len(of) = Len(x)
        <3> DEFINE F == Folding(t)
                   m == Len(x)
        <3>1. of \in [1..m -> F] /\ m \in Nat
            BY <2>4, <2>6
        <3> HIDE DEF F, m
        <3>2. of \in Seq(F) /\ Len(of) = m
            BY <3>1
        <3> QED BY <3>2 DEF F, m
    <2> QED BY <1>2, <2>4, <2>5, <2>7 DEF of
<1>3. CASE i \notin Solid(t) /\ i \in Left(t) /\ GapAt(t, i)
    <2> DEFINE g == [char |-> " ", from |-> i]
    <2>1. g \in Folding(t) /\ g.from = i /\ g.char = " "
        BY <1>1 DEF Folding, Folds
    <2>2. of = <<g>>
        BY <1>3 DEF OfAt
    <2> DEFINE F == Folding(t)
    <2>5. g \in F
        BY <2>1
    <2> HIDE DEF g, of, F
    <2>3. of \in Seq(F) /\ Len(of) = 1 /\ of[1] = g
        BY <2>5, <2>2
    <2>4. \A k \in 1..Len(of) : of[k] = g
        BY <2>3
    <2> QED BY <1>3, <2>1, <2>3, <2>4 DEF of, F
<1>4. CASE i \notin Solid(t) /\ ~(i \in Left(t) /\ GapAt(t, i))
    <2>1. of = <<>>
        BY <1>4 DEF OfAt
    <2> QED BY <1>4, <2>1
<1> QED BY <1>2, <1>3, <1>4

\* Where the characters of a folded text come from: N[i] of them from the
\* first i characters.
FoldedFrom(t, N) ==
    /\ Folded(t) \in Seq(Folding(t))
    /\ N \in [0..Len(t) -> Nat] /\ N[0] = 0 /\ Len(Folded(t)) = N[Len(t)]
    /\ \A i \in 1..Len(t) : N[i] = N[i - 1] + Len(OfAt(t, i))
    /\ \A i, j \in 0..Len(t) : i <= j => N[i] <= N[j]
    /\ \A i \in 1..Len(t) : \A k \in 1..Len(OfAt(t, i)) : Folded(t)[N[i - 1] + k] = OfAt(t, i)[k]
    /\ \A e \in 1..Len(Folded(t)) :
          Folded(t)[e].from \in 1..Len(t)
          /\ N[Folded(t)[e].from - 1] < e /\ e <= N[Folded(t)[e].from]

\* A folded text is in the order of the text.
LEMMA FoldedInOrder ==
    ASSUME NEW t \in Seq(Symbols)
    PROVE  \E N : FoldedFrom(t, N)
<1> DEFINE ss == Ofs(t)
           S == Folding(t)
<1>1. DOMAIN t = 1..Len(t) /\ Len(t) \in Nat
    OBVIOUS
<1>2. ss \in Seq(Seq(S)) /\ Len(ss) = Len(t) /\ \A i \in 1..Len(t) : ss[i] = OfAt(t, i)
    <2>1. ss = [i \in 1..Len(t) |-> OfAt(t, i)]
        BY <1>1 DEF Ofs
    <2>2. \A i \in 1..Len(t) : OfAt(t, i) \in Seq(S)
        BY OfAtType
    <2> HIDE DEF ss, S
    <2>3. ss \in [1..Len(t) -> Seq(S)]
        BY <2>1, <2>2
    <2>4. ss \in Seq(Seq(S)) /\ Len(ss) = Len(t)
        BY <1>1, <2>3
    <2> QED BY <2>1, <2>4
<1>3. Folded(t) = FlattenSeq(ss)
    BY FoldedIs
<1>4. Folded(t) \in Seq(S)
    BY <1>2, <1>3, FlattenType
<1> HIDE DEF ss
<1>5. PICK N : Located(ss, N)
    BY <1>2, FlattenAt
<1>6. ASSUME NEW e \in 1..Len(Folded(t))
      PROVE  /\ Folded(t)[e].from \in 1..Len(t)
             /\ N[Folded(t)[e].from - 1] < e /\ e <= N[Folded(t)[e].from]
    <2>1. PICK i \in 1..Len(t) : N[i - 1] < e /\ e <= N[i]
        BY <1>2, <1>3, <1>5 DEF Located
    <2> DEFINE k == e - N[i - 1]
    <2>2. N[i - 1] \in Nat /\ N[i] = N[i - 1] + Len(ss[i]) /\ Len(ss[i]) \in Nat
        <3>1. i - 1 \in 0..Len(ss) /\ i \in 1..Len(ss)
            BY <1>1, <1>2
        <3> QED BY <1>2, <1>5, <3>1 DEF Located
    <2>3. e \in Nat
        OBVIOUS
    <2>4. k \in 1..Len(ss[i]) /\ N[i - 1] + k = e
        BY <2>1, <2>2, <2>3
    <2>5. Folded(t)[e] = ss[i][k]
        BY <1>2, <1>3, <1>5, <2>4 DEF Located
    <2> HIDE DEF k
    <2>7. ss[i] = OfAt(t, i)
        BY <1>2
    <2>8. k \in 1..Len(OfAt(t, i))
        BY <2>4, <2>7
    <2>9. OfAt(t, i)[k].from = i
        BY <2>8, OfAtType
    <2>6. ss[i][k].from = i
        BY <2>7, <2>9
    <2> QED BY <2>1, <2>5, <2>6
<1>7. FoldedFrom(t, N)
    <2> DEFINE f == Folded(t)
               m == Len(t)
    <2>1. /\ N \in [0..m -> Nat] /\ N[0] = 0 /\ Len(f) = N[m]
          /\ \A i, j \in 0..m : i <= j => N[i] <= N[j]
        BY <1>2, <1>3, <1>5 DEF Located
    <2>2. \A i \in 1..m : N[i] = N[i - 1] + Len(OfAt(t, i))
        <3>1. \A i \in 1..m : N[i] = N[i - 1] + Len(ss[i])
            BY <1>2, <1>5 DEF Located
        <3> QED BY <1>2, <3>1
    <2>3. \A i \in 1..m : \A k \in 1..Len(OfAt(t, i)) : f[N[i - 1] + k] = OfAt(t, i)[k]
        <3>1. \A i \in 1..m : \A k \in 1..Len(ss[i]) : f[N[i - 1] + k] = ss[i][k]
            BY <1>2, <1>3, <1>5 DEF Located
        <3> QED BY <1>2, <3>1
    <2> QED BY <1>4, <1>6, <2>1, <2>2, <2>3 DEF FoldedFrom
<1> QED BY <1>7

\* z is where the first character after i that is no blank stands.
NextSolid(t, i, z) ==
    /\ z \in (i + 1)..Len(t) /\ t[z] \notin Blanks
    /\ \A j \in (i + 1)..(z - 1) : t[j] \in Blanks

\* A hyphen is joined to the next character that is no blank, or not at all.
LEMMA JoinedIs ==
    ASSUME NEW t \in Seq(Symbols), NEW i \in 1..Len(t)
    PROVE  /\ \/ \E z : NextSolid(t, i, z)
              \/ (\A j \in (i + 1)..Len(t) : t[j] \in Blanks) /\ JoinedTo(t, i) = i
           /\ \A z : NextSolid(t, i, z) =>
                 JoinedTo(t, i) =
                    IF t[i] = "-" /\ z > i + 1 /\ t[z] \in Letters THEN z ELSE i
<1> DEFINE solid == {j \in (i + 1)..Len(t) : t[j] \notin Blanks}
<1>1. solid \subseteq Nat /\ i \in Nat /\ Len(t) \in Nat
    OBVIOUS
<1>2. JoinedTo(t, i) =
         IF t[i] = "-" /\ solid # {} /\ Min(solid) > i + 1 /\ t[Min(solid)] \in Letters
         THEN Min(solid) ELSE i
    BY DEF JoinedTo
<1>3. CASE solid = {}
    <2>1. JoinedTo(t, i) = i
        BY <1>2, <1>3
    <2>2. \A j \in (i + 1)..Len(t) : t[j] \in Blanks
        BY <1>3
    <2>3. ~(\E z : NextSolid(t, i, z))
        BY <2>2 DEF NextSolid
    <2> QED BY <2>1, <2>2, <2>3
<1>4. CASE solid # {}
    <2> DEFINE m == Min(solid)
    <2>1. m \in solid /\ \A x \in solid : m <= x
        BY <1>1, <1>4, MinIn
    <2>2. JoinedTo(t, i) = IF t[i] = "-" /\ m > i + 1 /\ t[m] \in Letters THEN m ELSE i
        BY <1>2, <1>4
    <2> HIDE DEF m
    <2>3. m \in (i + 1)..Len(t) /\ t[m] \notin Blanks
        BY <2>1
    <2>4. ASSUME NEW j \in (i + 1)..(m - 1) PROVE t[j] \in Blanks
        <3>1. j \in (i + 1)..Len(t) /\ ~(m <= j)
            BY <1>1, <2>3
        <3> QED BY <2>1, <3>1
    <2>5. NextSolid(t, i, m)
        BY <2>3, <2>4 DEF NextSolid
    <2>6. ASSUME NEW z, NextSolid(t, i, z) PROVE z = m
        <3>1. z \in solid /\ z \in (i + 1)..Len(t) /\ \A j \in (i + 1)..(z - 1) : t[j] \in Blanks
            BY <2>6 DEF NextSolid
        <3>2. m <= z /\ ~(m \in (i + 1)..(z - 1))
            BY <2>1, <2>3, <3>1
        <3> QED BY <1>1, <2>3, <3>1, <3>2
    <2> QED BY <2>2, <2>5, <2>6
<1> QED BY <1>3, <1>4

\* What JoinedTo gives is not before the hyphen, and over blanks.
LEMMA JoinedOver ==
    ASSUME NEW t \in Seq(Symbols), NEW i \in 1..Len(t)
    PROVE  /\ JoinedTo(t, i) \in i..Len(t)
           /\ \A j \in (i + 1)..(JoinedTo(t, i) - 1) : t[j] \in Blanks
<1>1. i \in Nat /\ Len(t) \in Nat /\ i <= Len(t)
    OBVIOUS
<1>2. CASE JoinedTo(t, i) = i
    BY <1>1, <1>2
<1>3. CASE JoinedTo(t, i) # i
    <2>1. PICK z : NextSolid(t, i, z)
        BY <1>3, JoinedIs
    <2>2. JoinedTo(t, i) = z
        BY <1>3, <2>1, JoinedIs
    <2> QED BY <1>1, <2>1, <2>2 DEF NextSolid
<1> QED BY <1>2, <1>3

\* u is the part of t from p to q, and no hyphen of it is joined to what
\* follows it.
Part(t, u, p, q) ==
    /\ t \in Seq(Symbols) /\ p \in 1..Len(t) /\ q \in p..Len(t)
    /\ u = SubSeq(t, p, q)
    /\ \A h \in p..q : JoinedTo(t, h) <= q

\* The characters of a part are those of the text, from p on.
LEMMA PartIs ==
    ASSUME NEW t, NEW u, NEW p, NEW q, Part(t, u, p, q)
    PROVE  /\ t \in Seq(Symbols) /\ u \in Seq(Symbols)
           /\ p \in Nat /\ q \in Nat /\ Len(t) \in Nat /\ 1 <= p /\ p <= q /\ q <= Len(t)
           /\ Len(u) = q - p + 1 /\ DOMAIN u = 1..(q - p + 1) /\ DOMAIN t = 1..Len(t)
           /\ \A k \in 1..(q - p + 1) : u[k] = t[k + (p - 1)]
<1>1. t \in Seq(Symbols) /\ p \in 1..Len(t) /\ q \in 1..Len(t) /\ p <= q /\ u = SubSeq(t, p, q)
    BY DEF Part
<1>2. /\ u \in Seq(Symbols) /\ Len(u) = q - p + 1
      /\ \A k \in 1..(q - p + 1) : u[k] = t[p + k - 1]
    BY <1>1, PartType
<1>3. \A k \in 1..(q - p + 1) : p + k - 1 = k + (p - 1)
    BY <1>1
<1> QED BY <1>1, <1>2, <1>3

\* In a part, hyphens are joined as in the text.
LEMMA JoinedPart ==
    ASSUME NEW t, NEW u, NEW p, NEW q, Part(t, u, p, q), NEW i \in 1..Len(u)
    PROVE  JoinedTo(t, i + (p - 1)) = JoinedTo(u, i) + (p - 1)
<1> DEFINE o == p - 1
           h == i + o
<1>1. /\ t \in Seq(Symbols) /\ u \in Seq(Symbols)
      /\ p \in Nat /\ q \in Nat /\ Len(t) \in Nat /\ 1 <= p /\ p <= q /\ q <= Len(t)
      /\ Len(u) = q - p + 1 /\ DOMAIN u = 1..(q - p + 1) /\ DOMAIN t = 1..Len(t)
      /\ \A k \in 1..(q - p + 1) : u[k] = t[k + (p - 1)]
    BY PartIs
<1>2. o \in Nat /\ Len(u) \in Nat /\ Len(u) + o = q /\ o + 1 = p /\ i \in Nat /\ i <= Len(u) /\ 1 <= i
    BY <1>1
<1>3. \A k \in 1..Len(u) : u[k] = t[k + o]
    BY <1>1
<1>4. JoinedTo(t, h) <= q
    <2>1. h \in p..q
        BY <1>1, <1>2
    <2> QED BY <2>1 DEF Part
<1> HIDE DEF o
<1>5. h \in 1..Len(t) /\ h \in Nat
    BY <1>1, <1>2
<1>6. CASE \E z : NextSolid(u, i, z)
    <2>1. PICK z : NextSolid(u, i, z)
        BY <1>6
    <2>2. z \in (i + 1)..Len(u) /\ u[z] \notin Blanks /\ \A j \in (i + 1)..(z - 1) : u[j] \in Blanks
        BY <2>1 DEF NextSolid
    <2>3. z + o \in (h + 1)..Len(t) /\ t[z + o] = u[z]
        BY <1>1, <1>2, <1>3, <2>2
    <2> DEFINE y == z + o
    <2>4. ASSUME NEW j \in (h + 1)..(y - 1) PROVE t[j] \in Blanks
        <3>1. j - o \in (i + 1)..(z - 1) /\ j - o \in 1..Len(u) /\ (j - o) + o = j
            BY <1>2, <1>5, <2>2
        <3>2. u[j - o] \in Blanks
            BY <2>2, <3>1
        <3>3. u[j - o] = t[(j - o) + o]
            BY <1>3, <3>1
        <3> QED BY <3>1, <3>2, <3>3
    <2>5. NextSolid(t, h, y)
        <3>1. y \in (h + 1)..Len(t) /\ t[y] \notin Blanks /\ \A j \in (h + 1)..(y - 1) : t[j] \in Blanks
            <4>1. t[y] \notin Blanks
                BY <2>2, <2>3
            <4>2. y \in (h + 1)..Len(t)
                BY <2>3
            <4> HIDE DEF h, y
            <4> QED BY <2>4, <4>1, <4>2
        <3> HIDE DEF h, y
        <3> QED BY <3>1 DEF NextSolid
    <2>6. JoinedTo(t, h) = IF t[h] = "-" /\ y > h + 1 /\ t[y] \in Letters THEN y ELSE h
        BY <1>1, <1>5, <2>5, JoinedIs
    <2>7. JoinedTo(u, i) = IF u[i] = "-" /\ z > i + 1 /\ u[z] \in Letters THEN z ELSE i
        BY <1>1, <2>1, JoinedIs
    <2>8. (y > h + 1 <=> z > i + 1) /\ u[i] = t[h] /\ u[z] = t[y]
        BY <1>2, <1>3, <2>2, <2>3
    <2> QED BY <2>6, <2>7, <2>8 DEF o
<1>7. CASE ~(\E z : NextSolid(u, i, z))
    <2>1. (\A j \in (i + 1)..Len(u) : u[j] \in Blanks) /\ JoinedTo(u, i) = i
        BY <1>1, <1>7, JoinedIs
    <2>2. JoinedTo(t, h) = h
        <3> SUFFICES ASSUME JoinedTo(t, h) # h PROVE FALSE
            OBVIOUS
        <3>1. PICK z : NextSolid(t, h, z)
            BY <1>1, <1>5, JoinedIs
        <3>2. JoinedTo(t, h) = z
            BY <1>1, <1>5, <3>1, JoinedIs
        <3>3. z \in (h + 1)..Len(t) /\ t[z] \notin Blanks /\ z <= q
            BY <1>4, <3>1, <3>2 DEF NextSolid
        <3>4. z - o \in (i + 1)..Len(u) /\ z - o \in 1..Len(u) /\ (z - o) + o = z
            BY <1>2, <1>5, <3>3
        <3> QED BY <1>3, <2>1, <3>3, <3>4
    <2> QED BY <2>1, <2>2 DEF o
<1> QED BY <1>6, <1>7

\* What vanishes.
LEMMA VanishingIs ==
    ASSUME NEW t \in Seq(Symbols), NEW x \in 1..Len(t)
    PROVE  x \in Vanishing(t) <=>
              \/ t[x] \notin Blanks /\ Expand[t[x]] = <<>>
              \/ \E i \in 1..Len(t) : i <= x /\ x < JoinedTo(t, i)
<1>1. DOMAIN t = 1..Len(t) /\ Len(t) \in Nat
    OBVIOUS
<1>2. \A i \in 1..Len(t) : JoinedTo(t, i) \in Int
    <2>1. \A i \in 1..Len(t) : JoinedTo(t, i) \in i..Len(t)
        BY JoinedOver
    <2> QED BY <1>1, <2>1
<1>3. \A i \in 1..Len(t) : x \in i..(JoinedTo(t, i) - 1) <=> i <= x /\ x < JoinedTo(t, i)
    BY <1>1, <1>2
<1>4. x \in Vanishing(t) <=>
              \/ t[x] \notin Blanks /\ Expand[t[x]] = <<>>
              \/ \E i \in 1..Len(t) : x \in i..(JoinedTo(t, i) - 1)
    BY <1>1 DEF Vanishing
<1> QED BY <1>3, <1>4

\* From its first character that is no blank on, the same vanishes in a part
\* as in the text.
LEMMA VanishingPart ==
    ASSUME NEW t, NEW u, NEW p, NEW q, Part(t, u, p, q),
           NEW x \in 1..Len(u), NEW f \in 1..x, u[f] \notin Blanks
    PROVE  x \in Vanishing(u) <=> x + (p - 1) \in Vanishing(t)
<1> DEFINE o == p - 1
           y == x + o
<1>1. /\ t \in Seq(Symbols) /\ u \in Seq(Symbols)
      /\ p \in Nat /\ q \in Nat /\ Len(t) \in Nat /\ 1 <= p /\ p <= q /\ q <= Len(t)
      /\ Len(u) = q - p + 1 /\ DOMAIN u = 1..(q - p + 1) /\ DOMAIN t = 1..Len(t)
      /\ \A k \in 1..(q - p + 1) : u[k] = t[k + (p - 1)]
    BY PartIs
<1>2. o \in Nat /\ Len(u) \in Nat /\ Len(u) + o = q /\ o + 1 = p /\ x \in Nat /\ x <= Len(u) /\ 1 <= x
    BY <1>1
<1>3. \A k \in 1..Len(u) : u[k] = t[k + o] /\ JoinedTo(t, k + o) = JoinedTo(u, k) + o
    <2>1. \A k \in 1..Len(u) : u[k] = t[k + o]
        BY <1>1
    <2>2. ASSUME NEW k \in 1..Len(u) PROVE JoinedTo(t, k + (p - 1)) = JoinedTo(u, k) + (p - 1)
        BY JoinedPart
    <2> QED BY <2>1, <2>2
<1>4. \A k \in 1..Len(u) : JoinedTo(u, k) \in Int
    <2>1. \A k \in 1..Len(u) : JoinedTo(u, k) \in k..Len(u)
        BY <1>1, JoinedOver
    <2> QED BY <1>2, <2>1
<1> HIDE DEF o
<1>5. y \in 1..Len(t) /\ y \in Nat /\ u[x] = t[y]
    BY <1>1, <1>2, <1>3
<1>6. f \in Nat /\ 1 <= f /\ f <= x /\ f \in 1..Len(u) /\ f + o \in Nat /\ t[f + o] \notin Blanks
    BY <1>2, <1>3
<1>7. ASSUME NEW i \in 1..Len(t), i <= y, y < JoinedTo(t, i) PROVE i >= p
    <2> SUFFICES ASSUME i < p PROVE FALSE
        BY <1>1
    <2>1. JoinedTo(t, i) \in i..Len(t) /\ \A j \in (i + 1)..(JoinedTo(t, i) - 1) : t[j] \in Blanks
        BY <1>1, JoinedOver
    <2>2. f + o \in (i + 1)..(JoinedTo(t, i) - 1)
        BY <1>1, <1>2, <1>6, <1>7, <2>1
    <2> QED BY <1>6, <2>1, <2>2
<1>8. (\E i \in 1..Len(t) : i <= y /\ y < JoinedTo(t, i)) <=>
      (\E k \in 1..Len(u) : k <= x /\ x < JoinedTo(u, k))
    <2>1. ASSUME NEW i \in 1..Len(t), i <= y, y < JoinedTo(t, i)
          PROVE  \E k \in 1..Len(u) : k <= x /\ x < JoinedTo(u, k)
        <3> DEFINE k == i - o
        <3>1. k \in 1..Len(u) /\ k <= x /\ k + o = i
            BY <1>2, <1>7, <2>1
        <3> HIDE DEF k
        <3>2. JoinedTo(t, i) = JoinedTo(u, k) + o /\ JoinedTo(u, k) \in Int
            BY <1>3, <1>4, <3>1
        <3>3. x < JoinedTo(u, k)
            BY <1>2, <2>1, <3>2
        <3> QED BY <3>1, <3>3
    <2>2. ASSUME NEW k \in 1..Len(u), k <= x, x < JoinedTo(u, k)
          PROVE  \E i \in 1..Len(t) : i <= y /\ y < JoinedTo(t, i)
        <3> DEFINE i == k + o
        <3>1. i \in 1..Len(t) /\ i <= y
            BY <1>1, <1>2, <2>2
        <3>2. JoinedTo(t, i) = JoinedTo(u, k) + o /\ JoinedTo(u, k) \in Int
            BY <1>3, <1>4
        <3>3. y < JoinedTo(t, i)
            BY <1>2, <2>2, <3>2
        <3> QED BY <3>1, <3>3
    <2> QED BY <2>1, <2>2
<1>9. x \in Vanishing(u) <=>
              \/ u[x] \notin Blanks /\ Expand[u[x]] = <<>>
              \/ \E k \in 1..Len(u) : k <= x /\ x < JoinedTo(u, k)
    BY <1>1, VanishingIs
<1>10. y \in Vanishing(t) <=>
              \/ t[y] \notin Blanks /\ Expand[t[y]] = <<>>
              \/ \E i \in 1..Len(t) : i <= y /\ y < JoinedTo(t, i)
    BY <1>1, <1>5, VanishingIs
<1>11. x \in Vanishing(u) <=> y \in Vanishing(t)
    BY <1>5, <1>8, <1>9, <1>10
<1> QED BY <1>11 DEF o

\* A part's solid characters are those of the text, and so is what is left of
\* it from the first of them on.
LEMMA SolidPart ==
    ASSUME NEW t, NEW u, NEW p, NEW q, Part(t, u, p, q), NEW x \in 1..Len(u)
    PROVE  /\ x \in Solid(u) <=> x + (p - 1) \in Solid(t)
           /\ \A f \in Solid(u) : f <= x => (x \in Left(u) <=> x + (p - 1) \in Left(t))
<1> DEFINE y == x + (p - 1)
<1>1. /\ t \in Seq(Symbols) /\ u \in Seq(Symbols)
      /\ p \in Nat /\ q \in Nat /\ Len(t) \in Nat /\ 1 <= p /\ p <= q /\ q <= Len(t)
      /\ Len(u) = q - p + 1 /\ DOMAIN u = 1..(q - p + 1) /\ DOMAIN t = 1..Len(t)
      /\ \A k \in 1..(q - p + 1) : u[k] = t[k + (p - 1)]
    BY PartIs
<1>2. x \in DOMAIN u /\ y \in DOMAIN t /\ u[x] = t[y] /\ x \in Nat
    BY <1>1
<1>3. ASSUME NEW f \in 1..x, u[f] \notin Blanks PROVE x \in Left(u) <=> y \in Left(t)
    <2>1. x \in Vanishing(u) <=> x + (p - 1) \in Vanishing(t)
        BY <1>3, VanishingPart
    <2> QED BY <1>2, <2>1 DEF Left
<1> HIDE DEF y
<1>4. ASSUME NEW f \in Solid(u), f <= x PROVE x \in Left(u) <=> y \in Left(t)
    <2>1. f \in 1..Len(u) /\ u[f] \notin Blanks
        BY <1>1 DEF Solid, Left
    <2>2. f \in 1..x
        BY <1>1, <1>2, <1>4, <2>1
    <2> QED BY <1>3, <2>1, <2>2
<1>5. x \in Solid(u) <=> y \in Solid(t)
    <2>1. CASE u[x] \in Blanks
        BY <1>2, <2>1 DEF Solid
    <2>2. CASE u[x] \notin Blanks
        <3>1. x \in 1..x
            BY <1>2
        <3>2. x \in Left(u) <=> y \in Left(t)
            BY <1>3, <2>2, <3>1
        <3> QED BY <1>2, <2>2, <3>2 DEF Solid
    <2> QED BY <2>1, <2>2
<1> QED BY <1>4, <1>5 DEF y

\* Between two solid characters of a part, gaps are those of the text.
LEMMA GapPart ==
    ASSUME NEW t, NEW u, NEW p, NEW q, Part(t, u, p, q),
           NEW f \in Solid(u), NEW l \in Solid(u), NEW x \in 1..Len(u), f < x, x < l
    PROVE  GapAt(u, x) <=> GapAt(t, x + (p - 1))
<1> DEFINE o == p - 1
           y == x + o
<1>1. /\ t \in Seq(Symbols) /\ u \in Seq(Symbols)
      /\ p \in Nat /\ q \in Nat /\ Len(t) \in Nat /\ 1 <= p /\ p <= q /\ q <= Len(t)
      /\ Len(u) = q - p + 1 /\ DOMAIN u = 1..(q - p + 1) /\ DOMAIN t = 1..Len(t)
      /\ \A k \in 1..(q - p + 1) : u[k] = t[k + (p - 1)]
    BY PartIs
<1>2. /\ \A k \in 1..Len(u) : k \in Solid(u) <=> k + o \in Solid(t)
      /\ \A k \in 1..Len(u) : \A g \in Solid(u) : g <= k => (k \in Left(u) <=> k + o \in Left(t))
    <2>1. ASSUME NEW k \in 1..Len(u)
          PROVE  /\ k \in Solid(u) <=> k + (p - 1) \in Solid(t)
                 /\ \A g \in Solid(u) : g <= k => (k \in Left(u) <=> k + (p - 1) \in Left(t))
        BY SolidPart
    <2> QED BY <2>1
<1>3. o \in Nat /\ Len(u) \in Nat /\ Len(u) + o = q /\ x \in Nat
    BY <1>1
<1> HIDE DEF o
<1>4. /\ \A s \in Solid(u) : s \in 1..Len(u) /\ s \in Left(u) /\ s \in Nat
      /\ \A s \in Left(u) : s \in 1..Len(u) /\ s \in Nat
      /\ \A s \in Solid(t) : s \in 1..Len(t) /\ s \in Left(t) /\ s \in Nat
      /\ \A s \in Left(t) : s \in 1..Len(t) /\ s \in Nat
    BY <1>1 DEF Solid, Left
<1>5. /\ \A k \in 1..Len(u) : k + o \in Nat
      /\ \A s \in Solid(u) : s + o \in Solid(t)
      /\ f + o \in Left(t) /\ f + o < y
    BY <1>2, <1>3, <1>4
<1>6. (\E s \in Solid(u) : x < s) /\ (\E s \in Solid(t) : y < s)
    <2>1. l + o \in Solid(t) /\ y < l + o
        BY <1>3, <1>4, <1>5
    <2> QED BY <2>1
<1>7. ASSUME NEW s \in Solid(u), s < x, \A j \in Left(u) : s < j /\ j < x => FALSE
      PROVE  \E z \in Solid(t) : z < y /\ \A j \in Left(t) : z < j /\ j < y => FALSE
    <2> DEFINE z == s + o
    <2>1. z \in Solid(t) /\ z < y
        BY <1>3, <1>4, <1>5, <1>7
    <2>2. ASSUME NEW j \in Left(t), z < j, j < y PROVE FALSE
        <3> DEFINE k == j - o
        <3>1. k \in 1..Len(u) /\ k + o = j /\ s < k /\ k < x /\ s <= k
            BY <1>3, <1>4, <2>2
        <3> HIDE DEF k
        <3>2. k \in Left(u)
            BY <1>2, <3>1
        <3> QED BY <1>7, <3>1, <3>2
    <2> HIDE DEF z
    <2> QED BY <2>1, <2>2
<1>8. ASSUME NEW z \in Solid(t), z < y, \A j \in Left(t) : z < j /\ j < y => FALSE
      PROVE  \E s \in Solid(u) : s < x /\ \A j \in Left(u) : s < j /\ j < x => FALSE
    <2> DEFINE s == z - o
    <2>1. ~(z < f + o)
        BY <1>5, <1>8
    <2>2. s \in 1..Len(u) /\ s + o = z /\ s < x
        BY <1>3, <1>4, <1>8, <2>1
    <2> HIDE DEF s
    <2>3. s \in Solid(u)
        BY <1>2, <2>2
    <2>4. ASSUME NEW j \in Left(u), s < j, j < x PROVE FALSE
        <3>1. j \in 1..Len(u) /\ s <= j /\ z < j + o /\ j + o < y
            BY <1>3, <1>4, <2>2, <2>3, <2>4
        <3>2. j + o \in Left(t)
            BY <1>2, <2>3, <3>1
        <3> QED BY <1>8, <3>1, <3>2
    <2> QED BY <2>2, <2>3, <2>4
<1>9. GapAt(u, x) <=> GapAt(t, y)
    <2> HIDE DEF y
    <2> QED BY <1>6, <1>7, <1>8 DEF GapAt
<1> QED BY <1>9 DEF o

\* u and t fold to the same characters at x and y.
SameFold(t, y, u, x) ==
    /\ Len(OfAt(t, y)) = Len(OfAt(u, x))
    /\ \A k \in 1..Len(OfAt(u, x)) : OfAt(t, y)[k].char = OfAt(u, x)[k].char

\* Between two solid characters of a part, and at them, the part folds to what
\* the text folds to.
LEMMA OfAtPart ==
    ASSUME NEW t, NEW u, NEW p, NEW q, Part(t, u, p, q),
           NEW f \in Solid(u), NEW l \in Solid(u), NEW x \in 1..Len(u), f <= x, x <= l
    PROVE  SameFold(t, x + (p - 1), u, x)
<1> DEFINE y == x + (p - 1)
<1>1. /\ t \in Seq(Symbols) /\ u \in Seq(Symbols)
      /\ p \in Nat /\ q \in Nat /\ Len(t) \in Nat /\ 1 <= p /\ p <= q /\ q <= Len(t)
      /\ Len(u) = q - p + 1 /\ DOMAIN u = 1..(q - p + 1) /\ DOMAIN t = 1..Len(t)
      /\ \A k \in 1..(q - p + 1) : u[k] = t[k + (p - 1)]
    BY PartIs
<1>2. y \in 1..Len(t) /\ u[x] = t[y] /\ x \in Nat
    BY <1>1
<1>3. f \in Nat /\ l \in Nat
    BY <1>1 DEF Solid, Left
<1>4. (x \in Solid(u) <=> y \in Solid(t)) /\ (x \in Left(u) <=> y \in Left(t))
    BY SolidPart
<1> HIDE DEF y
<1>5. ASSUME x \in Solid(u) PROVE SameFold(t, y, u, x)
    <2> DEFINE e == Expand[u[x]]
    <2>1. OfAt(u, x) = [k \in DOMAIN e |-> [char |-> e[k], from |-> x]]
        BY <1>5 DEF OfAt
    <2>2. OfAt(t, y) = [k \in DOMAIN e |-> [char |-> e[k], from |-> y]]
        BY <1>2, <1>4, <1>5 DEF OfAt
    <2>3. OfAt(u, x) \in Seq(Folding(u)) /\ OfAt(t, y) \in Seq(Folding(t))
        BY <1>1, <1>2, OfAtType
    <2> DEFINE a == OfAt(u, x)
               b == OfAt(t, y)
    <2>4. DOMAIN a = 1..Len(a) /\ DOMAIN b = 1..Len(b) /\ Len(a) \in Nat /\ Len(b) \in Nat
        <3> DEFINE A == Folding(u)
                   B == Folding(t)
        <3>1. a \in Seq(A) /\ b \in Seq(B)
            BY <2>3
        <3> HIDE DEF a, b, A, B
        <3> QED BY <3>1
    <2>5. DOMAIN a = DOMAIN b /\ DOMAIN a = DOMAIN e
        BY <2>1, <2>2
    <2>6. \A k \in DOMAIN e : a[k].char = e[k] /\ b[k].char = e[k]
        BY <2>1, <2>2
    <2> HIDE DEF a, b, e
    <2>7. Len(b) = Len(a)
        <3>1. 1..Len(a) = 1..Len(b)
            BY <2>4, <2>5
        <3>2. Len(a) <= Len(b)
            <4>1. CASE Len(a) = 0
                BY <2>4, <4>1
            <4>2. CASE Len(a) # 0
                <5>1. Len(a) \in 1..Len(a)
                    BY <2>4, <4>2
                <5>2. Len(a) \in 1..Len(b)
                    BY <3>1, <5>1
                <5> QED BY <2>4, <5>2
            <4> QED BY <4>1, <4>2
        <3>3. Len(b) <= Len(a)
            <4>1. CASE Len(b) = 0
                BY <2>4, <4>1
            <4>2. CASE Len(b) # 0
                <5>1. Len(b) \in 1..Len(b)
                    BY <2>4, <4>2
                <5>2. Len(b) \in 1..Len(a)
                    BY <3>1, <5>1
                <5> QED BY <2>4, <5>2
            <4> QED BY <4>1, <4>2
        <3> DEFINE i == Len(a)
                   j == Len(b)
        <3>4. i \in Nat /\ j \in Nat /\ i <= j /\ j <= i
            BY <2>4, <3>2, <3>3
        <3> HIDE DEF i, j
        <3>5. j = i
            BY <3>4
        <3> QED BY <3>5 DEF i, j
    <2>8. \A k \in 1..Len(a) : b[k].char = a[k].char
        BY <2>4, <2>5, <2>6
    <2> QED BY <2>7, <2>8 DEF SameFold, a, b
<1>6. ASSUME x \notin Solid(u) PROVE SameFold(t, y, u, x)
    <2>1. f # x /\ l # x
        BY <1>6
    <2>2. f < x /\ x < l
        BY <1>2, <1>3, <2>1
    <2>3. GapAt(u, x) <=> GapAt(t, y)
        BY <2>2, GapPart DEF y
    <2>4. CASE x \in Left(u) /\ GapAt(u, x)
        <3> DEFINE a == [char |-> " ", from |-> x]
                   b == [char |-> " ", from |-> y]
        <3>1. OfAt(u, x) = <<a>> /\ OfAt(t, y) = <<b>>
            BY <1>4, <1>6, <2>3, <2>4 DEF OfAt
        <3>2. a.char = b.char
            OBVIOUS
        <3> HIDE DEF a, b
        <3>3. Len(<<a>>) = 1 /\ Len(<<b>>) = 1 /\ <<a>>[1] = a /\ <<b>>[1] = b
            OBVIOUS
        <3>4. \A k \in 1..1 : <<b>>[k].char = <<a>>[k].char
            BY <3>2, <3>3
        <3> QED BY <3>1, <3>3, <3>4 DEF SameFold
    <2>5. CASE ~(x \in Left(u) /\ GapAt(u, x))
        <3>1. OfAt(u, x) = <<>> /\ OfAt(t, y) = <<>>
            BY <1>4, <1>6, <2>3, <2>5 DEF OfAt
        <3> QED BY <3>1 DEF SameFold
    <2> QED BY <2>4, <2>5
<1> QED BY <1>5, <1>6 DEF y

\* Before the first solid character and after the last there is nothing.
LEMMA OfAtOutside ==
    ASSUME NEW t, NEW x, (\A s \in Solid(t) : ~(s <= x)) \/ (\A s \in Solid(t) : ~(x <= s)),
           x \in Nat, Solid(t) \subseteq Nat
    PROVE  Len(OfAt(t, x)) = 0
<1>1. x \notin Solid(t) /\ ~GapAt(t, x)
    BY DEF GapAt
<1>2. OfAt(t, x) = <<>>
    BY <1>1 DEF OfAt
<1> QED BY <1>2

\* The character at e of the folded text is the k-th that comes from y.
ComesFrom(t, N, e, y, k) ==
    /\ y \in 1..Len(t) /\ Folded(t)[e].from = y
    /\ N[y - 1] < e /\ e <= N[y]
    /\ k \in 1..Len(OfAt(t, y)) /\ e = N[y - 1] + k
    /\ Folded(t)[e] = OfAt(t, y)[k]
    /\ Folded(t)[e].char = " " <=> y \notin Solid(t)

\* Every character of a folded text comes from one of the text.
LEMMA FromIs ==
    ASSUME NEW t \in Seq(Symbols), NEW N, FoldedFrom(t, N), NEW e \in 1..Len(Folded(t))
    PROVE  \E y, k : ComesFrom(t, N, e, y, k)
<1> DEFINE y == Folded(t)[e].from
           k == e - N[y - 1]
<1>1. y \in 1..Len(t) /\ N[y - 1] < e /\ e <= N[y]
    BY DEF FoldedFrom
<1> HIDE DEF y
<1>2. Len(t) \in Nat /\ e \in Nat /\ y - 1 \in 0..Len(t) /\ OfAt(t, y) \in Seq(Folding(t))
    <2>1. OfAt(t, y) \in Seq(Folding(t))
        BY <1>1, OfAtType
    <2> QED BY <1>1, <2>1
<1>3. N[y - 1] \in Nat /\ N[y] = N[y - 1] + Len(OfAt(t, y)) /\ Len(OfAt(t, y)) \in Nat
    BY <1>1, <1>2 DEF FoldedFrom
<1>4. k \in 1..Len(OfAt(t, y)) /\ e = N[y - 1] + k
    BY <1>1, <1>2, <1>3
<1> HIDE DEF k
<1>5. Folded(t)[N[y - 1] + k] = OfAt(t, y)[k]
    BY <1>1, <1>4 DEF FoldedFrom
<1>6. OfAt(t, y)[k].char = " " <=> y \notin Solid(t)
    BY <1>1, <1>4, OfAtType
<1>7. Folded(t)[e].from = y
    BY DEF y
<1>8. ComesFrom(t, N, e, y, k)
    BY <1>1, <1>4, <1>5, <1>6, <1>7 DEF ComesFrom
<1> QED BY <1>8

\* Folded, the part of t from p to q stands at the place at of the folded text,
\* and nothing else of it but spaces.
FoldedThere(t, u, p, q, at) ==
    /\ at \in Nat /\ at # 0 /\ Len(Folded(u)) \in Nat /\ Len(Folded(u)) # 0
    /\ at + Len(Folded(u)) <= Len(Folded(t)) + 1
    /\ \A e \in 1..Len(Folded(u)) :
          /\ Folded(t)[at + e - 1].char = Folded(u)[e].char
          /\ Folded(t)[at + e - 1].from = Folded(u)[e].from + (p - 1)
    /\ \A e \in 1..Len(Folded(t)) :
          Folded(t)[e].from \in p..q /\ Folded(t)[e].char # " "
             => at <= e /\ e < at + Len(Folded(u))

\* As many characters come from the part as from where it stands in the text,
\* c of which come before.
SameCount(t, u, M, N, f, l, o, c) ==
    /\ \A x \in 0..(f - 1) : M[x] = 0
    /\ \A x \in (f - 1)..l : N[x + o] = c + M[x]
    /\ \A x \in l..Len(u) : M[x] = M[l]

\* The counts of a part are those of the text, between its first solid
\* character and its last.
LEMMA CountsAgree ==
    ASSUME NEW t, NEW u, NEW p, NEW q, Part(t, u, p, q), NEW M, NEW N,
           FoldedFrom(u, M), FoldedFrom(t, N), NEW f \in Solid(u), NEW l \in Solid(u),
           \A s \in Solid(u) : f <= s /\ s <= l
    PROVE  SameCount(t, u, M, N, f, l, p - 1, N[(f - 1) + (p - 1)])
<1> DEFINE o == p - 1
           m == Len(u)
           c == N[(f - 1) + o]
<1>1. /\ t \in Seq(Symbols) /\ u \in Seq(Symbols)
      /\ p \in Nat /\ q \in Nat /\ Len(t) \in Nat /\ 1 <= p /\ p <= q /\ q <= Len(t)
      /\ Len(u) = q - p + 1 /\ DOMAIN u = 1..(q - p + 1) /\ DOMAIN t = 1..Len(t)
      /\ \A k \in 1..(q - p + 1) : u[k] = t[k + (p - 1)]
    BY PartIs
<1>2. o \in Nat /\ m \in Nat /\ m + o = q /\ q <= Len(t)
    BY <1>1
<1>3. Solid(u) \subseteq 1..m /\ Solid(u) \subseteq Nat /\ f \in 1..m /\ l \in 1..m /\ f <= l
    <2>1. Solid(u) \subseteq 1..m
        BY <1>1 DEF Solid, Left
    <2> QED BY <2>1
<1>4. /\ M \in [0..m -> Nat] /\ M[0] = 0
      /\ \A i \in 1..m : M[i] = M[i - 1] + Len(OfAt(u, i))
    BY DEF FoldedFrom
<1>5. /\ N \in [0..Len(t) -> Nat]
      /\ \A i \in 1..Len(t) : N[i] = N[i - 1] + Len(OfAt(t, i))
    BY DEF FoldedFrom
<1>6. \A i \in 1..m : i < f \/ l < i => Len(OfAt(u, i)) = 0
    <2> SUFFICES ASSUME NEW i \in 1..m, i < f \/ l < i PROVE Len(OfAt(u, i)) = 0
        OBVIOUS
    <2>1. i \in Nat /\ ((\A s \in Solid(u) : ~(s <= i)) \/ (\A s \in Solid(u) : ~(i <= s)))
        BY <1>2, <1>3
    <2> QED BY <1>3, <2>1, OfAtOutside
<1>7. \A i \in 1..m : f <= i /\ i <= l => Len(OfAt(t, i + o)) = Len(OfAt(u, i))
    <2> SUFFICES ASSUME NEW i \in 1..m, f <= i, i <= l PROVE Len(OfAt(t, i + o)) = Len(OfAt(u, i))
        OBVIOUS
    <2>1. SameFold(t, i + (p - 1), u, i)
        BY OfAtPart
    <2> QED BY <2>1 DEF SameFold
<1>8. \A i \in 1..m : Len(OfAt(u, i)) \in Nat
    <2> SUFFICES ASSUME NEW i \in 1..m PROVE Len(OfAt(u, i)) \in Nat
        OBVIOUS
    <2>1. OfAt(u, i) \in Seq(Folding(u))
        BY <1>1, OfAtType
    <2> QED BY <2>1
<1> HIDE DEF o, m
<1>9. \A x \in 0..(f - 1) : M[x] = 0
    <2> DEFINE P == {x \in Nat : x <= f - 1 => M[x] = 0}
    <2>1. 0 \in P
        BY <1>4
    <2>2. ASSUME NEW x \in Nat, x \in P PROVE x + 1 \in P
        <3> SUFFICES ASSUME x + 1 <= f - 1 PROVE M[x + 1] = 0
            OBVIOUS
        <3>1. x + 1 \in 1..m /\ x + 1 < f /\ (x + 1) - 1 = x /\ x <= f - 1
            BY <1>2, <1>3
        <3>2. M[x] = 0 /\ Len(OfAt(u, x + 1)) = 0
            BY <1>6, <2>2, <3>1
        <3>3. M[x + 1] = M[(x + 1) - 1] + Len(OfAt(u, x + 1))
            BY <1>4, <3>1
        <3> QED BY <3>1, <3>2, <3>3
    <2> HIDE DEF P
    <2>3. Nat \subseteq P
        BY <2>1, <2>2, CountingUp
    <2> QED BY <1>2, <1>3, <2>3 DEF P
<1>10. \A x \in l..m : M[x] = M[l]
    <2> DEFINE P == {d \in Nat : l + d <= m => M[l + d] = M[l]}
    <2>1. 0 \in P
        <3>1. l + 0 = l
            BY <1>2, <1>3
        <3> QED BY <3>1
    <2>2. ASSUME NEW d \in Nat, d \in P PROVE d + 1 \in P
        <3> SUFFICES ASSUME l + (d + 1) <= m PROVE M[l + (d + 1)] = M[l]
            OBVIOUS
        <3> DEFINE x == l + (d + 1)
        <3>1. x \in 1..m /\ l < x /\ x - 1 = l + d /\ l + d <= m /\ l \in 0..m
            BY <1>2, <1>3
        <3> HIDE DEF x
        <3>2. M[l + d] = M[l] /\ Len(OfAt(u, x)) = 0 /\ M[l] \in Nat
            BY <1>4, <1>6, <2>2, <3>1
        <3>3. M[x] = M[x - 1] + Len(OfAt(u, x))
            BY <1>4, <3>1
        <3>4. M[x] = M[l]
            BY <3>1, <3>2, <3>3
        <3> QED BY <3>4 DEF x
    <2> HIDE DEF P
    <2>3. Nat \subseteq P
        BY <2>1, <2>2, CountingUp
    <2> SUFFICES ASSUME NEW x \in l..m PROVE M[x] = M[l]
        OBVIOUS
    <2>4. x - l \in P /\ l + (x - l) = x /\ x <= m
        BY <1>2, <1>3, <2>3
    <2> QED BY <2>4 DEF P
<1>11. \A x \in (f - 1)..l : N[x + o] = c + M[x]
    <2> DEFINE g == f - 1
               P == {d \in Nat : g + d <= l => N[(g + d) + o] = c + M[g + d]}
    <2>1. 0 \in P
        <3>1. g + 0 = g /\ g \in 0..(f - 1) /\ g + o \in 0..Len(t)
            BY <1>2, <1>3
        <3>2. M[g] = 0 /\ N[g + o] = c /\ c \in Nat
            BY <1>5, <1>9, <3>1
        <3>3. N[(g + 0) + o] = c + M[g + 0]
            BY <3>1, <3>2
        <3> QED BY <3>3
    <2>2. ASSUME NEW d \in Nat, d \in P PROVE d + 1 \in P
        <3> SUFFICES ASSUME g + (d + 1) <= l PROVE N[(g + (d + 1)) + o] = c + M[g + (d + 1)]
            OBVIOUS
        <3> DEFINE x == g + (d + 1)
                   w == g + d
        <3>1. /\ x \in 1..m /\ f <= x /\ x <= l /\ x - 1 = w /\ w <= l /\ w \in 0..m
              /\ x + o \in 1..Len(t) /\ (x + o) - 1 = w + o /\ g + o \in 0..Len(t)
            BY <1>2, <1>3
        <3>2. N[w + o] = c + M[w]
            BY <2>2, <3>1
        <3> HIDE DEF x, w, g
        <3>3. N[x + o] = N[w + o] + Len(OfAt(t, x + o)) /\ M[x] = M[w] + Len(OfAt(u, x))
            BY <1>4, <1>5, <3>1
        <3>4. Len(OfAt(t, x + o)) = Len(OfAt(u, x)) /\ Len(OfAt(u, x)) \in Nat
            BY <1>7, <1>8, <3>1
        <3>5. M[w] \in Nat /\ c \in Nat
            BY <1>4, <1>5, <3>1 DEF g
        <3> HIDE DEF c
        <3>6. N[x + o] = c + M[x]
            BY <3>2, <3>3, <3>4, <3>5
        <3> QED BY <3>6 DEF x
    <2> HIDE DEF P
    <2>3. Nat \subseteq P
        BY <2>1, <2>2, CountingUp
    <2> SUFFICES ASSUME NEW x \in g..l PROVE N[x + o] = c + M[x]
        OBVIOUS
    <2>4. x - g \in P /\ g + (x - g) = x /\ x <= l
        BY <1>2, <1>3, <2>3
    <2>5. g + (x - g) <= l => N[(g + (x - g)) + o] = c + M[g + (x - g)]
        BY <2>4 DEF P
    <2> HIDE DEF g
    <2> QED BY <2>4, <2>5
<1> QED BY <1>9, <1>10, <1>11 DEF SameCount, o, m

\* Wherever a part of a text is cut out, so long as no hyphen in it is joined
\* to what follows it, what it folds to stands in what the text folds to.
LEMMA FoldedPart ==
    ASSUME NEW t, NEW u, NEW p, NEW q, Part(t, u, p, q), Solid(u) # {}
    PROVE  \E at : FoldedThere(t, u, p, q, at)
<1> DEFINE o == p - 1
           m == Len(u)
<1>1. /\ t \in Seq(Symbols) /\ u \in Seq(Symbols)
      /\ p \in Nat /\ q \in Nat /\ Len(t) \in Nat /\ 1 <= p /\ p <= q /\ q <= Len(t)
      /\ Len(u) = q - p + 1 /\ DOMAIN u = 1..(q - p + 1) /\ DOMAIN t = 1..Len(t)
      /\ \A k \in 1..(q - p + 1) : u[k] = t[k + (p - 1)]
    BY PartIs
<1>2. o \in Nat /\ m \in Nat /\ m + o = q /\ q <= Len(t) /\ o + 1 = p
    BY <1>1
<1>3. Solid(u) \subseteq 1..m /\ Solid(u) \subseteq Nat /\ Solid(u) \subseteq Int /\ IsFiniteSet(Solid(u))
    <2>1. Solid(u) \subseteq 1..m
        BY <1>1 DEF Solid, Left
    <2>2. IsFiniteSet(1..m)
        BY <1>2, FS_Interval
    <2>3. IsFiniteSet(Solid(u))
        BY <2>1, <2>2, FS_Subset
    <2> QED BY <2>1, <2>3
<1>19. t \in Seq(Symbols) /\ u \in Seq(Symbols)
    BY <1>1
<1> DEFINE f == Min(Solid(u))
           l == Max(Solid(u))
<1>4. f \in Solid(u) /\ l \in Solid(u) /\ \A s \in Solid(u) : f <= s /\ s <= l
    <2>1. f \in Solid(u) /\ \A s \in Solid(u) : f <= s
        BY <1>3, MinIn
    <2>2. l \in Solid(u) /\ \A s \in Solid(u) : s <= l
        BY <1>3, MaxIn
    <2> QED BY <2>1, <2>2
<1> HIDE DEF f, l
<1>5. f \in 1..m /\ l \in 1..m /\ f <= l /\ f \in Nat /\ l \in Nat
    BY <1>2, <1>3, <1>4
<1>6. PICK M : FoldedFrom(u, M)
    BY <1>1, FoldedInOrder
<1>7. PICK N : FoldedFrom(t, N)
    BY <1>1, FoldedInOrder
<1> DEFINE c == N[(f - 1) + o]
           at == c + 1
<1>8. SameCount(t, u, M, N, f, l, o, c)
    BY <1>4, <1>6, <1>7, CountsAgree
<1>9. /\ M \in [0..m -> Nat] /\ Len(Folded(u)) = M[m]
      /\ \A i \in 1..m : M[i] = M[i - 1] + Len(OfAt(u, i))
      /\ \A i, j \in 0..m : i <= j => M[i] <= M[j]
    BY <1>6 DEF FoldedFrom
<1>10. /\ N \in [0..Len(t) -> Nat] /\ Len(Folded(t)) = N[Len(t)]
       /\ \A i, j \in 0..Len(t) : i <= j => N[i] <= N[j]
       /\ \A i \in 1..Len(t) : \A k \in 1..Len(OfAt(t, i)) : Folded(t)[N[i - 1] + k] = OfAt(t, i)[k]
    BY <1>7 DEF FoldedFrom
<1>11. c \in Nat /\ (f - 1) + o \in 0..Len(t)
    <2>1. (f - 1) + o \in 0..Len(t)
        BY <1>2, <1>5
    <2> QED BY <1>10, <2>1
<1> HIDE DEF o, m, c
<1>12. /\ \A x \in 0..(f - 1) : M[x] = 0
       /\ \A x \in (f - 1)..l : N[x + o] = c + M[x]
       /\ \A x \in l..m : M[x] = M[l]
    BY <1>8 DEF SameCount, m
<1> DEFINE n == M[l]
<1>13. n \in Nat /\ Len(Folded(u)) = n
    <2>1. m \in l..m /\ l \in 0..m
        BY <1>2, <1>5
    <2> QED BY <1>9, <1>12, <2>1
<1>14. n # 0
    <2>1. f \in 0..m /\ l \in 0..m /\ f - 1 \in 0..m
        BY <1>2, <1>5
    <2>2. M[f] = M[f - 1] + Len(OfAt(u, f)) /\ M[f] <= n /\ M[f - 1] \in Nat /\ M[f] \in Nat
        BY <1>5, <1>9, <2>1
    <2>3. OfAt(u, f) \in Seq(Folding(u)) /\ Len(OfAt(u, f)) # 0
        BY <1>1, <1>4, <1>5, OfAtType DEF m
    <2>4. Len(OfAt(u, f)) \in Nat
        BY <2>3
    <2> DEFINE a == Len(OfAt(u, f))
    <2>5. a \in Nat /\ a # 0
        BY <2>3, <2>4
    <2> HIDE DEF a, n
    <2> QED BY <1>13, <2>2, <2>5 DEF a
<1>15. N[l + o] = c + n /\ c + n <= Len(Folded(t))
    <2>1. l \in (f - 1)..l /\ l + o \in 0..Len(t) /\ Len(t) \in 0..Len(t) /\ l + o <= Len(t)
        BY <1>1, <1>2, <1>5
    <2> QED BY <1>10, <1>12, <2>1
<1> HIDE DEF n
<1>16. ASSUME NEW e \in 1..n
       PROVE  Folded(t)[c + e].char = Folded(u)[e].char /\ Folded(t)[c + e].from = Folded(u)[e].from + o
    <2>0. e \in 1..Len(Folded(u))
        BY <1>13
    <2>13. PICK x, k : ComesFrom(u, M, e, x, k)
        BY <1>6, <1>19, <2>0, FromIs
    <2>1. /\ x \in 1..m /\ Folded(u)[e].from = x /\ M[x - 1] < e /\ e <= M[x]
          /\ k \in 1..Len(OfAt(u, x)) /\ e = M[x - 1] + k
          /\ Folded(u)[e] = OfAt(u, x)[k]
        BY <2>13 DEF ComesFrom, m
    <2>2. f <= x
        <3> SUFFICES ASSUME x < f PROVE FALSE
            BY <1>5, <2>1
        <3>1. x \in 0..(f - 1)
            BY <1>5, <2>1
        <3> QED BY <1>12, <1>13, <2>1, <3>1
    <2>3. x <= l
        <3> SUFFICES ASSUME l < x PROVE FALSE
            BY <1>5, <2>1
        <3>1. x - 1 \in l..m
            BY <1>2, <1>5, <2>1
        <3>2. M[x - 1] = n
            BY <1>12, <3>1 DEF n
        <3> QED BY <1>13, <2>1, <3>2
    <2>4. /\ x + o \in 1..Len(t) /\ x - 1 \in (f - 1)..l /\ (x + o) - 1 = (x - 1) + o
          /\ x - 1 \in 0..m
        BY <1>2, <1>5, <2>1, <2>2, <2>3
    <2>5. SameFold(t, x + (p - 1), u, x)
        BY <1>4, <2>1, <2>2, <2>3, OfAtPart DEF m
    <2>6. SameFold(t, x + o, u, x)
        BY <2>5 DEF o
    <2>7. k \in 1..Len(OfAt(t, x + o)) /\ OfAt(t, x + o)[k].char = OfAt(u, x)[k].char
        BY <2>1, <2>6 DEF SameFold
    <2>8. Folded(t)[N[(x + o) - 1] + k] = OfAt(t, x + o)[k]
        BY <1>10, <2>4, <2>7
    <2>9. N[(x + o) - 1] = c + M[x - 1]
        BY <1>12, <2>4
    <2>10. (c + M[x - 1]) + k = c + e
        <3>1. M[x - 1] \in Nat /\ k \in Int
            BY <1>9, <2>1, <2>4
        <3> QED BY <1>11, <2>1, <3>1
    <2>11. Folded(t)[c + e] = OfAt(t, x + o)[k]
        BY <2>8, <2>9, <2>10
    <2>12. OfAt(t, x + o)[k].from = x + o
        <3> DEFINE y == x + o
        <3>1. y \in 1..Len(t) /\ k \in 1..Len(OfAt(t, y))
            BY <2>4, <2>7
        <3> HIDE DEF y
        <3>3. \A i \in 1..Len(t) : \A j \in 1..Len(OfAt(t, i)) : OfAt(t, i)[j].from = i
            BY <1>19, OfAtType
        <3>2. OfAt(t, y)[k].from = y
            BY <3>1, <3>3
        <3> QED BY <3>2 DEF y
    <2> QED BY <2>1, <2>7, <2>11, <2>12
<1>17. ASSUME NEW e \in 1..Len(Folded(t)), Folded(t)[e].from \in p..q, Folded(t)[e].char # " "
       PROVE  c < e /\ e <= c + n
    <2>8. PICK y, k : ComesFrom(t, N, e, y, k)
        BY <1>7, <1>19, FromIs
    <2>1. y \in 1..Len(t) /\ N[y - 1] < e /\ e <= N[y] /\ y \in Solid(t) /\ y \in p..q
        BY <1>17, <2>8 DEF ComesFrom
    <2> DEFINE x == y - o
    <2>2. x \in 1..m /\ x + o = y /\ x \in Nat
        BY <1>2, <2>1
    <2> HIDE DEF x
    <2>3. x \in Solid(u)
        BY <2>1, <2>2, SolidPart DEF o, m
    <2>4. f <= x /\ x <= l
        BY <1>4, <2>3
    <2>5. /\ y - 1 \in 0..Len(t) /\ y \in 0..Len(t) /\ l + o \in 0..Len(t)
          /\ (f - 1) + o <= y - 1 /\ y <= l + o
        BY <1>2, <1>5, <2>1, <2>2, <2>4
    <2>6. N[(f - 1) + o] <= N[y - 1] /\ N[y] <= N[l + o] /\ N[y - 1] \in Nat /\ N[y] \in Nat
        BY <1>10, <1>11, <2>5
    <2>7. e \in Nat /\ c <= N[y - 1] /\ N[y] <= c + n
        BY <1>15, <2>6 DEF c
    <2> QED BY <1>11, <1>13, <2>1, <2>6, <2>7
<1>18. FoldedThere(t, u, p, q, at)
    <2>1. at \in Nat /\ at # 0 /\ at + n <= Len(Folded(t)) + 1
        <3>1. Len(Folded(t)) \in Nat
            <4>1. Len(t) \in 0..Len(t)
                BY <1>1
            <4> QED BY <1>10, <4>1
        <3> QED BY <1>11, <1>13, <1>15, <3>1
    <2>2. \A e \in 1..n : at + e - 1 = c + e
        BY <1>11, <1>13
    <2>3. \A e \in 1..Len(Folded(t)) : Folded(t)[e].from \in p..q /\ Folded(t)[e].char # " "
             => at <= e /\ e < at + n
        <3>1. \A e \in Int : c < e /\ e <= c + n => at <= e /\ e < at + n
            BY <1>11, <1>13
        <3>2. \A e \in 1..Len(Folded(t)) : e \in Int
            OBVIOUS
        <3> HIDE DEF at
        <3> QED BY <1>17, <3>1, <3>2
    <2> HIDE DEF at
    <2> QED BY <1>13, <1>14, <1>16, <2>1, <2>2, <2>3 DEF FoldedThere, o
<1> QED BY <1>18

\* The characters a text is folded to.
Said(t) == Chars(Folded(t))

\* They are as many as the folded text has, and it is in the order of the text.
LEMMA SaidType ==
    ASSUME NEW t \in Seq(Symbols)
    PROVE  /\ Folded(t) \in Seq(Folding(t)) /\ Said(t) \in Seq(Folds)
           /\ Len(Folded(t)) \in Nat /\ Len(Said(t)) = Len(Folded(t))
           /\ \A e \in 1..Len(Folded(t)) :
                 /\ Said(t)[e] = Folded(t)[e].char
                 /\ Folded(t)[e].from \in 1..Len(t)
<1>1. PICK N : FoldedFrom(t, N)
    BY FoldedInOrder
<1> DEFINE f == Folded(t)
           F == Folding(t)
           m == Len(f)
<1>2. f \in Seq(F)
    BY <1>1 DEF FoldedFrom
<1>3. \A x \in F : x.char \in Folds
    BY DEF Folding
<1>8. \A e \in 1..m : f[e].from \in 1..Len(t)
    BY <1>1 DEF FoldedFrom
<1>4. Said(t) = [k \in DOMAIN f |-> f[k].char]
    BY DEF Said, Chars
<1> HIDE DEF f, F
<1>5. m \in Nat /\ DOMAIN f = 1..m /\ \A e \in 1..m : f[e] \in F
    BY <1>2
<1> HIDE DEF m
<1>6. Said(t) \in [1..m -> Folds] /\ \A e \in 1..m : Said(t)[e] = f[e].char
    BY <1>3, <1>4, <1>5
<1>7. Said(t) \in Seq(Folds) /\ Len(Said(t)) = m
    BY <1>5, <1>6
<1> QED BY <1>2, <1>5, <1>6, <1>7, <1>8 DEF f, F, m

\* What stands later in a folded text does not come from before.
LEMMA FromInOrder ==
    ASSUME NEW t \in Seq(Symbols), NEW d \in 1..Len(Folded(t)), NEW e \in 1..Len(Folded(t)), d <= e
    PROVE  Folded(t)[d].from <= Folded(t)[e].from
<1>1. PICK N : FoldedFrom(t, N)
    BY FoldedInOrder
<1>2. PICK x, j : ComesFrom(t, N, d, x, j)
    BY <1>1, FromIs
<1>3. PICK y, k : ComesFrom(t, N, e, y, k)
    BY <1>1, FromIs
<1>4. /\ x \in 1..Len(t) /\ y \in 1..Len(t) /\ Folded(t)[d].from = x /\ Folded(t)[e].from = y
      /\ N[x - 1] < d /\ e <= N[y]
    BY <1>2, <1>3 DEF ComesFrom
<1>5. N \in [0..Len(t) -> Nat] /\ \A i, k_1 \in 0..Len(t) : i <= k_1 => N[i] <= N[k_1]
    BY <1>1 DEF FoldedFrom
<1>6. Len(t) \in Nat /\ d \in Int /\ e \in Int
    OBVIOUS
<1>7. ASSUME y < x PROVE FALSE
    <2>1. y \in 0..Len(t) /\ x - 1 \in 0..Len(t) /\ y <= x - 1
        BY <1>4, <1>6, <1>7
    <2>2. N[y] <= N[x - 1] /\ N[y] \in Nat /\ N[x - 1] \in Nat
        BY <1>5, <2>1
    <2> QED BY <1>4, <1>6, <2>2
<1> QED BY <1>4, <1>6, <1>7

\* A folded text begins and ends with something else than a space, and has no
\* two spaces in a row.
LEMMA NoSpaces ==
    ASSUME NEW t \in Seq(Symbols)
    PROVE  /\ Len(Folded(t)) # 0 => Said(t)[1] # " " /\ Said(t)[Len(Folded(t))] # " "
           /\ \A e \in 1..(Len(Folded(t)) - 1) : Said(t)[e] # " " \/ Said(t)[e + 1] # " "
<1> DEFINE n == Len(Folded(t))
           m == Len(t)
<1>1. PICK N : FoldedFrom(t, N)
    BY FoldedInOrder
<1>2. /\ N \in [0..m -> Nat] /\ n = N[m]
      /\ \A i \in 1..m : N[i] = N[i - 1] + Len(OfAt(t, i))
      /\ \A i, j \in 0..m : i <= j => N[i] <= N[j]
    BY <1>1 DEF FoldedFrom
<1>3. /\ n \in Nat /\ m \in Nat /\ DOMAIN t = 1..m
      /\ \A e \in 1..n : Said(t)[e] = Folded(t)[e].char
    BY SaidType
<1>10. n \in Nat /\ (n # 0 => 1 \in 1..n /\ n \in 1..n)
    <2> HIDE DEF n
    <2>1. n \in Nat
        BY <1>3
    <2> QED BY <2>1
<1>4. \A s \in Solid(t) : s \in 1..m /\ s \in Left(t)
    BY <1>3 DEF Solid, Left
<1> HIDE DEF n, m
<1>5. ASSUME NEW s \in Solid(t)
      PROVE  /\ N[s - 1] < N[s] /\ s - 1 \in 0..m /\ s \in 0..m /\ s \in 1..m
             /\ N[s - 1] \in Nat /\ N[s] \in Nat /\ N[s] <= n
    <2>1. s \in 1..m /\ s - 1 \in 0..m /\ s \in 0..m /\ m \in 0..m /\ s <= m
        BY <1>3, <1>4
    <2>2. OfAt(t, s) \in Seq(Folding(t)) /\ Len(OfAt(t, s)) # 0
        BY <2>1, OfAtType DEF m
    <2>3. Len(OfAt(t, s)) \in Nat
        BY <2>2
    <2>4. N[s] = N[s - 1] + Len(OfAt(t, s)) /\ N[s - 1] \in Nat /\ N[s] \in Nat /\ N[s] <= n
        BY <1>2, <2>1
    <2> DEFINE a == Len(OfAt(t, s))
    <2>5. a \in Nat /\ a # 0 /\ N[s] = N[s - 1] + a
        BY <2>2, <2>3, <2>4
    <2> HIDE DEF a
    <2> QED BY <2>1, <2>4, <2>5
<1>6. ASSUME NEW e \in 1..n, Said(t)[e] = " "
      PROVE  \E y \in 1..m :
                /\ N[y - 1] < e /\ e <= N[y] /\ N[y - 1] + 1 = e /\ N[y] = e
                /\ y \notin Solid(t) /\ y \in Left(t) /\ GapAt(t, y)
    <2>1. PICK y, k : ComesFrom(t, N, e, y, k)
        BY <1>1, FromIs DEF n
    <2>2. Folded(t)[e].char = " "
        BY <1>3, <1>6
    <2>3. /\ y \in 1..m /\ N[y - 1] < e /\ e <= N[y] /\ y \notin Solid(t)
          /\ k \in 1..Len(OfAt(t, y)) /\ e = N[y - 1] + k
        BY <2>1, <2>2 DEF ComesFrom, m
    <2>4. y \in Left(t) /\ GapAt(t, y)
        <3> SUFFICES ASSUME ~(y \in Left(t) /\ GapAt(t, y)) PROVE FALSE
            OBVIOUS
        <3>1. OfAt(t, y) = <<>>
            BY <2>3 DEF OfAt
        <3> QED BY <2>3, <3>1
    <2>5. Len(OfAt(t, y)) = 1
        BY <2>3, <2>4 DEF OfAt
    <2>6. N[y] = N[y - 1] + 1 /\ N[y - 1] \in Nat /\ k = 1
        <3>1. y - 1 \in 0..m
            BY <1>3, <2>3
        <3>2. k \in 1..1
            BY <2>3, <2>5
        <3>3. N[y] = N[y - 1] + 1 /\ N[y - 1] \in Nat
            <4>1. N[y] = N[y - 1] + Len(OfAt(t, y))
                BY <1>2, <2>3
            <4> QED BY <1>2, <2>5, <3>1, <4>1
        <3> QED BY <3>2, <3>3
    <2>7. N[y - 1] + 1 = e /\ N[y] = e
        BY <2>3, <2>6
    <2> QED BY <2>3, <2>4, <2>7
<1>7. ASSUME n # 0, Said(t)[1] = " " PROVE FALSE
    <2>1. 1 \in 1..n
        BY <1>7, <1>10
    <2>2. PICK y \in 1..m : N[y - 1] + 1 = 1 /\ GapAt(t, y)
        BY <1>6, <1>7, <2>1
    <2>3. PICK s \in Solid(t) : s < y
        BY <2>2 DEF GapAt
    <2>4. N[s - 1] < N[s] /\ s \in 0..m /\ y - 1 \in 0..m /\ s <= y - 1 /\ N[s - 1] \in Nat /\ N[s] \in Nat
        BY <1>3, <1>5, <2>3
    <2>5. N[s] <= N[y - 1] /\ N[y - 1] \in Nat
        BY <1>2, <2>4
    <2> QED BY <2>2, <2>4, <2>5
<1>8. ASSUME n # 0, Said(t)[n] = " " PROVE FALSE
    <2>1. n \in 1..n
        BY <1>8, <1>10
    <2>2. PICK y \in 1..m : N[y] = n /\ GapAt(t, y)
        BY <1>6, <1>8, <2>1
    <2>3. PICK s \in Solid(t) : y < s
        BY <2>2 DEF GapAt
    <2>4. /\ N[s - 1] < N[s] /\ s - 1 \in 0..m /\ y \in 0..m /\ y <= s - 1
          /\ N[s - 1] \in Nat /\ N[s] \in Nat /\ N[s] <= n
        BY <1>3, <1>5, <2>3
    <2>5. N[y] <= N[s - 1] /\ N[y] \in Nat
        BY <1>2, <2>4
    <2> QED BY <2>2, <2>4, <2>5
<1>9. ASSUME NEW e \in 1..(n - 1), Said(t)[e] = " ", Said(t)[e + 1] = " " PROVE FALSE
    <2>1. e \in 1..n /\ e + 1 \in 1..n /\ e \in Nat
        BY <1>3
    <2>2. PICK x \in 1..m : N[x] = e /\ x \notin Solid(t) /\ x \in Left(t)
        BY <1>6, <1>9, <2>1
    <2>3. PICK y \in 1..m : N[y - 1] + 1 = e + 1 /\ N[y] = e + 1 /\ GapAt(t, y)
        BY <1>6, <1>9, <2>1
    <2>4. PICK s \in Solid(t) : s < y /\ \A j \in Left(t) : s < j /\ j < y => FALSE
        BY <2>3 DEF GapAt
    <2>5. /\ N[s - 1] < N[s] /\ s - 1 \in 0..m /\ s \in 0..m /\ s \in 1..m /\ x \in 0..m /\ y \in 0..m
          /\ y - 1 \in 0..m /\ s <= y - 1 /\ N[s - 1] \in Nat /\ N[s] \in Nat
        BY <1>3, <1>5, <2>4
    <2>6. x < y
        <3> SUFFICES ASSUME y <= x PROVE FALSE
            BY <2>5
        <3>1. N[y] <= N[x]
            BY <1>2, <2>5
        <3> QED BY <2>1, <2>2, <2>3, <3>1
    <2>7. x # s
        BY <2>2
    <2>8. ~(s < x /\ x < y)
        BY <2>2, <2>4
    <2>9. x <= s - 1
        BY <2>5, <2>6, <2>7, <2>8
    <2>10. N[x] <= N[s - 1] /\ N[s] <= N[y - 1] /\ N[y - 1] \in Nat
        BY <1>2, <2>5, <2>9
    <2> QED BY <2>1, <2>2, <2>3, <2>5, <2>10
<1> QED BY <1>7, <1>8, <1>9 DEF n

\* Where a part stands, folded, its characters can be found.
LEMMA SaidThere ==
    ASSUME NEW t \in Seq(Symbols), NEW u \in Seq(Symbols), NEW p, NEW q, NEW at,
           FoldedThere(t, u, p, q, at)
    PROVE  /\ at \in Nat /\ at # 0 /\ Len(Said(u)) \in Nat /\ Len(Said(u)) # 0
           /\ at + Len(Said(u)) <= Len(Said(t)) + 1
           /\ StandsAt(Said(t), Said(u), at)
<1> DEFINE c == Said(u)
           d == Said(t)
           n == Len(c)
           b == at + n - 1
<1>1. /\ at \in Nat /\ at # 0 /\ Len(Folded(u)) # 0
      /\ at + Len(Folded(u)) <= Len(Folded(t)) + 1
      /\ \A e \in 1..Len(Folded(u)) : Folded(t)[at + e - 1].char = Folded(u)[e].char
    BY DEF FoldedThere
<1>2. /\ d \in Seq(Folds) /\ c \in Seq(Folds)
      /\ Len(Folded(u)) = n /\ Len(Folded(t)) = Len(d) /\ n \in Nat /\ Len(d) \in Nat
      /\ \A e \in 1..n : c[e] = Folded(u)[e].char
      /\ \A e \in 1..Len(d) : d[e] = Folded(t)[e].char
    BY SaidType
<1> HIDE DEF c, d, n
<1>3. n # 0 /\ at + n <= Len(d) + 1
    BY <1>1, <1>2
<1>4. at \in 1..Len(d) /\ b \in 1..Len(d) /\ at <= b /\ b - at + 1 = n
    BY <1>1, <1>2, <1>3
<1> HIDE DEF b
<1>5. /\ SubSeq(d, at, b) \in Seq(Folds) /\ Len(SubSeq(d, at, b)) = n
      /\ \A k \in 1..n : SubSeq(d, at, b)[k] = d[at + k - 1]
    BY <1>2, <1>4, PartType
<1>6. ASSUME NEW k \in 1..n PROVE d[at + k - 1] = c[k]
    <2>1. at + k - 1 \in 1..Len(d)
        BY <1>1, <1>2, <1>3
    <2> QED BY <1>1, <1>2, <2>1
<1>7. SubSeq(d, at, b) = c
    <2> DEFINE r == SubSeq(d, at, b)
    <2>1. r \in Seq(Folds) /\ Len(r) = n /\ Len(c) = n /\ \A k \in 1..n : r[k] = c[k]
        BY <1>2, <1>5, <1>6 DEF n
    <2> HIDE DEF r
    <2>2. r = [k \in 1..n |-> r[k]] /\ c = [k \in 1..n |-> c[k]]
        BY <1>2, <2>1
    <2>3. r = c
        BY <2>1, <2>2
    <2> QED BY <2>3 DEF r
<1> QED BY <1>1, <1>2, <1>3, <1>7 DEF StandsAt, b, c, d, n

----------------------------------------------------------------------------
(* What is read of a section.                                              *)

\* A text is made of symbols.
LEMMA TextSymbols ==
    ASSUME NEW t \in Seq(Char)
    PROVE  t \in Seq(Symbols)
<1>1. Char \subseteq Symbols
    BY DEF Char
<1> QED BY <1>1, SeqMonotonic

\* A section is one stretch of its text.
LEMMA SectionRuns ==
    ASSUME NEW t \in Seq(Char), NEW n \in 1..Len(Split(t))
    PROVE  /\ Split(t)[n] \in Seq(1..Len(t))
           /\ \E d \in Nat : \A e \in 1..Len(Split(t)[n]) : Split(t)[n][e] = d + e
<1> DEFINE ss == Split(t)
           ps == ss[n]
           all == FlattenSeq(ss)
           m == Len(t)
           T == 1..m
<1>1. ss \in Seq(Seq(T)) /\ \E k \in 1..(m + 1) : all = Between(k, m)
    BY SplitKeeps
<1>2. PICK k \in 1..(m + 1) : all = Between(k, m)
    BY <1>1
<1>3. m \in Nat
    OBVIOUS
<1> HIDE DEF ss, T, all, m
<1>4. PICK N : Located(ss, N)
    BY <1>1, FlattenAt
<1>5. n \in 1..Len(ss) /\ ps \in Seq(T) /\ Len(ss) \in Nat
    <2>1. n \in 1..Len(ss)
        BY DEF ss
    <2> QED BY <1>1, <2>1
<1> HIDE DEF ps
<1>6. /\ Len(all) = m - k + 1 /\ \A q \in 1..(m - k + 1) : all[q] = k + q - 1
    <2>1. k \in Int /\ m \in Int /\ k <= m + 1 /\ k..m \subseteq Int
        BY <1>3
    <2>2. /\ Len(Between(k, m)) = m - k + 1
          /\ \A q \in 1..(m - k + 1) : Between(k, m)[q] = k + q - 1
        BY <2>1, BetweenType
    <2> QED BY <1>2, <2>2
<1>7. /\ N \in [0..Len(ss) -> Nat] /\ N[n] = N[n - 1] + Len(ps) /\ N[n] <= N[Len(ss)]
      /\ N[Len(ss)] = m - k + 1
      /\ \A e \in 1..Len(ps) : all[N[n - 1] + e] = ps[e]
    <2>1. n \in 0..Len(ss) /\ Len(ss) \in 0..Len(ss) /\ n <= Len(ss)
        BY <1>5
    <2>2. Len(all) = N[Len(ss)]
        BY <1>4 DEF Located, all
    <2>3. \A e \in 1..Len(ps) : all[N[n - 1] + e] = ps[e]
        BY <1>4, <1>5 DEF Located, all, ps
    <2>4. N[n] = N[n - 1] + Len(ps) /\ N[n] <= N[Len(ss)]
        BY <1>4, <1>5, <2>1 DEF Located, ps
    <2>5. N \in [0..Len(ss) -> Nat]
        BY <1>4 DEF Located
    <2> QED BY <1>6, <2>2, <2>3, <2>4, <2>5
<1> DEFINE c == N[n - 1]
           d == c + (k - 1)
<1>8. c \in Nat /\ d \in Nat /\ Len(ps) \in Nat
    <2>1. n - 1 \in 0..Len(ss)
        BY <1>5
    <2>2. c \in Nat
        BY <1>7, <2>1
    <2>3. k - 1 \in Nat
        BY <1>3
    <2> HIDE DEF c
    <2> QED BY <1>5, <2>2, <2>3
<1>9. ASSUME NEW e \in 1..Len(ps) PROVE ps[e] = d + e
    <2>1. c + e \in 1..(m - k + 1) /\ k + (c + e) - 1 = d + e
        <3>1. c + Len(ps) <= m - k + 1
            BY <1>7
        <3> HIDE DEF c
        <3> QED BY <1>3, <1>8, <3>1
    <2>2. all[c + e] = ps[e]
        BY <1>7
    <2> HIDE DEF c, d
    <2>3. all[c + e] = k + (c + e) - 1
        BY <1>6, <2>1
    <2> QED BY <2>1, <2>2, <2>3
<1> HIDE DEF d
<1> QED BY <1>5, <1>8, <1>9 DEF ps, ss, T, m

\* The positions from p to q of the text are read.
ReadFrom(ps, p, q) ==
    /\ p \in 1..Len(text) /\ q \in p..Len(text)
    /\ ps[1] = p /\ Last(ps) = q /\ Range(ps) = p..q
    /\ Chosen(ps) = SubSeq(text, p, q)

\* What is copied in one go is a stretch of the text.
LEMMA CopyRuns ==
    ASSUME text \in Seq(Char), NEW n \in 1..Len(Split(text)), NEW ps \in Copies(Split(text)[n])
    PROVE  \E p, q : ReadFrom(ps, p, q)
<1> DEFINE s == Split(text)[n]
           m == Len(text)
           T == 1..m
<1>1. s \in Seq(T) /\ \E d \in Nat : \A e \in 1..Len(s) : s[e] = d + e
    BY SectionRuns
<1>2. PICK d \in Nat : \A e \in 1..Len(s) : s[e] = d + e
    BY <1>1
<1>3. PICK i \in DOMAIN s : ps \in {SubSeq(s, i, j) : j \in i..Min({i + MaxPart - 1, Len(s)})}
    BY DEF Copies
<1>13. m \in Nat
    OBVIOUS
<1> HIDE DEF s, T
<1>4. DOMAIN s = 1..Len(s) /\ Len(s) \in Nat /\ MaxPart \in Nat /\ MaxPart # 0
    <2>1. MaxPart \in Nat \ {0}
        BY FileTextAssumption
    <2> QED BY <1>1, <2>1
<1>5. PICK j \in i..Min({i + MaxPart - 1, Len(s)}) : ps = SubSeq(s, i, j)
    BY <1>3
<1>6. i \in 1..Len(s) /\ j \in 1..Len(s) /\ i <= j
    <2> DEFINE S == {i + MaxPart - 1, Len(s)}
    <2>1. S \subseteq Nat /\ S # {}
        BY <1>4
    <2>2. Min(S) \in S /\ Min(S) <= Len(s)
        BY <2>1, MinIn
    <2>3. Min(S) \in Nat
        BY <2>1, <2>2
    <2> HIDE DEF S
    <2>4. j \in i..Min(S)
        BY DEF S
    <2> QED BY <1>4, <2>2, <2>3, <2>4
<1>7. /\ ps \in Seq(T) /\ Len(ps) = j - i + 1
      /\ \A k \in 1..(j - i + 1) : ps[k] = s[i + k - 1]
    BY <1>1, <1>5, <1>6, PartType
<1> DEFINE p == d + i
           q == d + j
           r == j - i + 1
<1>8. r \in Nat /\ r # 0 /\ r = q - p + 1 /\ p <= q /\ Len(ps) = r /\ p \in Nat /\ q \in Nat
    BY <1>4, <1>6, <1>7
<1>9. p \in T /\ q \in T
    <2>1. s[i] = p /\ s[j] = q
        BY <1>2, <1>6
    <2>2. s[i] \in T /\ s[j] \in T
        BY <1>1, <1>6
    <2> QED BY <2>1, <2>2
<1>10. \A k \in 1..r : ps[k] = p + k - 1
    <2> SUFFICES ASSUME NEW k \in 1..r PROVE ps[k] = p + k - 1
        OBVIOUS
    <2>1. i + k - 1 \in 1..Len(s) /\ d + (i + k - 1) = p + k - 1
        BY <1>4, <1>6
    <2>2. s[i + k - 1] = d + (i + k - 1) /\ ps[k] = s[i + k - 1]
        BY <1>2, <1>7, <2>1
    <2> QED BY <2>1, <2>2
<1> HIDE DEF p, q, r
<1>11. ps[1] = p /\ Last(ps) = q /\ Range(ps) = p..q /\ DOMAIN ps = 1..r
    <2>1. DOMAIN ps = 1..r
        BY <1>7, <1>8
    <2>2. 1 \in 1..r /\ r \in 1..r /\ p + 1 - 1 = p /\ p + r - 1 = q
        BY <1>8
    <2>3. ps[1] = p /\ ps[r] = q
        BY <1>10, <2>2
    <2>4. \A k \in 1..r : p + k - 1 \in p..q
        BY <1>8
    <2>5. \A x \in p..q : x - p + 1 \in 1..r /\ p + (x - p + 1) - 1 = x
        BY <1>8
    <2>6. Range(ps) = {ps[k] : k \in 1..r}
        BY <2>1 DEF Range
    <2>7. \A x \in p..q : \E k \in 1..r : ps[k] = x
        BY <1>10, <2>5
    <2>8. \A k \in 1..r : ps[k] \in p..q
        BY <1>10, <2>4
    <2>9. Range(ps) = p..q
        BY <2>6, <2>7, <2>8
    <2> QED BY <1>8, <2>1, <2>3, <2>9 DEF Last
<1>12. Chosen(ps) = SubSeq(text, p, q)
    <2> DEFINE u == SubSeq(text, p, q)
    <2>1. u \in Seq(Char) /\ Len(u) = q - p + 1 /\ \A k \in 1..(q - p + 1) : u[k] = text[p + k - 1]
        BY <1>8, <1>9, PartType DEF T
    <2> HIDE DEF u
    <2>2. u = [k \in 1..r |-> u[k]]
        BY <1>8, <2>1
    <2>3. Chosen(ps) = [k \in 1..r |-> text[ps[k]]]
        BY <1>11 DEF Chosen
    <2>4. \A k \in 1..r : u[k] = text[ps[k]]
        BY <1>8, <1>10, <2>1
    <2>5. Chosen(ps) = u
        BY <2>2, <2>3, <2>4
    <2> QED BY <2>5 DEF u
<1> HIDE DEF m
<1>14. p \in 1..m /\ q \in p..m
    BY <1>8, <1>9, <1>13 DEF T
<1>15. ReadFrom(ps, p, q)
    BY <1>11, <1>12, <1>14 DEF ReadFrom, m
<1> QED BY <1>15

\* A part that is quoted as it is, and does not end in a hyphen, can be looked
\* for in the text.
LEMMA QuotedPart ==
    ASSUME NEW t \in Seq(Symbols), NEW p \in 1..Len(t), NEW q \in p..Len(t), NEW u,
           u = SubSeq(t, p, q), Stripped(u) # <<>>, Last(Stripped(u)) # "-",
           Folded(Stripped(u)) # <<>>
    PROVE  Part(t, u, p, q) /\ Solid(u) # {}
<1> DEFINE s == Stripped(u)
           o == p - 1
<1>1. /\ p \in Nat /\ q \in Nat /\ Len(t) \in Nat /\ 1 <= p /\ p <= q /\ q <= Len(t)
      /\ q \in 1..Len(t)
    OBVIOUS
<1>2. /\ u \in Seq(Symbols) /\ Len(u) = q - p + 1
      /\ \A k \in 1..(q - p + 1) : u[k] = t[p + k - 1]
    BY <1>1, PartType
<1>3. PICK i, j \in 1..Len(u) :
          /\ i <= j /\ s = SubSeq(u, i, j)
          /\ u[i] \notin Blanks /\ u[j] \notin Blanks
          /\ \A k \in 1..Len(u) : u[k] \notin Blanks => i <= k /\ k <= j
    BY <1>2, StrippedEnds
<1>4. Len(u) \in Nat /\ i \in Nat /\ j \in Nat /\ 1 <= i /\ j <= Len(u) /\ o \in Nat /\ o + 1 = p
      /\ Len(u) + o = q
    BY <1>1, <1>2
<1>5. /\ s \in Seq(Symbols) /\ Len(s) = j - i + 1
      /\ \A k \in 1..(j - i + 1) : s[k] = u[i + k - 1]
    BY <1>2, <1>3, PartType
<1>6. u[j] # "-"
    <2>1. j - i + 1 \in 1..(j - i + 1) /\ i + (j - i + 1) - 1 = j
        BY <1>3, <1>4
    <2>2. s[j - i + 1] = u[j]
        BY <1>5, <2>1
    <2>3. Last(s) = s[Len(s)]
        BY DEF Last
    <2> QED BY <1>5, <2>2, <2>3
<1> HIDE DEF s
<1>7. \A k \in 1..Len(u) : u[k] = t[k + o]
    <2>1. \A k \in 1..(q - p + 1) : p + k - 1 = k + o
        BY <1>1
    <2> QED BY <1>2, <2>1
<1> HIDE DEF o
<1>8. ASSUME NEW h \in p..q PROVE JoinedTo(t, h) <= q
    <2>1. h \in 1..Len(t) /\ h \in Nat /\ h <= q
        BY <1>1
    <2>2. CASE JoinedTo(t, h) = h
        BY <2>1, <2>2
    <2>3. CASE JoinedTo(t, h) # h
        <3>1. PICK z : NextSolid(t, h, z)
            BY <2>1, <2>3, JoinedIs
        <3>2. JoinedTo(t, h) = z /\ t[h] = "-"
            BY <2>1, <2>3, <3>1, JoinedIs
        <3>3. z \in (h + 1)..Len(t) /\ \A x \in (h + 1)..(z - 1) : t[x] \in Blanks
            BY <3>1 DEF NextSolid
        <3> DEFINE k == h - o
        <3>4. k \in 1..Len(u) /\ k + o = h
            BY <1>4, <2>1
        <3> HIDE DEF k
        <3>5. u[k] = t[h]
            BY <1>7, <3>4
        <3>6. u[k] = "-"
            BY <3>2, <3>5
        <3>7. u[k] \notin Blanks /\ k # j
            BY <1>6, <3>6 DEF Blanks
        <3>8. k <= j
            BY <1>3, <3>4, <3>7
        <3>9. j + o \in (h + 1)..q
            BY <1>4, <3>4, <3>7, <3>8
        <3>10. t[j + o] \notin Blanks
            BY <1>3, <1>7
        <3>11. ~(j + o \in (h + 1)..(z - 1))
            BY <3>3, <3>10
        <3>12. z <= q
            BY <1>1, <2>1, <3>3, <3>9, <3>11
        <3> QED BY <3>2, <3>12
    <2> QED BY <2>2, <2>3
<1>9. Part(t, u, p, q)
    BY <1>8 DEF Part
<1>10. ASSUME NEW h \in i..j PROVE JoinedTo(u, h) <= j
    <2>1. h \in 1..Len(u) /\ h \in Nat /\ h <= j
        BY <1>4
    <2>2. CASE JoinedTo(u, h) = h
        BY <2>1, <2>2
    <2>3. CASE JoinedTo(u, h) # h
        <3>1. PICK z : NextSolid(u, h, z)
            BY <1>2, <2>1, <2>3, JoinedIs
        <3>2. JoinedTo(u, h) = z
            BY <1>2, <2>1, <2>3, <3>1, JoinedIs
        <3>3. z \in (h + 1)..Len(u) /\ u[z] \notin Blanks
            BY <3>1 DEF NextSolid
        <3>4. z \in 1..Len(u)
            BY <1>4, <2>1, <3>3
        <3> QED BY <1>3, <3>2, <3>3, <3>4
    <2> QED BY <2>2, <2>3
<1>11. Part(u, s, i, j)
    <2>1. j \in i..Len(u)
        BY <1>3, <1>4
    <2> QED BY <1>2, <1>3, <1>10, <2>1 DEF Part
<1>12. Solid(s) # {}
    <2>1. Len(Folded(s)) \in Nat /\ Folded(s) # <<>> /\ Folded(s) \in Seq(Folding(s))
        BY <1>5, SaidType DEF s
    <2>2. 1 \in 1..Len(Folded(s))
        <3> DEFINE F == Folding(s)
                   f == Folded(s)
        <3>1. f \in Seq(F) /\ f # <<>>
            BY <2>1
        <3> HIDE DEF F, f
        <3>2. Len(f) \in Nat /\ Len(f) # 0
            BY <3>1
        <3>3. 1 \in 1..Len(f)
            BY <3>2
        <3> QED BY <3>3 DEF f
    <2>3. PICK N : FoldedFrom(s, N)
        BY <1>5, FoldedInOrder
    <2>4. PICK y, k : ComesFrom(s, N, 1, y, k)
        BY <1>5, <2>2, <2>3, FromIs
    <2>5. k \in 1..Len(OfAt(s, y))
        BY <2>4 DEF ComesFrom
    <2>6. CASE Solid(s) = {}
        <3>1. OfAt(s, y) = <<>>
            BY <2>6 DEF OfAt, GapAt
        <3> QED BY <2>5, <3>1
    <2> QED BY <2>6
<1>13. Solid(u) # {}
    <2>1. PICK x \in Solid(s) : TRUE
        BY <1>12
    <2>2. x \in 1..Len(s)
        BY <1>5, <2>1 DEF Solid, Left
    <2>3. x + (i - 1) \in Solid(u)
        BY <1>11, <2>1, <2>2, SolidPart
    <2> QED BY <2>3
<1> QED BY <1>9, <1>13

----------------------------------------------------------------------------
(* Matching.                                                               *)

\* One number or two, in their order.
LEMMA OneOrTwo ==
    ASSUME NEW m \in {1, 2}, NEW f
    PROVE  Those(f, 1..m) = [n \in 1..m |-> f[n]]
<1> DEFINE s == Sorted(1..m)
<1>1. m \in Nat /\ 1..m \subseteq Int /\ IsFiniteSet(1..m) /\ Cardinality(1..m) = m
    <2>1. m \in Nat
        OBVIOUS
    <2> QED BY <2>1, FS_Interval
<1>2. Lists(s, 1..m)
    BY <1>1, SortedLists
<1>3. s \in [1..m -> 1..m] /\ \A i, j \in 1..m : i < j => s[i] < s[j]
    BY <1>1, <1>2 DEF Lists
<1>4. Those(f, 1..m) = [n \in DOMAIN s |-> f[s[n]]]
    BY DEF Those
<1> HIDE DEF s
<1>5. \A n \in 1..m : s[n] = n
    <2>1. CASE m = 1
        <3>1. \A n \in 1..m : s[n] \in 1..1 /\ n = 1
            BY <1>3, <2>1
        <3> QED BY <3>1
    <2>2. CASE m = 2
        <3>1. 1 \in 1..m /\ 2 \in 1..m
            BY <2>2
        <3>2. s[1] \in 1..2 /\ s[2] \in 1..2 /\ s[1] < s[2]
            BY <1>3, <2>2, <3>1
        <3>3. s[1] = 1 /\ s[2] = 2
            BY <3>2
        <3>4. \A n \in 1..m : n = 1 \/ n = 2
            BY <2>2
        <3> QED BY <3>3, <3>4
    <2> QED BY <2>1, <2>2
<1> QED BY <1>3, <1>4, <1>5

IsSpace(x) == x = " "

\* What is looked for begins and ends with something else than a space.
Phrase(c) == c \in Seq(Folds) /\ Len(c) # 0 /\ ~IsSpace(c[1]) /\ ~IsSpace(c[Len(c)])

\* What a part of a quote is folded to, if anything.
Saying(c) == \E u \in Seq(Symbols) : c = Said(u) /\ c # <<>>

\* It is a phrase, and no two spaces follow each other in it.
LEMMA SayingIs ==
    ASSUME NEW c, Saying(c)
    PROVE  /\ Phrase(c) /\ Len(c) \in Nat /\ Len(c) # 0 /\ DOMAIN c = 1..Len(c) /\ c \in Seq(Folds)
           /\ ~IsSpace(c[1]) /\ ~IsSpace(c[Len(c)])
           /\ \A e \in 1..(Len(c) - 1) : ~IsSpace(c[e]) \/ ~IsSpace(c[e + 1])
<1>1. PICK u \in Seq(Symbols) : c = Said(u) /\ c # <<>>
    BY DEF Saying
<1>2. c \in Seq(Folds) /\ Len(c) = Len(Folded(u))
    BY <1>1, SaidType
<1>3. Len(c) \in Nat /\ Len(c) # 0 /\ DOMAIN c = 1..Len(c)
    BY <1>1, <1>2
<1>4. /\ Len(Folded(u)) # 0 => ~IsSpace(Said(u)[1]) /\ ~IsSpace(Said(u)[Len(Folded(u))])
      /\ \A e \in 1..(Len(Folded(u)) - 1) : ~IsSpace(Said(u)[e]) \/ ~IsSpace(Said(u)[e + 1])
    BY NoSpaces DEF IsSpace
<1>5. ~IsSpace(c[1]) /\ ~IsSpace(c[Len(c)])
    BY <1>1, <1>2, <1>3, <1>4
<1>6. \A e \in 1..(Len(c) - 1) : ~IsSpace(c[e]) \/ ~IsSpace(c[e + 1])
    BY <1>1, <1>2, <1>4
<1> QED BY <1>2, <1>3, <1>5, <1>6 DEF Phrase

\* A quote of one part or two, each a text.
Quoted(qs) == \E m \in {1, 2} : qs \in [1..m -> Seq(Symbols)]

\* The fragments of a quote are what its parts are folded to.
LEMMA FragmentsAre ==
    ASSUME NEW qs, Quoted(qs)
    PROVE  LET fr == Fragments(qs)
           IN /\ Len(fr) \in 0..2 /\ DOMAIN fr = 1..Len(fr) /\ (Len(fr) = 0 => fr = <<>>)
              /\ \A n \in 1..Len(fr) : Saying(fr[n])
              /\ (\A n \in DOMAIN qs : Said(qs[n]) # <<>>) =>
                    Len(fr) = Len(qs) /\ \A n \in 1..Len(fr) : fr[n] = Said(qs[n])
<1> DEFINE folded == [n \in DOMAIN qs |-> Chars(Folded(qs[n]))]
           S == {n \in DOMAIN qs : folded[n] # <<>>}
           s == Sorted(S)
           k == Cardinality(S)
           fr == Fragments(qs)
<1>1. PICK m \in {1, 2} : qs \in [1..m -> Seq(Symbols)]
    BY DEF Quoted
<1>2. DOMAIN qs = 1..m /\ \A n \in 1..m : folded[n] = Said(qs[n]) /\ qs[n] \in Seq(Symbols)
    BY <1>1 DEF Said
<1>3. fr = Those(folded, S)
    BY DEF Fragments
<1>4. S \subseteq 1..2 /\ S \subseteq 1..m /\ \A n \in S : Saying(folded[n])
    <2>1. S \subseteq 1..m
        BY <1>2
    <2>2. 1..m \subseteq 1..2
        OBVIOUS
    <2>3. \A n \in S : Saying(folded[n])
        <3> HIDE DEF folded
        <3> QED BY <1>2, <2>1 DEF Saying
    <2> QED BY <2>1, <2>2, <2>3
<1>5. (\A n \in DOMAIN qs : Said(qs[n]) # <<>>) => S = 1..m
    <2> HIDE DEF folded
    <2> QED BY <1>2
<1> HIDE DEF folded, S
<1>6. IsFiniteSet(S) /\ k \in 0..2 /\ (k = 0 => S = {})
    BY <1>4, TwoAtMost
<1>7. Lists(s, S)
    <2>1. S \subseteq Int
        BY <1>4
    <2> QED BY <1>6, <2>1, SortedLists
<1>8. s \in [1..k -> S]
    BY <1>7 DEF Lists
<1>9. fr = [n \in DOMAIN s |-> folded[s[n]]]
    BY <1>3 DEF Those
<1> HIDE DEF s, fr
<1>10. fr = [n \in 1..k |-> folded[s[n]]] /\ k \in Nat
    BY <1>6, <1>8, <1>9
<1> HIDE DEF k
<1>11. Len(fr) = k /\ DOMAIN fr = 1..k /\ \A n \in 1..k : fr[n] = folded[s[n]] /\ s[n] \in S
    BY <1>8, <1>10
<1>12. k = 0 => fr = <<>>
    BY <1>10
<1>13. \A n \in 1..k : Saying(fr[n])
    BY <1>4, <1>11
<1>14. ASSUME \A n \in DOMAIN qs : Said(qs[n]) # <<>>
       PROVE  Len(fr) = Len(qs) /\ \A n \in 1..Len(fr) : fr[n] = Said(qs[n])
    <2>1. S = 1..m
        BY <1>5, <1>14
    <2>2. fr = [n \in 1..m |-> folded[n]]
        BY <1>3, <2>1, OneOrTwo
    <2>3. Len(fr) = m /\ \A n \in 1..m : fr[n] = folded[n]
        <3>1. m \in Nat
            OBVIOUS
        <3> QED BY <2>2, <3>1
    <2>4. Len(qs) = m
        <3>1. m \in Nat
            OBVIOUS
        <3> QED BY <1>1, <3>1
    <2> QED BY <1>2, <2>3, <2>4
<1> QED BY <1>6, <1>11, <1>12, <1>13, <1>14 DEF fr

Spaces(c) == {k \in DOMAIN c : IsSpace(c[k])}

\* A part of a fragment that is left when words are trimmed from its ends
\* begins and ends with something else than a space.
LEMMA TrimmedPhrase ==
    ASSUME NEW c, Saying(c), NEW left \in Nat, NEW right \in Nat,
           left + right < 1 + Cardinality(Spaces(c)),
           Len(Trimmed(c, left, right)) >= MinRun
    PROVE  Phrase(Trimmed(c, left, right))
<1> DEFINE spaces == Spaces(c)
           s == Sorted(spaces)
           n == Cardinality(spaces)
           m == Len(c)
           i == IF left = 0 THEN 1 ELSE s[left] + 1
           j == IF right = 0 THEN m ELSE s[n + 1 - right] - 1
           tr == Trimmed(c, left, right)
<1>1. /\ m \in Nat /\ m # 0 /\ DOMAIN c = 1..m /\ c \in Seq(Folds)
      /\ ~IsSpace(c[1]) /\ ~IsSpace(c[m])
      /\ \A e \in 1..(m - 1) : ~IsSpace(c[e]) \/ ~IsSpace(c[e + 1])
    BY SayingIs
<1>2. IsFiniteSet(spaces) /\ spaces \subseteq Int /\ spaces \subseteq 1..m
    <2>1. spaces \subseteq 1..m /\ IsFiniteSet(1..m)
        BY <1>1, FS_Interval DEF Spaces
    <2> HIDE DEF spaces, m
    <2>2. IsFiniteSet(spaces)
        BY <2>1, FS_Subset
    <2>3. spaces \subseteq Int
        BY <1>1, <2>1
    <2> QED BY <2>1, <2>2, <2>3
<1>3. n \in Nat /\ Lists(s, spaces)
    BY <1>2, SortedLists
<1>4. s \in [1..n -> spaces]
    BY <1>3 DEF Lists
<1>5. DOMAIN s = 1..n
    BY <1>4
<1>14. Len(s) = n
    <2> HIDE DEF s, n, spaces
    <2> QED BY <1>3, <1>4
<1>6. tr = SubSeq(c, i, j)
    BY <1>14 DEF Trimmed, Spaces, IsSpace
<1>15. left + right < 1 + n
    OBVIOUS
<1>7. Len(tr) >= MinRun /\ MinRun \in Nat /\ MinRun # 0
    BY Thresholds
<1>16. \A k \in spaces : k \in 1..m /\ IsSpace(c[k])
    BY <1>2 DEF Spaces
<1>17. ~(1 \in spaces) /\ ~(m \in spaces)
    BY <1>1, <1>16
<1> HIDE DEF spaces, s, n, m, tr
<1>8. i \in 1..m /\ ~IsSpace(c[i])
    <2>1. CASE left = 0
        <3>1. 1 \in 1..m
            BY <1>1
        <3> QED BY <1>1, <2>1, <3>1
    <2>2. CASE left # 0
        <3> DEFINE k == s[left]
        <3>1. left \in 1..n
            BY <1>3, <1>15, <2>2
        <3>2. k \in spaces
            BY <1>4, <3>1
        <3>3. i = k + 1
            BY <2>2
        <3> HIDE DEF k, i
        <3>4. k \in 1..m /\ k # m
            BY <1>16, <1>17, <3>2
        <3>5. k \in 1..(m - 1) /\ k + 1 \in 1..m
            BY <1>1, <3>4
        <3>6. ~IsSpace(c[k + 1])
            BY <1>1, <1>16, <3>2, <3>5
        <3> QED BY <3>3, <3>5, <3>6
    <2> QED BY <2>1, <2>2
<1>9. j \in 1..m /\ ~IsSpace(c[j])
    <2>1. CASE right = 0
        <3>1. m \in 1..m
            BY <1>1
        <3> QED BY <1>1, <2>1, <3>1
    <2>2. CASE right # 0
        <3> DEFINE k == s[n + 1 - right]
        <3>1. n + 1 - right \in 1..n
            BY <1>3, <1>15, <2>2
        <3>2. k \in spaces
            BY <1>4, <3>1
        <3>3. j = k - 1
            BY <2>2
        <3> HIDE DEF k, j
        <3>4. k \in 1..m /\ k # 1
            BY <1>16, <1>17, <3>2
        <3> DEFINE e == k - 1
        <3>5. e \in 1..(m - 1) /\ e \in 1..m /\ e + 1 = k
            BY <1>1, <3>4
        <3> HIDE DEF e
        <3>6. ~IsSpace(c[e])
            BY <1>1, <1>16, <3>2, <3>5
        <3> QED BY <3>3, <3>5, <3>6 DEF e
    <2> QED BY <2>1, <2>2
<1> HIDE DEF i, j
<1>10. c \in Seq(Folds) /\ Len(c) = m
    BY <1>1 DEF m
<1>11. i <= j
    <2> SUFFICES ASSUME j < i PROVE FALSE
        BY <1>8, <1>9
    <2>1. SubSeq(c, i, j) = <<>>
        BY <1>8, <1>9, <1>10, SubSeqProperties
    <2>2. Len(tr) = 0
        BY <1>6, <2>1
    <2> QED BY <1>7, <2>2
<1>12. /\ tr \in Seq(Folds) /\ Len(tr) = j - i + 1
       /\ \A k \in 1..(j - i + 1) : tr[k] = c[i + k - 1]
    BY <1>6, <1>8, <1>9, <1>10, <1>11, PartType
<1>13. ~IsSpace(tr[1]) /\ ~IsSpace(tr[Len(tr)]) /\ Len(tr) # 0
    <2> DEFINE r == j - i + 1
    <2>1. 1 \in 1..r /\ r \in 1..r /\ i + 1 - 1 = i /\ i + r - 1 = j /\ r # 0
        BY <1>8, <1>9, <1>11
    <2>2. tr[1] = c[i] /\ tr[r] = c[j] /\ Len(tr) = r
        BY <1>12, <2>1
    <2> HIDE DEF r
    <2> QED BY <1>8, <1>9, <2>1, <2>2
<1> QED BY <1>12, <1>13 DEF Phrase, tr

\* What s is found as, in a folded text.
HitOf(folded, s) == Span(folded, Find(Chars(folded), s, 1), Len(s))

\* The ways a fragment is looked for: the whole of it, or a part that begins
\* and ends with something else than a space.
LEMMA TrimWays ==
    ASSUME NEW c, Saying(c), NEW folded
    PROVE  /\ Find(Chars(folded), c, 1) # 0 => FindWithTrim(c, folded) = <<HitOf(folded, c)>>
           /\ \/ FindWithTrim(c, folded) = <<>>
              \/ \E s : Phrase(s) /\ Find(Chars(folded), s, 1) # 0
                        /\ FindWithTrim(c, folded) = <<HitOf(folded, s)>>
<1> DEFINE source == Chars(folded)
           words == 1 + Cardinality({k \in DOMAIN c : c[k] = " "})
           Rest(x) == Trimmed(c, x[2], x[1] - x[2])
           Allowed(x) == /\ x[1] - x[2] \in 0..MaxTrim /\ x[1] < words
                         /\ Len(Rest(x)) >= MinRun
                         /\ Find(source, Rest(x), 1) # 0
           trims == {x \in (1..(2 * MaxTrim)) \X (0..MaxTrim) : Allowed(x)}
           Before(x, y) == x[1] < y[1] \/ (x[1] = y[1] /\ x[2] <= y[2])
           w == CHOOSE x \in trims : \A y \in trims : Before(x, y)
<1>1. FindWithTrim(c, folded) =
         IF Find(source, c, 1) # 0 THEN <<HitOf(folded, c)>>
         ELSE IF words < MinWords \/ trims = {} THEN <<>>
         ELSE <<HitOf(folded, Rest(w))>>
    BY DEF FindWithTrim, HitOf
<1>2. Phrase(c)
    BY SayingIs
<1>3. words = 1 + Cardinality(Spaces(c))
    BY DEF Spaces, IsSpace
<1>4. MaxTrim \in Nat
    BY Thresholds
<1> HIDE DEF words, Rest
<1>5. ASSUME trims # {} PROVE w \in trims
    <2> DEFINE firsts == {x[1] : x \in trims}
               a == Min(firsts)
               seconds == {x[2] : x \in {x \in trims : x[1] = a}}
               b == Min(seconds)
    <2>1. \A x \in trims : x = <<x[1], x[2]>> /\ x[1] \in Nat /\ x[2] \in Nat
        BY <1>4
    <2> HIDE DEF trims
    <2>2. firsts \subseteq Nat /\ firsts # {}
        BY <1>5, <2>1
    <2>3. a \in firsts /\ \A y \in firsts : a <= y
        BY <2>2, MinIn
    <2> HIDE DEF a
    <2>4. seconds \subseteq Nat /\ seconds # {}
        BY <2>1, <2>3
    <2>5. b \in seconds /\ \A y \in seconds : b <= y
        BY <2>4, MinIn
    <2> HIDE DEF b
    <2>6. PICK x \in trims : x[1] = a /\ x[2] = b
        BY <2>5
    <2>7. ASSUME NEW y \in trims PROVE Before(x, y)
        <3>1. a <= y[1] /\ a \in Nat /\ y[1] \in Nat
            BY <2>1, <2>2, <2>3
        <3>2. y[1] = a => b <= y[2]
            BY <2>5
        <3> QED BY <2>6, <3>1, <3>2
    <2> HIDE DEF Before
    <2> QED BY <2>6, <2>7
<1>6. ASSUME trims # {} PROVE Phrase(Rest(w)) /\ Find(source, Rest(w), 1) # 0
    <2>1. w \in trims
        BY <1>5, <1>6
    <2> HIDE DEF w
    <2>2. w \in (1..(2 * MaxTrim)) \X (0..MaxTrim) /\ Allowed(w)
        BY <2>1
    <2> DEFINE l == w[2]
               r == w[1] - w[2]
    <2>3. l \in Nat /\ r \in Nat /\ l + r = w[1]
        BY <1>4, <2>2
    <2>4. l + r < words /\ Rest(w) = Trimmed(c, l, r)
        BY <2>2, <2>3 DEF Rest
    <2>5. Len(Rest(w)) >= MinRun /\ Find(source, Rest(w), 1) # 0
        BY <2>2
    <2> HIDE DEF l, r
    <2>6. Phrase(Trimmed(c, l, r))
        BY <1>3, <2>3, <2>4, <2>5, TrimmedPhrase
    <2> QED BY <2>4, <2>5, <2>6
<1> HIDE DEF trims, w
<1>7. CASE Find(source, c, 1) # 0
    <2>1. FindWithTrim(c, folded) = <<HitOf(folded, c)>>
        BY <1>1, <1>7
    <2> QED BY <1>2, <1>7, <2>1
<1>8. CASE ~(Find(source, c, 1) # 0)
    <2>1. CASE words < MinWords \/ trims = {}
        BY <1>1, <1>8, <2>1
    <2>2. CASE ~(words < MinWords \/ trims = {})
        <3>1. FindWithTrim(c, folded) = <<HitOf(folded, Rest(w))>>
            BY <1>1, <1>8, <2>2
        <3> QED BY <1>6, <1>8, <2>2, <3>1
    <2> QED BY <2>1, <2>2
<1> QED BY <1>7, <1>8

\* Stretches of a text, as spans.
Spans(t) == [from : 1..Len(t), to : 1..Len(t)]

\* What a pass over the fragments knows.
Seeking(t) == [spans : Seq(Spans(t)), next : Nat \ {0}, all : BOOLEAN]

\* What is found is a span of the text.
LEMMA FoundSpan ==
    ASSUME NEW t \in Seq(Symbols), NEW c, Phrase(c), NEW next \in Nat \ {0},
           Find(Said(t), c, next) # 0
    PROVE  LET p == Find(Said(t), c, next)
           IN /\ p \in Nat /\ p # 0 /\ next <= p /\ Len(c) \in Nat /\ Len(c) # 0
              /\ p \in 1..Len(Folded(t)) /\ p + Len(c) - 1 \in 1..Len(Folded(t))
              /\ StandsAt(Said(t), c, p)
              /\ Span(Folded(t), p, Len(c)) \in Spans(t)
<1> DEFINE p == Find(Said(t), c, next)
           n == Len(c)
           l == p + n - 1
<1>1. c \in Seq(Folds) /\ n # 0 /\ n \in Nat
    <2>1. c \in Seq(Folds) /\ n # 0
        BY DEF Phrase
    <2> QED BY <2>1
<1>2. /\ Said(t) \in Seq(Folds) /\ Len(Said(t)) = Len(Folded(t)) /\ Len(Folded(t)) \in Nat
      /\ \A e \in 1..Len(Folded(t)) : Folded(t)[e].from \in 1..Len(t)
    BY SaidType
<1>3. p \in Nat /\ next <= p /\ p + n <= Len(Said(t)) + 1 /\ StandsAt(Said(t), c, p)
    BY <1>1, <1>2, FindFirst
<1> HIDE DEF p, n
<1>4. p \in 1..Len(Folded(t)) /\ l \in 1..Len(Folded(t)) /\ p # 0
    BY <1>1, <1>2, <1>3
<1>5. Span(Folded(t), p, n) \in Spans(t)
    <2>1. Folded(t)[p].from \in 1..Len(t) /\ Folded(t)[l].from \in 1..Len(t)
        BY <1>2, <1>4
    <2> HIDE DEF l
    <2>2. [from |-> Folded(t)[p].from, to |-> Folded(t)[l].from] \in Spans(t)
        BY <2>1 DEF Spans
    <2> QED BY <2>2 DEF Span, l
<1> QED BY <1>1, <1>3, <1>4, <1>5 DEF p, n

\* One more fragment.
LEMMA FindNextType ==
    ASSUME NEW t \in Seq(Symbols), NEW c, Phrase(c), NEW acc \in Seeking(t)
    PROVE  FindNext(Folded(t), acc, c) \in Seeking(t)
<1> DEFINE p == Find(Said(t), c, acc.next)
           sp == Span(Folded(t), p, Len(c))
<1>1. acc.spans \in Seq(Spans(t)) /\ acc.next \in Nat \ {0}
    BY DEF Seeking
<1>2. FindNext(Folded(t), acc, c) =
         IF ~acc.all \/ p = 0 THEN [acc EXCEPT !.all = FALSE]
         ELSE [acc EXCEPT !.spans = Append(@, sp), !.next = p + Len(c)]
    BY DEF FindNext, Said
<1>3. p # 0 => p + Len(c) \in Nat \ {0} /\ sp \in Spans(t)
    <2> SUFFICES ASSUME p # 0 PROVE p + Len(c) \in Nat \ {0} /\ sp \in Spans(t)
        OBVIOUS
    <2>1. p \in Nat /\ p # 0 /\ Len(c) \in Nat /\ sp \in Spans(t)
        BY <1>1, FoundSpan
    <2> HIDE DEF p, sp
    <2>2. p + Len(c) \in Nat \ {0}
        BY <2>1
    <2> QED BY <2>1, <2>2
<1> HIDE DEF p, sp
<1>4. CASE ~acc.all \/ p = 0
    BY <1>2, <1>4 DEF Seeking
<1>5. CASE ~(~acc.all \/ p = 0)
    <2> DEFINE e == p + Len(c)
    <2>1. FindNext(Folded(t), acc, c) = [acc EXCEPT !.spans = Append(@, sp), !.next = e]
        BY <1>2, <1>5
    <2>2. e \in Nat \ {0} /\ Append(acc.spans, sp) \in Seq(Spans(t))
        BY <1>1, <1>3, <1>5
    <2> HIDE DEF e
    <2> QED BY <2>1, <2>2 DEF Seeking
<1> QED BY <1>4, <1>5

FirstSeeking == [spans |-> <<>>, next |-> 1, all |-> TRUE]

SeekFold(folded, fr, h) ==
    h = [s \in SUBSET DOMAIN fr |->
            IF s = {} THEN FirstSeeking ELSE FindNext(folded, h[s \ {Max(s)}], fr[Max(s)])]

\* The pass over two fragments, step by step.
LEMMA SeekSteps ==
    ASSUME NEW t \in Seq(Symbols), NEW fr, Len(fr) = 2, DOMAIN fr = 1..2,
           \A n \in 1..2 : Phrase(fr[n])
    PROVE  LET end == FindNext(Folded(t), FindNext(Folded(t), FirstSeeking, fr[1]), fr[2])
           IN InOrder(fr, Folded(t)) = IF end.all THEN end.spans ELSE <<>>
<1> DEFINE n == 2
           op == [x \in (1..n) \X Seeking(t) |-> FindNext(Folded(t), x[2], fr[x[1]])]
           it == CHOOSE h : SeekFold(Folded(t), fr, h)
<1>1. n \in Nat /\ DOMAIN fr = 1..n /\ \A i \in 1..n : Phrase(fr[i])
    OBVIOUS
<1>2. op \in [(1..n) \X Seeking(t) -> Seeking(t)]
    BY <1>1, FindNextType
<1>3. FirstSeeking \in Seeking(t)
    BY DEF Seeking, FirstSeeking
<1>10. n = 2
    OBVIOUS
<1> HIDE DEF n, op
<1>4. \E h : SeekFold(Folded(t), fr, h)
    <2>1. PICK h : IsLeftFold(h, n, Seeking(t), FirstSeeking, op)
        BY <1>1, <1>2, <1>3, LeftFoldExists
    <2>2. \A s \in SUBSET (1..n) :
              h[s] = IF s = {} THEN FirstSeeking ELSE FindNext(Folded(t), h[s \ {Max(s)}], fr[Max(s)])
        BY <2>1 DEF op, IsLeftFold
    <2>3. h = [s \in SUBSET (1..n) |-> h[s]]
        BY <2>1 DEF IsLeftFold
    <2>4. h = [s \in SUBSET (1..n) |->
                IF s = {} THEN FirstSeeking ELSE FindNext(Folded(t), h[s \ {Max(s)}], fr[Max(s)])]
        BY <2>2, <2>3
    <2>5. SeekFold(Folded(t), fr, h)
        BY <1>1, <2>4 DEF SeekFold
    <2> QED BY <2>5
<1>5. SeekFold(Folded(t), fr, it)
    BY <1>4
<1>8. InOrder(fr, Folded(t)) = IF it[1..n].all THEN it[1..n].spans ELSE <<>>
    BY <1>1, <1>10 DEF InOrder, it, SeekFold, FirstSeeking, FoldLeft, MapThenFoldSet
<1> HIDE DEF it
<1>6. it[1..0] = FirstSeeking
    BY <1>1, <1>5 DEF SeekFold
<1>7. ASSUME NEW k \in 0..(n - 1)
      PROVE  it[1..(k + 1)] = FindNext(Folded(t), it[1..k], fr[k + 1])
    <2>1. Max(1..(k + 1)) = k + 1 /\ (1..(k + 1)) \ {Max(1..(k + 1))} = 1..k
        BY <1>1, MaxOfInterval
    <2>2. 1..(k + 1) \in SUBSET (1..n) /\ 1..(k + 1) # {}
        <3>1. k + 1 \in 1..(k + 1) /\ \A i \in 1..(k + 1) : i \in 1..n
            BY <1>1
        <3> QED BY <3>1
    <2> QED BY <1>1, <1>5, <2>1, <2>2 DEF SeekFold
<1>9. it[1..1] = FindNext(Folded(t), FirstSeeking, fr[1]) /\ it[1..2] = FindNext(Folded(t), it[1..1], fr[2])
    <2>1. 0 \in 0..(n - 1) /\ 1 \in 0..(n - 1)
        BY <1>10
    <2>2. it[1..(0 + 1)] = FindNext(Folded(t), it[1..0], fr[0 + 1])
        BY <1>7, <2>1
    <2>3. it[1..(1 + 1)] = FindNext(Folded(t), it[1..1], fr[1 + 1])
        BY <1>7, <2>1
    <2>4. 0 + 1 = 1 /\ 1 + 1 = 2
        OBVIOUS
    <2> QED BY <1>6, <2>2, <2>3, <2>4
<1> QED BY <1>8, <1>9, <1>10

\* Two fragments are found where the first one is, and where the second one is
\* after it, or not at all.
LEMMA SeekTwo ==
    ASSUME NEW t \in Seq(Symbols), NEW fr, Len(fr) = 2, DOMAIN fr = 1..2,
           \A n \in 1..2 : Phrase(fr[n])
    PROVE  LET p1 == Find(Said(t), fr[1], 1)
               p2 == Find(Said(t), fr[2], p1 + Len(fr[1]))
           IN InOrder(fr, Folded(t)) =
                 IF p1 = 0 \/ p2 = 0 THEN <<>>
                 ELSE <<Span(Folded(t), p1, Len(fr[1])), Span(Folded(t), p2, Len(fr[2]))>>
<1> DEFINE p1 == Find(Said(t), fr[1], 1)
           e1 == p1 + Len(fr[1])
           p2 == Find(Said(t), fr[2], e1)
           s1 == Span(Folded(t), p1, Len(fr[1]))
           s2 == Span(Folded(t), p2, Len(fr[2]))
           one == FindNext(Folded(t), FirstSeeking, fr[1])
           end == FindNext(Folded(t), one, fr[2])
<1>1. InOrder(fr, Folded(t)) = IF end.all THEN end.spans ELSE <<>>
    BY SeekSteps
<1>2. (p1 = 0 => one.all = FALSE) /\ (p1 # 0 => one.spans = <<s1>> /\ one.next = e1 /\ one.all = TRUE)
    <2> DEFINE acc == FirstSeeking
               q == Find(Said(t), fr[1], acc.next)
               sp == Span(Folded(t), q, Len(fr[1]))
    <2>1. one = IF ~acc.all \/ q = 0 THEN [acc EXCEPT !.all = FALSE]
                ELSE [acc EXCEPT !.spans = Append(@, sp), !.next = q + Len(fr[1])]
        BY DEF FindNext, Said
    <2>2. acc.next = 1 /\ acc.all = TRUE /\ acc.spans = <<>> /\ DOMAIN acc = {"spans", "next", "all"}
        BY DEF FirstSeeking
    <2>3. q = p1 /\ sp = s1
        BY <2>2
    <2>4. Append(acc.spans, s1) = <<s1>>
        BY <2>2, AppendTwo
    <2> HIDE DEF q, sp, s1, p1, acc, one
    <2>5. CASE p1 = 0
        BY <2>1, <2>2, <2>3, <2>5
    <2>6. CASE p1 # 0
        <3>1. one = [acc EXCEPT !.spans = Append(@, s1), !.next = e1]
            BY <2>1, <2>2, <2>3, <2>6
        <3> HIDE DEF e1
        <3> QED BY <2>2, <2>4, <2>6, <3>1
    <2> QED BY <2>5, <2>6
<1>3. end = IF ~one.all \/ Find(Said(t), fr[2], one.next) = 0 THEN [one EXCEPT !.all = FALSE]
            ELSE [one EXCEPT !.spans = Append(@, Span(Folded(t), Find(Said(t), fr[2], one.next), Len(fr[2]))),
                             !.next = Find(Said(t), fr[2], one.next) + Len(fr[2])]
    BY DEF FindNext, Said
<1> HIDE DEF one, end
<1>4. CASE p1 = 0
    <2> HIDE DEF p1, e1, s1
    <2>1. one.all = FALSE
        BY <1>2, <1>4
    <2>2. end.all = FALSE
        BY <1>3, <2>1
    <2> QED BY <1>1, <1>4, <2>2 DEF p1
<1>5. CASE p1 # 0 /\ p2 = 0
    <2>3. p2 = 0
        BY <1>5
    <2> HIDE DEF p1, e1, s1
    <2>4. one.next = e1 /\ one.all = TRUE
        BY <1>2, <1>5 DEF p1
    <2>2. end.all = FALSE
        BY <1>3, <2>3, <2>4
    <2> QED BY <1>1, <2>2, <2>3 DEF e1, p1
<1>6. CASE p1 # 0 /\ p2 # 0
    <2>3. p2 # 0 /\ p1 # 0
        BY <1>6
    <2> HIDE DEF p1, e1, s1
    <2>4. one.next = e1 /\ one.all = TRUE /\ one.spans = <<s1>>
        BY <1>2, <1>6 DEF p1
    <2> DEFINE e2 == p2 + Len(fr[2])
    <2>5. end = [one EXCEPT !.spans = Append(@, s2), !.next = e2]
        BY <1>3, <2>3, <2>4
    <2> HIDE DEF s2, e2
    <2>6. Append(<<s1>>, s2) = <<s1, s2>>
        BY AppendTwo
    <2>2. end.all = TRUE /\ end.spans = <<s1, s2>>
        BY <2>4, <2>5, <2>6
    <2>7. InOrder(fr, Folded(t)) = <<s1, s2>>
        BY <1>1, <2>2
    <2> QED BY <2>3, <2>7 DEF p1, e1, s1, s2
<1> QED BY <1>4, <1>5, <1>6

\* The ways a quote is looked for: one of its fragments, or two in their order.
LEMMA MatchWays ==
    ASSUME NEW qs, Quoted(qs), NEW folded
    PROVE  LET fr == Fragments(qs)
               ms == MatchSpans(qs, folded)
           IN /\ \/ fr = <<>> /\ ms = <<>>
                 \/ \E n \in 1..Len(fr) : ms = FindWithTrim(fr[n], folded)
                 \/ Len(fr) = 2 /\ (\A n \in 1..2 : Len(fr[n]) >= MinFragment) /\ ms = InOrder(fr, folded)
              /\ Len(fr) = 1 => ms = FindWithTrim(fr[1], folded)
              /\ Len(fr) = 2 /\ (\A n \in 1..2 : Len(fr[n]) >= MinFragment) =>
                    ms = InOrder(fr, folded)
<1> DEFINE fr == Fragments(qs)
           ms == MatchSpans(qs, folded)
           m == Len(fr)
           B == {n \in DOMAIN fr : Len(fr[n]) >= MinFragment}
           S == {n \in DOMAIN fr : \A k \in DOMAIN fr : Len(fr[k]) <= Len(fr[n])}
           sub == Those(fr, B)
           lo == fr[Min(S)]
           two == \A n \in 1..2 : Len(fr[n]) >= MinFragment
<1>1. ms = IF fr = <<>> THEN <<>>
           ELSE IF m = 1 \/ Len(sub) < 2 THEN FindWithTrim(lo, folded)
           ELSE InOrder(sub, folded)
    BY DEF MatchSpans
<1>2. /\ m \in 0..2 /\ DOMAIN fr = 1..m /\ (m = 0 => fr = <<>>)
      /\ \A n \in 1..m : Saying(fr[n])
    BY FragmentsAre
<1>3. \A n \in 1..m : Len(fr[n]) \in Nat
    <2> SUFFICES ASSUME NEW n \in 1..m PROVE Len(fr[n]) \in Nat
        OBVIOUS
    <2>1. Saying(fr[n])
        BY <1>2
    <2> HIDE DEF fr
    <2> QED BY <2>1, SayingIs
<1>4. fr = [n \in DOMAIN fr |-> fr[n]]
    BY DEF Fragments, Those
<1> HIDE DEF fr, ms
<1>5. B \subseteq 1..2 /\ (m = 2 => (B = 1..2 <=> two))
    <2>1. 1..m \subseteq 1..2 /\ (m = 2 => 1..m = 1..2)
        BY <1>2
    <2> HIDE DEF m
    <2> QED BY <1>2, <2>1
<1>6. m # 2 => B # 1..2
    <2> SUFFICES ASSUME m # 2 PROVE ~(2 \in B)
        OBVIOUS
    <2> QED BY <1>2
<1> HIDE DEF B
<1>7. Len(sub) \in 0..2 /\ (Len(sub) = 2 <=> B = 1..2)
    <2> DEFINE s == Sorted(B)
               c == Cardinality(B)
    <2>1. IsFiniteSet(B) /\ c \in 0..2 /\ (c = 2 => B = 1..2)
        BY <1>5, TwoAtMost
    <2>2. B \subseteq Int
        BY <1>5
    <2>3. Lists(s, B)
        BY <2>1, <2>2, SortedLists
    <2>4. s \in [1..c -> B]
        BY <2>3 DEF Lists
    <2>5. sub = [n \in DOMAIN s |-> fr[s[n]]]
        BY DEF Those
    <2>6. B = 1..2 => c = 2
        <3> DEFINE k == 2
        <3>1. 1 \in Int /\ k \in Int /\ k \in Nat
            OBVIOUS
        <3> HIDE DEF k
        <3>2. Cardinality(1..k) = k
            BY <3>1, FS_Interval
        <3> QED BY <3>2 DEF k
    <2> HIDE DEF s, c, sub
    <2>7. Len(sub) = c
        <3>1. c \in Nat
            BY <2>1
        <3>2. sub = [n \in 1..c |-> fr[s[n]]]
            BY <2>4, <2>5
        <3> QED BY <3>1, <3>2
    <2> QED BY <2>1, <2>6, <2>7 DEF sub
<1>8. m = 2 /\ B = 1..2 => sub = fr
    <2> SUFFICES ASSUME m = 2, B = 1..2 PROVE sub = fr
        OBVIOUS
    <2>1. fr = [n \in 1..2 |-> fr[n]]
        BY <1>2, <1>4
    <2> DEFINE k == 2
    <2>2. k \in {1, 2}
        OBVIOUS
    <2> HIDE DEF k
    <2>3. Those(fr, 1..k) = [n \in 1..k |-> fr[n]]
        BY <2>2, OneOrTwo
    <2> QED BY <2>1, <2>3 DEF k
<1>9. m # 0 => Min(S) \in 1..m
    <2> SUFFICES ASSUME m # 0 PROVE Min(S) \in 1..m
        OBVIOUS
    <2>1. S \subseteq 1..m
        BY <1>2
    <2>2. S # {}
        <3>1. CASE m = 1
            <4>1. \A k \in 1..m : k = 1
                BY <3>1
            <4>2. 1 \in 1..m /\ Len(fr[1]) <= Len(fr[1])
                BY <1>3, <3>1
            <4>3. 1 \in S
                <5> HIDE DEF m
                <5> QED BY <1>2, <4>1, <4>2
            <4> QED BY <4>3
        <3>2. CASE m = 2
            <4> DEFINE a == Len(fr[1])
                       b == Len(fr[2])
            <4>1. 1 \in 1..m /\ 2 \in 1..m /\ \A k \in 1..m : k = 1 \/ k = 2
                BY <3>2
            <4>2. a \in Nat /\ b \in Nat
                BY <1>3, <4>1
            <4> HIDE DEF m
            <4>3. CASE b <= a
                <5>1. a <= a
                    BY <4>2
                <5>2. 1 \in S
                    BY <1>2, <4>1, <4>3, <5>1
                <5> QED BY <5>2
            <4>4. CASE a <= b
                <5>1. b <= b
                    BY <4>2
                <5>2. 2 \in S
                    BY <1>2, <4>1, <4>4, <5>1
                <5> QED BY <5>2
            <4> HIDE DEF a, b
            <4> QED BY <4>2, <4>3, <4>4
        <3>3. m \in 0..2 /\ m # 0
            BY <1>2
        <3> HIDE DEF m, S
        <3>4. m = 1 \/ m = 2
            BY <3>3
        <3> QED BY <3>1, <3>2, <3>4
    <2>3. 1..m \subseteq Nat
        BY <1>2
    <2> HIDE DEF S
    <2>4. S \subseteq Nat
        BY <2>1, <2>3
    <2> QED BY <2>1, <2>2, <2>4, MinIn
<1> HIDE DEF S, sub
<1>10. fr # <<>> => m # 0
    BY <1>2
<1>11. m # 0 => fr # <<>>
    <2>1. fr = <<>> => Len(fr) = 0
        OBVIOUS
    <2> QED BY <2>1
<1>12. m = 1 => Min(S) = 1
    BY <1>9
<1>13. CASE fr = <<>>
    <2>1. m = 0
        BY <1>11, <1>13
    <2>2. ms = <<>>
        BY <1>1, <1>13
    <2> QED BY <1>13, <2>1, <2>2 DEF ms, fr
<1>14. CASE fr # <<>> /\ m = 1
    <2>1. ms = FindWithTrim(fr[1], folded)
        BY <1>1, <1>12, <1>14
    <2>2. 1 \in 1..m
        BY <1>14
    <2> QED BY <1>14, <2>1, <2>2 DEF ms, fr
<1>15. CASE fr # <<>> /\ m = 2
    <2>1. CASE two
        <3>1. B = 1..2
            BY <1>5, <1>15, <2>1
        <3>2. ms = InOrder(fr, folded)
            BY <1>1, <1>7, <1>8, <1>15, <3>1
        <3> QED BY <1>15, <2>1, <3>2 DEF ms, fr
    <2>2. CASE ~two
        <3>1. B # 1..2
            BY <1>5, <1>15, <2>2
        <3>2. Len(sub) < 2
            BY <1>7, <3>1
        <3>3. ms = FindWithTrim(lo, folded) /\ Min(S) \in 1..m
            BY <1>1, <1>9, <1>15, <3>2
        <3> QED BY <1>15, <2>2, <3>3 DEF ms, fr
    <2> QED BY <2>1, <2>2
<1>16. fr # <<>> => m = 1 \/ m = 2
    BY <1>2, <1>10
<1> QED BY <1>13, <1>14, <1>15, <1>16

----------------------------------------------------------------------------
(* A faithful quote is found.                                              *)

\* The characters c stand at a place of the folded text, all of them from the
\* positions p to q of the text.
Holding(t, c, p, q, at) ==
    /\ c \in Seq(Folds) /\ Len(c) # 0
    /\ at \in Nat \ {0} /\ at + Len(c) <= Len(Said(t)) + 1
    /\ StandsAt(Said(t), c, at)
    /\ Folded(t)[at].from \in p..q /\ Folded(t)[at + Len(c) - 1].from \in p..q

\* What a part of a text is folded to stands where the part does.
LEMMA PartHeld ==
    ASSUME NEW t, NEW u, NEW p, NEW q, Part(t, u, p, q), Solid(u) # {}
    PROVE  \E at : Holding(t, Said(u), p, q, at)
<1>1. PICK at : FoldedThere(t, u, p, q, at)
    BY FoldedPart
<1> DEFINE m == Len(Folded(u))
           o == p - 1
<1>2. /\ t \in Seq(Symbols) /\ u \in Seq(Symbols)
      /\ p \in Nat /\ q \in Nat /\ Len(u) = q - p + 1
    BY PartIs
<1>3. /\ at \in Nat /\ at # 0 /\ Len(Said(u)) \in Nat /\ Len(Said(u)) # 0
      /\ at + Len(Said(u)) <= Len(Said(t)) + 1
      /\ StandsAt(Said(t), Said(u), at)
    BY <1>1, <1>2, SaidThere
<1>4. /\ Said(u) \in Seq(Folds) /\ Len(Said(u)) = m
      /\ \A e \in 1..m : Folded(u)[e].from \in 1..Len(u)
    BY <1>2, SaidType
<1>5. \A e \in 1..m : Folded(t)[at + e - 1].from = Folded(u)[e].from + o
    BY <1>1 DEF FoldedThere
<1>6. m \in Nat /\ m # 0 /\ o \in Int /\ o = p - 1
    BY <1>2, <1>3, <1>4
<1> HIDE DEF m, o
<1>7. \A e \in 1..m : Folded(t)[at + e - 1].from \in p..q
    <2> SUFFICES ASSUME NEW e \in 1..m PROVE Folded(t)[at + e - 1].from \in p..q
        OBVIOUS
    <2> DEFINE y == Folded(u)[e].from
    <2>1. y \in 1..(q - p + 1) /\ Folded(t)[at + e - 1].from = y + o
        BY <1>2, <1>4, <1>5
    <2> HIDE DEF y
    <2>2. y + o \in p..q
        BY <1>2, <1>6, <2>1
    <2> QED BY <2>1, <2>2
<1>8. 1 \in 1..m /\ m \in 1..m /\ at + 1 - 1 = at
    BY <1>3, <1>6
<1>9. Folded(t)[at].from \in p..q /\ Folded(t)[at + m - 1].from \in p..q
    BY <1>7, <1>8
<1>10. Holding(t, Said(u), p, q, at)
    BY <1>3, <1>4, <1>9 DEF Holding
<1> QED BY <1>10

\* What stands somewhere is found there or before.
LEMMA HeldFound ==
    ASSUME NEW t \in Seq(Symbols), NEW c, NEW p, NEW q, NEW at, Holding(t, c, p, q, at),
           NEW next \in Nat \ {0}, next <= at
    PROVE  /\ Find(Said(t), c, next) \in Nat
           /\ Find(Said(t), c, next) # 0 /\ Find(Said(t), c, next) <= at
<1>1. Said(t) \in Seq(Folds)
    BY SaidType
<1>2. /\ c \in Seq(Folds) /\ at \in Nat /\ at + Len(c) <= Len(Said(t)) + 1
      /\ StandsAt(Said(t), c, at)
    BY DEF Holding
<1> QED BY <1>1, <1>2, FindFirst

\* What comes from earlier positions stands before what comes from later ones.
LEMMA HeldInOrder ==
    ASSUME NEW t \in Seq(Symbols),
           NEW c, NEW p \in Int, NEW q \in Int, NEW at, Holding(t, c, p, q, at),
           NEW d, NEW r \in Int, NEW s \in Int, NEW to, Holding(t, d, r, s, to),
           q < r
    PROVE  at + Len(c) <= to
<1> DEFINE l == at + Len(c) - 1
           n == Len(Folded(t))
           x == Folded(t)[l].from
           y == Folded(t)[to].from
<1>1. n \in Nat /\ Len(Said(t)) = n
    BY SaidType
<1>2. Len(c) \in Nat /\ Len(c) # 0 /\ Len(d) \in Nat /\ Len(d) # 0
    BY DEF Holding
<1>3. at \in Nat \ {0} /\ to \in Nat \ {0} /\ at + Len(c) <= n + 1 /\ to + Len(d) <= n + 1
    BY <1>1 DEF Holding
<1>4. x \in p..q /\ y \in r..s
    BY DEF Holding
<1> HIDE DEF x, y, n
<1>5. l \in 1..n /\ to \in 1..n /\ l \in Int
    BY <1>1, <1>2, <1>3
<1>6. to <= l => y <= x
    <2> HIDE DEF l
    <2> QED BY <1>5, FromInOrder DEF x, y, n
<1>7. ~(to <= l)
    BY <1>4, <1>6
<1> QED BY <1>2, <1>3, <1>5, <1>7

\* A quote all whose parts stand in the text, one after the other, is found.
LEMMA QuoteFound ==
    ASSUME NEW t \in Seq(Symbols), NEW qs,
           \/ /\ qs \in [1..1 -> Seq(Symbols)]
              /\ \E p, q \in Int : \E at : Holding(t, Said(qs[1]), p, q, at)
           \/ /\ qs \in [1..2 -> Seq(Symbols)]
              /\ \E p, q, r, s \in Int :
                    /\ q < r
                    /\ \E at : Holding(t, Said(qs[1]), p, q, at)
                    /\ \E to : Holding(t, Said(qs[2]), r, s, to)
    PROVE  MatchSpans(qs, Folded(t)) # <<>>
<1> DEFINE m == Len(qs)
           fr == Fragments(qs)
           ms == MatchSpans(qs, Folded(t))
<1>10. ASSUME NEW k \in {1, 2}, qs \in [1..k -> Seq(Symbols)] PROVE DOMAIN qs = 1..k /\ m = k
    <2>1. k \in Nat
        OBVIOUS
    <2> QED BY <1>10, <2>1
<1>11. /\ qs \in [1..1 -> Seq(Symbols)] => m = 1
       /\ qs \in [1..2 -> Seq(Symbols)] => m = 2
    <2>1. 1 \in {1, 2} /\ 2 \in {1, 2}
        OBVIOUS
    <2> HIDE DEF m
    <2> QED BY <1>10, <2>1
<1>1. Quoted(qs) /\ DOMAIN qs = 1..m /\ m \in {1, 2}
    <2>2. PICK k \in {1, 2} : qs \in [1..k -> Seq(Symbols)]
        OBVIOUS
    <2>3. DOMAIN qs = 1..k /\ m = k
        BY <1>10, <2>2
    <2> HIDE DEF m
    <2> QED BY <2>2, <2>3 DEF Quoted
<1>2. ASSUME NEW n \in 1..m PROVE \E p, q \in Int : \E at : Holding(t, Said(qs[n]), p, q, at)
    <2>1. CASE qs \in [1..1 -> Seq(Symbols)] /\ \E p, q \in Int : \E at : Holding(t, Said(qs[1]), p, q, at)
        <3>1. n = 1
            <4>1. m = 1
                BY <1>11, <2>1
            <4> HIDE DEF m
            <4> QED BY <4>1
        <3> QED BY <2>1, <3>1
    <2>2. CASE /\ qs \in [1..2 -> Seq(Symbols)]
               /\ \E p, q, r, s \in Int :
                    /\ q < r
                    /\ \E at : Holding(t, Said(qs[1]), p, q, at)
                    /\ \E to : Holding(t, Said(qs[2]), r, s, to)
        <3>1. n = 1 \/ n = 2
            <4>1. m = 2
                BY <1>11, <2>2
            <4> HIDE DEF m
            <4> QED BY <4>1
        <3>2. PICK p, q, r, s \in Int :
                    /\ q < r
                    /\ \E at : Holding(t, Said(qs[1]), p, q, at)
                    /\ \E to : Holding(t, Said(qs[2]), r, s, to)
            BY <2>2
        <3> QED BY <3>1, <3>2
    <2> QED BY <2>1, <2>2
<1>3. \A n \in 1..m : Said(qs[n]) # <<>> /\ Find(Said(t), Said(qs[n]), 1) # 0
    <2> SUFFICES ASSUME NEW n \in 1..m PROVE Said(qs[n]) # <<>> /\ Find(Said(t), Said(qs[n]), 1) # 0
        OBVIOUS
    <2> DEFINE c == Said(qs[n])
    <2>1. PICK p, q \in Int : \E at : Holding(t, c, p, q, at)
        BY <1>2
    <2>2. PICK at : Holding(t, c, p, q, at)
        BY <2>1
    <2> HIDE DEF c
    <2>3. at \in Nat \ {0} /\ Len(c) # 0
        BY <2>2 DEF Holding
    <2>4. 1 <= at /\ 1 \in Nat \ {0}
        BY <2>3
    <2>5. Find(Said(t), c, 1) # 0
        BY <2>2, <2>4, HeldFound
    <2>6. c # <<>>
        <3>1. c = <<>> => Len(c) = 0
            OBVIOUS
        <3> QED BY <2>3, <3>1
    <2> QED BY <2>5, <2>6 DEF c
<1>4. Len(fr) = m /\ DOMAIN fr = 1..m /\ \A n \in 1..m : fr[n] = Said(qs[n]) /\ Saying(fr[n])
    <2>1. \A n \in DOMAIN qs : Said(qs[n]) # <<>>
        BY <1>1, <1>3
    <2>2. Len(fr) = m /\ \A n \in 1..Len(fr) : fr[n] = Said(qs[n])
        BY <1>1, <2>1, FragmentsAre
    <2>3. DOMAIN fr = 1..Len(fr) /\ \A n \in 1..Len(fr) : Saying(fr[n])
        BY <1>1, FragmentsAre
    <2> HIDE DEF fr, m
    <2> QED BY <2>2, <2>3
<1>5. \/ fr = <<>> /\ ms = <<>>
      \/ \E n \in 1..Len(fr) : ms = FindWithTrim(fr[n], Folded(t))
      \/ Len(fr) = 2 /\ (\A n \in 1..2 : Len(fr[n]) >= MinFragment) /\ ms = InOrder(fr, Folded(t))
    BY <1>1, MatchWays
<1>6. (m = 2) =>
         \E p, q, r, s \in Int :
                    /\ q < r
                    /\ \E at : Holding(t, Said(qs[1]), p, q, at)
                    /\ \E to : Holding(t, Said(qs[2]), r, s, to)
    <2>1. ASSUME qs \in [1..1 -> Seq(Symbols)] PROVE m # 2
        <3>1. m = 1
            BY <1>11, <2>1
        <3> HIDE DEF m
        <3> QED BY <3>1
    <2> QED BY <2>1
<1> HIDE DEF fr, ms, m
<1>7. CASE fr = <<>> /\ ms = <<>>
    <2>1. Len(fr) = 0
        BY <1>7
    <2> QED BY <1>1, <1>4, <2>1
<1>8. CASE \E n \in 1..Len(fr) : ms = FindWithTrim(fr[n], Folded(t))
    <2>1. PICK n \in 1..m : ms = FindWithTrim(fr[n], Folded(t))
        BY <1>4, <1>8
    <2>2. Saying(fr[n]) /\ Find(Chars(Folded(t)), fr[n], 1) # 0
        BY <1>3, <1>4 DEF Said
    <2>3. ms = <<HitOf(Folded(t), fr[n])>>
        BY <2>1, <2>2, TrimWays
    <2>4. ms # <<>>
        BY <2>3
    <2> QED BY <2>4 DEF ms
<1>9. CASE m = 2 /\ ms = InOrder(fr, Folded(t))
    <2>1. PICK p, q, r, s \in Int :
                    /\ q < r
                    /\ \E at : Holding(t, Said(qs[1]), p, q, at)
                    /\ \E to : Holding(t, Said(qs[2]), r, s, to)
        BY <1>6, <1>9
    <2>2. PICK at : Holding(t, Said(qs[1]), p, q, at)
        BY <2>1
    <2>3. PICK to : Holding(t, Said(qs[2]), r, s, to)
        BY <2>1
    <2>4. 1 \in 1..m /\ 2 \in 1..m /\ DOMAIN fr = 1..2 /\ Len(fr) = 2
        BY <1>4, <1>9
    <2> DEFINE c == fr[1]
               d == fr[2]
               p1 == Find(Said(t), c, 1)
               e1 == p1 + Len(c)
               p2 == Find(Said(t), d, e1)
    <2>5. Holding(t, c, p, q, at) /\ Holding(t, d, r, s, to)
        BY <1>4, <2>2, <2>3, <2>4
    <2>6. \A n \in 1..2 : Phrase(fr[n])
        BY <1>4, <1>9, SayingIs
    <2> HIDE DEF c, d
    <2>7. at + Len(c) <= to
        BY <2>1, <2>5, HeldInOrder
    <2>8. at \in Nat \ {0} /\ to \in Nat \ {0} /\ Len(c) \in Nat /\ Len(c) # 0
        BY <2>5 DEF Holding
    <2>9. 1 <= at /\ 1 \in Nat \ {0}
        BY <2>8
    <2>10. p1 \in Nat /\ p1 # 0 /\ p1 <= at
        BY <2>5, <2>9, HeldFound
    <2>11. e1 \in Nat \ {0} /\ e1 <= to
        <3> HIDE DEF p1
        <3> QED BY <2>7, <2>8, <2>10
    <2>12. p2 # 0
        <3> HIDE DEF e1
        <3> QED BY <2>5, <2>11, HeldFound
    <2>13. ms = <<Span(Folded(t), p1, Len(c)), Span(Folded(t), p2, Len(d))>>
        <3>1. InOrder(fr, Folded(t)) =
                 IF Find(Said(t), fr[1], 1) = 0 \/ Find(Said(t), fr[2], Find(Said(t), fr[1], 1) + Len(fr[1])) = 0
                 THEN <<>>
                 ELSE <<Span(Folded(t), Find(Said(t), fr[1], 1), Len(fr[1])),
                        Span(Folded(t), Find(Said(t), fr[2], Find(Said(t), fr[1], 1) + Len(fr[1])), Len(fr[2]))>>
            BY <2>4, <2>6, SeekTwo
        <3>2. InOrder(fr, Folded(t)) = IF p1 = 0 \/ p2 = 0 THEN <<>>
                ELSE <<Span(Folded(t), p1, Len(c)), Span(Folded(t), p2, Len(d))>>
            BY <3>1 DEF c, d
        <3> HIDE DEF p1, p2
        <3> QED BY <1>9, <2>10, <2>12, <3>2
    <2> HIDE DEF p1, p2
    <2>14. ms # <<>>
        BY <2>13
    <2> QED BY <2>14 DEF ms
<1> QED BY <1>4, <1>5, <1>7, <1>8, <1>9

\* What was read is copied from one section, one stretch of it or two in their
\* order.
Excerpts ==
    \E n \in DOMAIN sections : \E one \in Copies(sections[n]) :
        \/ read = <<one>>
        \/ \E two \in Copies(sections[n]) : Last(one) < two[1] /\ read = <<one, two>>

ReadInv == stage \in {"quoted", "snapped"} => Quoted(quote) /\ Excerpts

\* The finding says what the quote was found as.
SnapInv ==
    stage = "snapped" =>
        /\ finding.spans = MatchSpans(quote, Folded(text))
        /\ finding.verified = (finding.spans # <<>>)
        /\ finding.verified =>
              /\ finding.path = HeadingPathAt(text, finding.spans[1].from)
              /\ finding.page = PageAt(marks, finding.spans[1].from)

\* What is copied is made of symbols.
LEMMA CopiedSymbols ==
    ASSUME TextTyped, SectionsInv, stage = "sections", NEW n \in DOMAIN sections,
           NEW ps \in Copies(sections[n])
    PROVE  Chosen(ps) \in Seq(Symbols)
<1>1. text \in Seq(Char) /\ sections = Split(text)
    BY DEF TextTyped, SectionsInv
<1>2. DOMAIN sections = 1..Len(sections)
    <2>1. Split(text) \in Seq(Seq(1..Len(text)))
        BY <1>1, SplitKeeps
    <2> QED BY <1>1, <2>1
<1>3. n \in 1..Len(Split(text)) /\ ps \in Copies(Split(text)[n])
    BY <1>1, <1>2
<1>4. PICK p, q : ReadFrom(ps, p, q)
    BY <1>1, <1>3, CopyRuns
<1>5. p \in 1..Len(text) /\ q \in p..Len(text) /\ Chosen(ps) = SubSeq(text, p, q)
    BY <1>4 DEF ReadFrom
<1>6. q \in 1..Len(text) /\ p <= q
    BY <1>5
<1>7. text \in Seq(Symbols)
    BY <1>1, TextSymbols
<1> QED BY <1>5, <1>6, <1>7, PartType

\* A model reads one section and quotes it in at most two parts.
LEMMA ReadNext == TextTyped /\ SectionsInv /\ ReadInv /\ [Next]_vars => ReadInv'
<1> SUFFICES ASSUME TextTyped, SectionsInv, ReadInv, [Next]_vars PROVE ReadInv'
    OBVIOUS
<1>1. CASE Convert
    BY <1>1 DEF Convert, ReadInv
<1>2. CASE PlanSections
    BY <1>2 DEF PlanSections, ReadInv
<1>3. CASE Reply
    <2>1. stage = "sections" /\ sections' = sections
        BY <1>3 DEF Reply
    <2>2. Added \in Seq(Symbols)
        BY FileTextAssumption
    <2>3. PICK n \in DOMAIN sections : \E one \in Copies(sections[n]) :
          \/ /\ read' = <<one>>
             /\ quote' \in {<<Chosen(one)>>, <<Chosen(one) \o Added>>, <<Added \o Chosen(one)>>}
          \/ \E two \in Copies(sections[n]) :
                /\ Last(one) < two[1]
                /\ read' = <<one, two>>
                /\ quote' = <<Chosen(one), Chosen(two)>>
        BY <1>3 DEF Reply
    <2>4. PICK one \in Copies(sections[n]) :
          \/ /\ read' = <<one>>
             /\ quote' \in {<<Chosen(one)>>, <<Chosen(one) \o Added>>, <<Added \o Chosen(one)>>}
          \/ \E two \in Copies(sections[n]) :
                /\ Last(one) < two[1]
                /\ read' = <<one, two>>
                /\ quote' = <<Chosen(one), Chosen(two)>>
        BY <2>3
    <2>5. \A ps \in Copies(sections[n]) : Chosen(ps) \in Seq(Symbols)
        BY <2>1, CopiedSymbols
    <2>6. Excerpts'
        BY <2>1, <2>4 DEF Excerpts
    <2>7. Quoted(quote')
        <3>1. ASSUME NEW a \in Seq(Symbols), quote' = <<a>> PROVE Quoted(quote')
            <4>1. <<a>> \in [1..1 -> Seq(Symbols)]
                OBVIOUS
            <4>2. 1 \in {1, 2}
                OBVIOUS
            <4> QED BY <3>1, <4>1, <4>2 DEF Quoted
        <3>2. ASSUME NEW a \in Seq(Symbols), NEW b \in Seq(Symbols), quote' = <<a, b>> PROVE Quoted(quote')
            <4>1. <<a, b>> \in [1..2 -> Seq(Symbols)]
                OBVIOUS
            <4>2. 2 \in {1, 2}
                OBVIOUS
            <4> QED BY <3>2, <4>1, <4>2 DEF Quoted
        <3>3. /\ Chosen(one) \in Seq(Symbols) /\ Chosen(one) \o Added \in Seq(Symbols)
              /\ Added \o Chosen(one) \in Seq(Symbols)
            BY <2>2, <2>5, ConcatProperties
        <3>4. CASE quote' \in {<<Chosen(one)>>, <<Chosen(one) \o Added>>, <<Added \o Chosen(one)>>}
            BY <3>1, <3>3, <3>4
        <3>5. CASE \E two \in Copies(sections[n]) : quote' = <<Chosen(one), Chosen(two)>>
            BY <2>5, <3>2, <3>3, <3>5
        <3> QED BY <2>4, <3>4, <3>5
    <2> QED BY <2>6, <2>7 DEF ReadInv
<1>4. CASE Snap
    BY <1>4 DEF Snap, ReadInv, Excerpts
<1>5. CASE UNCHANGED vars
    BY <1>5 DEF vars, ReadInv, Excerpts
<1> QED BY <1>1, <1>2, <1>3, <1>4, <1>5 DEF Next

\* A finding says what its quote was found as, and stays.
LEMMA SnapNext == SnapInv /\ [Next]_vars => SnapInv'
<1> SUFFICES ASSUME SnapInv, [Next]_vars PROVE SnapInv'
    OBVIOUS
<1>1. CASE Convert
    BY <1>1 DEF Convert, SnapInv
<1>2. CASE PlanSections
    BY <1>2 DEF PlanSections, SnapInv
<1>3. CASE Reply
    BY <1>3 DEF Reply, SnapInv
<1>4. CASE Snap
    <2> DEFINE spans == MatchSpans(quote, Folded(text))
    <2>1. text' = text /\ marks' = marks /\ quote' = quote
        BY <1>4 DEF Snap
    <2>2. finding' = IF spans = <<>>
                     THEN [verified |-> FALSE, spans |-> <<>>, path |-> <<>>, page |-> Nil]
                     ELSE [verified |-> TRUE, spans |-> spans,
                           path |-> HeadingPathAt(text, spans[1].from),
                           page |-> PageAt(marks, spans[1].from)]
        BY <1>4 DEF Snap
    <2> HIDE DEF spans
    <2>3. /\ finding'.spans = spans
          /\ finding'.verified = (spans # <<>>)
          /\ spans # <<>> =>
              /\ finding'.path = HeadingPathAt(text, spans[1].from)
              /\ finding'.page = PageAt(marks, spans[1].from)
        BY <2>2
    <2> QED BY <2>1, <2>3 DEF SnapInv, spans
<1>5. CASE UNCHANGED vars
    BY <1>5 DEF vars, SnapInv
<1> QED BY <1>1, <1>2, <1>3, <1>4, <1>5 DEF Next

\* A part that is faithfully quoted stands in the text.
LEMMA FaithfulHeld ==
    ASSUME text \in Seq(Char), NEW n \in 1..Len(Split(text)), NEW ps \in Copies(Split(text)[n]),
           LET s == Stripped(Chosen(ps)) IN s # <<>> /\ Last(s) # "-" /\ Folded(s) # <<>>
    PROVE  \E p, q \in Int :
              /\ ps[1] = p /\ Last(ps) = q /\ Range(ps) = p..q /\ Chosen(ps) \in Seq(Symbols)
              /\ \E at : Holding(text, Said(Chosen(ps)), p, q, at)
<1>1. PICK p, q : ReadFrom(ps, p, q)
    BY CopyRuns
<1>2. /\ p \in 1..Len(text) /\ q \in p..Len(text) /\ Chosen(ps) = SubSeq(text, p, q)
      /\ ps[1] = p /\ Last(ps) = q /\ Range(ps) = p..q
    BY <1>1 DEF ReadFrom
<1>3. p \in Int /\ q \in Int /\ q \in 1..Len(text) /\ p <= q
    BY <1>2
<1>4. text \in Seq(Symbols)
    BY TextSymbols
<1>5. Chosen(ps) \in Seq(Symbols)
    BY <1>2, <1>3, <1>4, PartType
<1> DEFINE u == Chosen(ps)
<1>6. u = SubSeq(text, p, q) /\ Stripped(u) # <<>> /\ Last(Stripped(u)) # "-" /\ Folded(Stripped(u)) # <<>>
    BY <1>2
<1> HIDE DEF u
<1>7. Part(text, u, p, q) /\ Solid(u) # {}
    BY <1>2, <1>4, <1>6, QuotedPart
<1>8. PICK at : Holding(text, Said(u), p, q, at)
    BY <1>7, PartHeld
<1> QED BY <1>2, <1>3, <1>5, <1>8 DEF u

\* The parts of a faithful quote stand in the text, where they were read.
QuoteStands ==
    \/ /\ quote \in [1..1 -> Seq(Symbols)]
       /\ \E p, q \in Int :
             Range(read[1]) = p..q /\ \E at : Holding(text, Said(quote[1]), p, q, at)
    \/ /\ quote \in [1..2 -> Seq(Symbols)]
       /\ \E p, q, r, s \in Int :
             /\ q < r /\ Range(read[1]) = p..q
             /\ \E at : Holding(text, Said(quote[1]), p, q, at)
             /\ \E to : Holding(text, Said(quote[2]), r, s, to)

\* What is faithfully quoted stands where it was read.
LEMMA FaithfulStands ==
    ASSUME TextTyped, SectionsInv, ReadInv, stage = "snapped", Faithful
    PROVE  QuoteStands
<1>1. text \in Seq(Char) /\ sections = Split(text)
    BY DEF TextTyped, SectionsInv
<1>2. DOMAIN sections = 1..Len(sections)
    <2>1. Split(text) \in Seq(Seq(1..Len(text)))
        BY <1>1, SplitKeeps
    <2> QED BY <1>1, <2>1
<1>3. text \in Seq(Symbols)
    BY <1>1, TextSymbols
<1>4. Excerpts /\ Quoted(quote)
    BY DEF ReadInv
<1>5. PICK n \in 1..Len(Split(text)) : \E one \in Copies(Split(text)[n]) :
        \/ read = <<one>>
        \/ \E two \in Copies(Split(text)[n]) : Last(one) < two[1] /\ read = <<one, two>>
    BY <1>1, <1>2, <1>4 DEF Excerpts
<1>6. PICK one \in Copies(Split(text)[n]) :
        \/ read = <<one>>
        \/ \E two \in Copies(Split(text)[n]) : Last(one) < two[1] /\ read = <<one, two>>
    BY <1>5
<1>7. /\ quote = [k \in DOMAIN read |-> Chosen(read[k])]
      /\ \A k \in DOMAIN read :
          LET s == Stripped(Chosen(read[k])) IN s # <<>> /\ Last(s) # "-" /\ Folded(s) # <<>>
    <2>1. quote = [k \in DOMAIN read |-> Chosen(read[k])]
        BY DEF Faithful
    <2>2. \A k \in DOMAIN quote :
            LET s == Stripped(quote[k]) IN s # <<>> /\ Last(s) # "-" /\ Folded(s) # <<>>
        BY DEF Faithful
    <2>3. DOMAIN quote = DOMAIN read /\ \A k \in DOMAIN read : quote[k] = Chosen(read[k])
        BY <2>1
    <2> HIDE DEF Faithful
    <2> QED BY <2>1, <2>2, <2>3
<1>8. QuoteStands
    <2>1. CASE read = <<one>>
        <3>1. DOMAIN read = 1..1 /\ read[1] = one /\ 1 \in DOMAIN read
            BY <2>1
        <3>2. PICK p, q \in Int :
                /\ Range(one) = p..q /\ Chosen(one) \in Seq(Symbols)
                /\ \E at : Holding(text, Said(Chosen(one)), p, q, at)
            <4>1. LET s == Stripped(Chosen(one)) IN s # <<>> /\ Last(s) # "-" /\ Folded(s) # <<>>
                BY <1>7, <3>1
            <4> QED BY <1>1, <4>1, FaithfulHeld
        <3>3. quote \in [1..1 -> Seq(Symbols)] /\ quote[1] = Chosen(one)
            <4>1. quote = [k \in 1..1 |-> Chosen(read[k])]
                BY <1>7, <3>1
            <4>2. \A k \in 1..1 : k = 1
                OBVIOUS
            <4> QED BY <3>1, <3>2, <4>1, <4>2
        <3> QED BY <3>1, <3>2, <3>3 DEF QuoteStands
    <2>2. CASE \E two \in Copies(Split(text)[n]) : Last(one) < two[1] /\ read = <<one, two>>
        <3>1. PICK two \in Copies(Split(text)[n]) : Last(one) < two[1] /\ read = <<one, two>>
            BY <2>2
        <3>2. DOMAIN read = 1..2 /\ read[1] = one /\ read[2] = two /\ 1 \in DOMAIN read /\ 2 \in DOMAIN read
            BY <3>1
        <3>3. PICK p, q \in Int :
                /\ Last(one) = q /\ Range(one) = p..q /\ Chosen(one) \in Seq(Symbols)
                /\ \E at : Holding(text, Said(Chosen(one)), p, q, at)
            <4>1. LET s == Stripped(Chosen(one)) IN s # <<>> /\ Last(s) # "-" /\ Folded(s) # <<>>
                BY <1>7, <3>2
            <4> QED BY <1>1, <4>1, FaithfulHeld
        <3>4. PICK r, s \in Int :
                /\ two[1] = r /\ Chosen(two) \in Seq(Symbols)
                /\ \E at : Holding(text, Said(Chosen(two)), r, s, at)
            <4>1. LET s == Stripped(Chosen(two)) IN s # <<>> /\ Last(s) # "-" /\ Folded(s) # <<>>
                BY <1>7, <3>2
            <4> QED BY <1>1, <4>1, FaithfulHeld
        <3>5. quote \in [1..2 -> Seq(Symbols)] /\ quote[1] = Chosen(one) /\ quote[2] = Chosen(two)
            <4>1. quote = [k \in 1..2 |-> Chosen(read[k])]
                BY <1>7, <3>2
            <4>2. \A k \in 1..2 : k = 1 \/ k = 2
                OBVIOUS
            <4>3. 1 \in 1..2 /\ 2 \in 1..2
                OBVIOUS
            <4>4. \A k \in 1..2 : Chosen(read[k]) \in Seq(Symbols)
                BY <3>2, <3>3, <3>4, <4>2
            <4> QED BY <3>2, <4>1, <4>3, <4>4
        <3>6. q < r
            BY <3>1, <3>3, <3>4
        <3>7. \E p_1, q_1, r_1, s_1 \in Int :
                    /\ q_1 < r_1 /\ Range(read[1]) = p_1..q_1
                    /\ \E at : Holding(text, Said(quote[1]), p_1, q_1, at)
                    /\ \E to : Holding(text, Said(quote[2]), r_1, s_1, to)
            BY <3>2, <3>3, <3>4, <3>5, <3>6
        <3> QED BY <3>5, <3>7 DEF QuoteStands
    <2> QED BY <1>6, <2>1, <2>2
<1> QED BY <1>8

\* What is faithfully quoted is found.
LEMMA FaithfulFound ==
    TextTyped /\ SectionsInv /\ ReadInv /\ SnapInv => FaithfulIsVerified
<1> SUFFICES ASSUME TextTyped, SectionsInv, ReadInv, SnapInv, stage = "snapped", Faithful
             PROVE  finding.verified
    BY DEF FaithfulIsVerified
<1>1. QuoteStands
    BY FaithfulStands
<1>2. text \in Seq(Symbols)
    BY TextSymbols DEF TextTyped
<1>3. MatchSpans(quote, Folded(text)) # <<>>
    <2>1. CASE /\ quote \in [1..1 -> Seq(Symbols)]
               /\ \E p, q \in Int :
                     Range(read[1]) = p..q /\ \E at : Holding(text, Said(quote[1]), p, q, at)
        <3>1. \E p, q \in Int : \E at : Holding(text, Said(quote[1]), p, q, at)
            BY <2>1
        <3> QED BY <1>2, <2>1, <3>1, QuoteFound
    <2>2. CASE /\ quote \in [1..2 -> Seq(Symbols)]
               /\ \E p, q, r, s \in Int :
                     /\ q < r /\ Range(read[1]) = p..q
                     /\ \E at : Holding(text, Said(quote[1]), p, q, at)
                     /\ \E to : Holding(text, Said(quote[2]), r, s, to)
        <3>1. \E p, q, r, s \in Int :
                     /\ q < r
                     /\ \E at : Holding(text, Said(quote[1]), p, q, at)
                     /\ \E to : Holding(text, Said(quote[2]), r, s, to)
            BY <2>2
        <3> QED BY <1>2, <2>2, <3>1, QuoteFound
    <2> QED BY <1>1, <2>1, <2>2 DEF QuoteStands
<1> QED BY <1>3 DEF SnapInv

\* A model that quotes faithfully from the section it was given is never told
\* that its quote is not in the file, whatever the text and wherever it is cut.
THEOREM QuotesAreVerified == Spec => []FaithfulIsVerified
<1>1. Init => SectionsInv /\ ReadInv /\ SnapInv
    BY DEF Init, SectionsInv, ReadInv, SnapInv
<1> QED BY TextTypedInit, TextTypedNext, SectionsNext, ReadNext, SnapNext, FaithfulFound, <1>1, PTL DEF Spec

----------------------------------------------------------------------------
(* What is shown is what was found.                                        *)

\* What it is to stand at a place.
LEMMA StandsIs ==
    ASSUME NEW S, NEW t \in Seq(S), NEW T, NEW s \in Seq(T), Len(s) # 0,
           NEW p \in Nat \ {0}, p + Len(s) <= Len(t) + 1
    PROVE  StandsAt(t, s, p) <=> \A k \in 1..Len(s) : t[p + k - 1] = s[k]
<1> DEFINE n == Len(s)
           l == p + n - 1
           u == SubSeq(t, p, l)
<1>1. n \in Nat /\ n # 0 /\ Len(t) \in Nat /\ s = [k \in 1..n |-> s[k]]
    OBVIOUS
<1> HIDE DEF n
<1>2. p \in 1..Len(t) /\ l \in 1..Len(t) /\ p <= l /\ l - p + 1 = n
    BY <1>1 DEF n
<1> HIDE DEF l
<1>3. u \in Seq(S) /\ Len(u) = n /\ \A k \in 1..n : u[k] = t[p + k - 1]
    BY <1>2, PartType
<1> HIDE DEF u
<1>4. u = [k \in 1..n |-> u[k]]
    BY <1>1, <1>3
<1>5. u = s <=> \A k \in 1..n : u[k] = s[k]
    BY <1>1, <1>4
<1>6. u = s <=> \A k \in 1..n : t[p + k - 1] = s[k]
    BY <1>3, <1>5
<1> QED BY <1>6 DEF StandsAt, u, l, n

\* What stands in what stands in a text stands in the text.
LEMMA StandsWithin ==
    ASSUME NEW S, NEW t \in Seq(S), NEW T, NEW x \in Seq(T), NEW U, NEW c \in Seq(U), Len(c) # 0,
           NEW r \in Nat \ {0}, r + Len(x) <= Len(t) + 1, StandsAt(t, x, r),
           NEW d \in Nat \ {0}, d + Len(c) <= Len(x) + 1, StandsAt(x, c, d),
           NEW y, y = r + d - 1
    PROVE  y \in Nat \ {0} /\ y + Len(c) <= Len(t) + 1 /\ StandsAt(t, c, y)
<1>1. Len(c) \in Nat /\ Len(x) \in Nat /\ Len(t) \in Nat /\ Len(x) # 0
    OBVIOUS
<1>2. y \in Nat \ {0} /\ y + Len(c) <= Len(t) + 1
    BY <1>1
<1>3. \A k \in 1..Len(x) : t[r + k - 1] = x[k]
    BY <1>1, StandsIs
<1>4. \A k \in 1..Len(c) : x[d + k - 1] = c[k]
    BY StandsIs
<1>5. ASSUME NEW k \in 1..Len(c) PROVE t[y + k - 1] = c[k]
    <2> DEFINE e == d + k - 1
    <2>1. e \in 1..Len(x) /\ r + e - 1 = y + k - 1
        BY <1>1
    <2>2. x[e] = c[k]
        BY <1>4
    <2> HIDE DEF e
    <2>3. t[r + e - 1] = x[e]
        BY <1>3, <2>1
    <2> QED BY <2>1, <2>2, <2>3
<1>6. StandsAt(t, c, y)
    BY <1>2, <1>5, StandsIs
<1> QED BY <1>2, <1>6

\* What stands in a text where something longer does stands in that.
LEMMA StandsInside ==
    ASSUME NEW S, NEW t \in Seq(S), NEW T, NEW x \in Seq(T), NEW U, NEW c \in Seq(U), Len(c) # 0,
           NEW r \in Nat \ {0}, r + Len(x) <= Len(t) + 1, StandsAt(t, x, r),
           NEW y \in Nat \ {0}, y + Len(c) <= Len(t) + 1, StandsAt(t, c, y),
           r <= y, y + Len(c) <= r + Len(x),
           NEW d, d = y - r + 1
    PROVE  d \in Nat \ {0} /\ d + Len(c) <= Len(x) + 1 /\ StandsAt(x, c, d)
<1>1. Len(c) \in Nat /\ Len(x) \in Nat /\ Len(t) \in Nat /\ Len(x) # 0
    OBVIOUS
<1>2. d \in Nat \ {0} /\ d + Len(c) <= Len(x) + 1
    BY <1>1
<1>3. \A k \in 1..Len(x) : t[r + k - 1] = x[k]
    BY <1>1, StandsIs
<1>4. \A k \in 1..Len(c) : t[y + k - 1] = c[k]
    BY StandsIs
<1>5. ASSUME NEW k \in 1..Len(c) PROVE x[d + k - 1] = c[k]
    <2> DEFINE e == d + k - 1
    <2>1. e \in 1..Len(x) /\ r + e - 1 = y + k - 1
        BY <1>1
    <2> HIDE DEF e
    <2>2. t[r + e - 1] = x[e]
        BY <1>3, <2>1
    <2>3. t[y + k - 1] = c[k]
        BY <1>4
    <2> QED BY <2>1, <2>2, <2>3 DEF e
<1>6. StandsAt(x, c, d)
    BY <1>2, <1>5, StandsIs
<1> QED BY <1>2, <1>6

\* What is no space comes from what is no blank.
LEMMA SolidFrom ==
    ASSUME NEW t \in Seq(Symbols), NEW e \in 1..Len(Folded(t)), ~IsSpace(Said(t)[e])
    PROVE  Folded(t)[e].from \in Solid(t)
<1>1. PICK N : FoldedFrom(t, N)
    BY FoldedInOrder
<1>2. PICK y, k : ComesFrom(t, N, e, y, k)
    BY <1>1, FromIs
<1>3. Said(t)[e] = Folded(t)[e].char
    BY SaidType
<1>4. IsSpace(Folded(t)[e].char) <=> y \notin Solid(t)
    BY <1>2 DEF ComesFrom, IsSpace
<1>5. Folded(t)[e].from = y
    BY <1>2 DEF ComesFrom
<1> QED BY <1>3, <1>4, <1>5

\* A text without blanks at its ends is left as it is.
LEMMA StrippedSame ==
    ASSUME NEW S, NEW s \in Seq(S), Len(s) # 0, s[1] \notin Blanks, s[Len(s)] \notin Blanks
    PROVE  Stripped(s) = s
<1> DEFINE n == Len(s)
           solid == {i \in DOMAIN s : s[i] \notin Blanks}
<1>1. n \in Nat /\ n # 0 /\ DOMAIN s = 1..n
    OBVIOUS
<1> HIDE DEF n
<1>2. 1 \in 1..n /\ n \in 1..n /\ 1..n \subseteq Int
    BY <1>1
<1>3. 1 \in solid /\ n \in solid /\ solid \subseteq 1..n
    BY <1>1, <1>2 DEF n
<1>4. Stripped(s) = SubSeq(s, Min(solid), Max(solid))
    BY <1>3 DEF Stripped
<1>5. IsFiniteSet(solid) /\ solid \subseteq Int
    <2> HIDE DEF solid
    <2>1. IsFiniteSet(1..n)
        BY <1>1, FS_Interval
    <2> QED BY <1>2, <1>3, <2>1, FS_Subset
<1> HIDE DEF solid
<1>6. Min(solid) \in solid /\ Min(solid) <= 1
    <2>1. solid \subseteq Nat /\ solid # {}
        BY <1>1, <1>3
    <2> QED BY <1>3, <2>1, MinIn
<1>7. Max(solid) \in solid /\ n <= Max(solid)
    <2>1. solid # {}
        BY <1>3
    <2> QED BY <1>3, <1>5, <2>1, MaxIn
<1>8. Min(solid) = 1 /\ Max(solid) = n
    <2> DEFINE a == Min(solid)
               b == Max(solid)
    <2>1. a \in 1..n /\ b \in 1..n /\ a <= 1 /\ n <= b
        BY <1>3, <1>6, <1>7
    <2> HIDE DEF a, b
    <2>2. a = 1 /\ b = n
        BY <1>1, <2>1
    <2> QED BY <2>2 DEF a, b
<1>9. SubSeq(s, 1, n) = s
    <2> DEFINE u == SubSeq(s, 1, n)
    <2>1. 1 \in 1..Len(s) /\ n \in 1..Len(s) /\ 1 <= n
        BY <1>1, <1>2 DEF n
    <2>2. u \in Seq(S) /\ Len(u) = n - 1 + 1 /\ \A k \in 1..(n - 1 + 1) : u[k] = s[1 + k - 1]
        BY <2>1, PartType
    <2> HIDE DEF u
    <2>3. n - 1 + 1 = n /\ \A k \in 1..n : 1 + k - 1 = k
        BY <1>1
    <2>4. Len(u) = n /\ \A k \in 1..n : u[k] = s[k]
        BY <2>2, <2>3
    <2>5. u = [k \in 1..n |-> u[k]] /\ s = [k \in 1..n |-> s[k]]
        BY <1>1, <2>2, <2>4
    <2>6. u = s
        BY <2>4, <2>5
    <2> QED BY <2>6 DEF u
<1> QED BY <1>4, <1>8, <1>9

\* A stretch between two positions that leave a trace is a part, shown as it is.
LEMMA ShownPart ==
    ASSUME NEW t \in Seq(Symbols), NEW p \in Solid(t), NEW q \in Solid(t), p <= q
    PROVE  LET w == SubSeq(t, p, q)
           IN Part(t, w, p, q) /\ Solid(w) # {} /\ Stripped(w) = w /\ w \in Seq(Symbols)
<1> DEFINE w == SubSeq(t, p, q)
           n == q - p + 1
<1>1. /\ p \in 1..Len(t) /\ q \in 1..Len(t) /\ Len(t) \in Nat
      /\ t[p] \notin Blanks /\ t[q] \notin Blanks /\ q \notin Vanishing(t)
    BY DEF Solid, Left
<1>2. w \in Seq(Symbols) /\ Len(w) = n /\ \A k \in 1..n : w[k] = t[p + k - 1]
    BY <1>1, PartType
<1>3. n \in Nat /\ n # 0 /\ 1 \in 1..n /\ n \in 1..n /\ p + 1 - 1 = p /\ p + n - 1 = q
    BY <1>1
<1>4. ASSUME NEW h \in p..q PROVE JoinedTo(t, h) <= q
    <2>1. h \in 1..Len(t) /\ h <= q
        BY <1>1
    <2>2. ~(q < JoinedTo(t, h))
        BY <1>1, <2>1, VanishingIs
    <2>3. JoinedTo(t, h) \in h..Len(t)
        BY <2>1, JoinedOver
    <2>4. JoinedTo(t, h) \in Int /\ q \in Int
        BY <1>1, <2>1, <2>3
    <2> QED BY <2>2, <2>4
<1>5. Part(t, w, p, q)
    <2>1. q \in p..Len(t)
        BY <1>1
    <2> QED BY <1>1, <1>4, <2>1 DEF Part
<1> HIDE DEF w
<1>6. w[1] = t[p] /\ w[n] = t[q]
    <2> HIDE DEF n
    <2> QED BY <1>2, <1>3
<1>7. Stripped(w) = w
    BY <1>1, <1>2, <1>3, <1>6, StrippedSame
<1>8. 1 \in Solid(w)
    <2>1. 1 \in 1..Len(w) /\ 1 + (p - 1) = p
        BY <1>1, <1>2, <1>3
    <2> DEFINE x == 1
    <2> HIDE DEF x
    <2>2. x \in 1..Len(w) /\ x + (p - 1) = p
        BY <2>1 DEF x
    <2>3. x \in Solid(w) <=> x + (p - 1) \in Solid(t)
        BY <1>5, <2>2, SolidPart
    <2>4. x \in Solid(w)
        BY <2>2, <2>3
    <2> QED BY <2>4 DEF x
<1> QED BY <1>2, <1>5, <1>7, <1>8 DEF w

\* The stretch w of the text is shown for the phrase c that was found at p: what
\* it is folded to stands at a place around the phrase and is the same span.
Shows(t, c, p, w, at) ==
    LET sp == Span(Folded(t), p, Len(c))
        x == Said(w)
    IN /\ w \in Seq(Symbols)
       /\ sp.from \in 1..Len(t) /\ sp.to \in 1..Len(t)
       /\ Holding(t, x, sp.from, sp.to, at)
       /\ at <= p /\ p + Len(c) <= at + Len(x)
       /\ Span(Folded(t), at, Len(x)) = sp
       /\ StandsAt(x, c, p - at + 1)

\* A phrase that stands in the text is shown as a stretch around it.
LEMMA ShownHeld ==
    ASSUME NEW t \in Seq(Symbols), NEW c, Phrase(c),
           NEW p \in Nat \ {0}, p + Len(c) <= Len(Said(t)) + 1, StandsAt(Said(t), c, p)
    PROVE  LET sp == Span(Folded(t), p, Len(c))
           IN \E at : Shows(t, c, p, Stripped(SubSeq(t, sp.from, sp.to)), at)
<1> DEFINE f == Folded(t)
           n == Len(f)
           m == Len(c)
           l == p + m - 1
           sp == Span(f, p, m)
           a == f[p].from
           b == f[l].from
           w == SubSeq(t, a, b)
           x == Said(w)
           k == Len(x)
<1>1. c \in Seq(Folds) /\ m # 0 /\ m \in Nat /\ ~IsSpace(c[1]) /\ ~IsSpace(c[m])
    <2>1. c \in Seq(Folds) /\ m # 0 /\ ~IsSpace(c[1]) /\ ~IsSpace(c[m])
        BY DEF Phrase
    <2> QED BY <2>1
<1>2. Said(t) \in Seq(Folds) /\ Len(Said(t)) = n /\ n \in Nat
    BY SaidType
<1>3. \A i \in 1..m : Said(t)[p + i - 1] = c[i]
    <2>1. Said(t) \in Seq(Folds) /\ c \in Seq(Folds) /\ Len(c) # 0
        BY <1>1, <1>2
    <2> QED BY <2>1, StandsIs
<1>4. p \in 1..n /\ l \in 1..n /\ 1 \in 1..m /\ m \in 1..m /\ p + 1 - 1 = p /\ l \in Nat /\ p <= l
    BY <1>1, <1>2
<1>5. Said(t)[p] = c[1] /\ Said(t)[l] = c[m]
    <2>1. Said(t)[p + 1 - 1] = c[1] /\ Said(t)[p + m - 1] = c[m]
        BY <1>3, <1>4
    <2> QED BY <1>4, <2>1
<1>6. a \in Solid(t) /\ b \in Solid(t) /\ a <= b
    <2> HIDE DEF l, m
    <2>1. ~IsSpace(Said(t)[p]) /\ ~IsSpace(Said(t)[l])
        BY <1>1, <1>5
    <2>2. a \in Solid(t) /\ b \in Solid(t)
        BY <1>4, <2>1, SolidFrom
    <2>3. a <= b
        BY <1>4, FromInOrder
    <2> QED BY <2>2, <2>3
<1>7. sp = [from |-> a, to |-> b] /\ sp.from = a /\ sp.to = b
    BY DEF Span
<1>8. a \in 1..Len(t) /\ b \in 1..Len(t)
    BY <1>6 DEF Solid, Left
<1>19. a \in Int /\ b \in Int
    BY <1>8
<1> HIDE DEF a, b, sp
<1>9. Part(t, w, a, b) /\ Solid(w) # {} /\ Stripped(w) = w /\ w \in Seq(Symbols)
    BY <1>6, ShownPart
<1>10. PICK at : FoldedThere(t, w, a, b, at)
    BY <1>9, FoldedPart
<1>11. /\ Said(w) \in Seq(Folds) /\ k = Len(Folded(w)) /\ k \in Nat
    BY <1>9, SaidType
<1>12. /\ at \in Nat /\ at # 0 /\ k # 0 /\ at + k <= n + 1
       /\ StandsAt(Said(t), x, at)
    BY <1>2, <1>9, <1>10, SaidThere
<1> HIDE DEF w
<1>13. \A e \in 1..n : f[e].from \in a..b /\ f[e].char # " " => at <= e /\ e < at + k
    BY <1>10, <1>11 DEF FoldedThere
<1>14. \A e \in 1..n : f[e].from \in a..b /\ ~IsSpace(Said(t)[e]) => at <= e /\ e < at + k
    <2>1. \A e \in 1..n : Said(t)[e] = f[e].char
        BY SaidType
    <2> QED BY <1>13, <2>1 DEF IsSpace
<1>15. at <= p /\ l < at + k
    <2>1. a \in a..b /\ b \in a..b
        BY <1>6, <1>19
    <2>2. f[p].from \in a..b /\ f[l].from \in a..b
        BY <2>1 DEF a, b
    <2>3. ~IsSpace(Said(t)[p]) /\ ~IsSpace(Said(t)[l])
        BY <1>1, <1>5
    <2> HIDE DEF l, k, f, n
    <2> QED BY <1>4, <1>14, <2>2, <2>3
<1>16. p + m <= at + k
    BY <1>1, <1>4, <1>11, <1>12, <1>15
<1> DEFINE g == at + k - 1
<1>17. at \in 1..n /\ g \in 1..n /\ l <= g
    BY <1>2, <1>4, <1>11, <1>12, <1>15
<1>18. f[at].from \in a..b /\ f[g].from \in a..b
    <2> DEFINE o == a - 1
    <2>1. \A e \in 1..k : f[at + e - 1].from = Folded(w)[e].from + o
        BY <1>10, <1>11 DEF FoldedThere
    <2>2. \A e \in 1..k : Folded(w)[e].from \in 1..Len(w)
        BY <1>9, <1>11, SaidType
    <2>3. Len(w) = b - a + 1
        BY <1>9, PartIs
    <2>4. o \in Int /\ o = a - 1
        BY <1>19
    <2> HIDE DEF o, k
    <2>5. ASSUME NEW e \in 1..k PROVE f[at + e - 1].from \in a..b
        <3> DEFINE y == Folded(w)[e].from
        <3>1. y \in 1..(b - a + 1) /\ f[at + e - 1].from = y + o
            BY <2>1, <2>2, <2>3
        <3> HIDE DEF y
        <3>2. y + o \in a..b
            BY <1>19, <2>4, <3>1
        <3> QED BY <3>1, <3>2
    <2>6. 1 \in 1..k /\ k \in 1..k /\ at + 1 - 1 = at
        BY <1>11, <1>12
    <2>7. f[at + 1 - 1].from \in a..b /\ f[at + k - 1].from \in a..b
        BY <2>5, <2>6
    <2> QED BY <2>6, <2>7
<1>20. f[at].from <= a /\ b <= f[g].from
    <2>1. f[at].from <= f[p].from
        BY <1>4, <1>15, <1>17, FromInOrder
    <2>2. f[l].from <= f[g].from
        <3> HIDE DEF l, g, n
        <3> QED BY <1>4, <1>17, FromInOrder DEF n
    <2> QED BY <2>1, <2>2 DEF a, b
<1>21. f[at].from = a /\ f[g].from = b
    <2> DEFINE y == f[at].from
               z == f[g].from
    <2>1. y \in a..b /\ z \in a..b /\ y <= a /\ b <= z
        BY <1>18, <1>20
    <2> HIDE DEF y, z
    <2>2. y = a /\ z = b
        BY <1>19, <2>1
    <2> QED BY <2>2 DEF y, z
<1>22. Span(f, at, k) = sp
    BY <1>7, <1>21 DEF Span
<1>23. Holding(t, x, a, b, at)
    <2>1. at \in Nat \ {0}
        BY <1>12
    <2> QED BY <1>2, <1>11, <1>12, <1>18, <2>1 DEF Holding
<1>24. StandsAt(x, c, p - at + 1)
    <2> DEFINE d == p - at + 1
    <2> HIDE DEF f
    <2>1. at \in Nat \ {0} /\ at + Len(x) <= Len(Said(t)) + 1 /\ Len(c) # 0 /\ c \in Seq(Folds)
          /\ at <= p /\ p + Len(c) <= at + Len(x)
        BY <1>1, <1>2, <1>12, <1>15, <1>16
    <2>2. Said(t) \in Seq(Folds) /\ x \in Seq(Folds)
        BY <1>2, <1>11
    <2> QED BY <1>12, <2>1, <2>2, StandsInside
<1>25. Shows(t, c, p, w, at)
    BY <1>7, <1>8, <1>9, <1>15, <1>16, <1>22, <1>23, <1>24 DEF Shows, sp
<1>26. Stripped(SubSeq(t, sp.from, sp.to)) = w
    BY <1>7, <1>9 DEF w
<1> QED BY <1>25, <1>26 DEF sp

\* Looked up again, what is shown for a phrase found first at p is found where
\* it stands.
LEMMA ShownFirst ==
    ASSUME NEW t \in Seq(Symbols), NEW c, Phrase(c), NEW from \in Nat \ {0},
           NEW p, p = Find(Said(t), c, from), p # 0,
           NEW w, NEW at, Shows(t, c, p, w, at),
           NEW next \in Nat \ {0}, from <= next, next <= at
    PROVE  Find(Said(t), Said(w), next) = at
<1> DEFINE x == Said(w)
           r == Find(Said(t), x, next)
<1>1. c \in Seq(Folds) /\ Len(c) # 0
    BY DEF Phrase
<1>2. Said(t) \in Seq(Folds)
    BY SaidType
<1>3. /\ x \in Seq(Folds) /\ Len(x) # 0 /\ at \in Nat \ {0} /\ at + Len(x) <= Len(Said(t)) + 1
      /\ StandsAt(Said(t), x, at) /\ at <= p /\ p + Len(c) <= at + Len(x)
      /\ StandsAt(x, c, p - at + 1)
    BY DEF Shows, Holding
<1>4. p \in Nat
    BY <1>1, <1>2, FindFirst
<1>5. \A y \in Nat : from <= y /\ y + Len(c) <= Len(Said(t)) + 1 /\ StandsAt(Said(t), c, y) => p <= y
    BY <1>1, <1>2, FindFirst
<1> HIDE DEF x
<1>6. r \in Nat /\ r # 0 /\ r <= at
    BY <1>2, <1>3, FindFirst
<1>7. next <= r /\ r + Len(x) <= Len(Said(t)) + 1 /\ StandsAt(Said(t), x, r)
    BY <1>2, <1>3, <1>6, FindFirst
<1> HIDE DEF r
<1> DEFINE d == p - at + 1
           y == r + d - 1
<1>8. /\ d \in Nat \ {0} /\ d + Len(c) <= Len(x) + 1 /\ Len(c) \in Nat /\ Len(x) \in Nat
      /\ r \in Nat \ {0}
    BY <1>1, <1>3, <1>4, <1>6
<1>9. y = r + (p - at) /\ from <= y
    BY <1>3, <1>4, <1>6, <1>7
<1>10. y \in Nat \ {0} /\ y + Len(c) <= Len(Said(t)) + 1 /\ StandsAt(Said(t), c, y)
    <2>1. StandsAt(x, c, d)
        BY <1>3
    <2> HIDE DEF d
    <2> QED BY <1>1, <1>2, <1>3, <1>7, <1>8, <2>1, StandsWithin
<1>11. p <= y
    BY <1>5, <1>9, <1>10
<1>12. r = at
    BY <1>3, <1>4, <1>6, <1>9, <1>11
<1> QED BY <1>12 DEF r, x

\* One phrase is found.
OneFound(t, ms, c) ==
    Phrase(c) /\ Find(Said(t), c, 1) # 0 /\ ms = <<HitOf(Folded(t), c)>>

\* Two are, one after the other.
TwoFound(t, ms, c, d) ==
    LET p == Find(Said(t), c, 1)
        q == Find(Said(t), d, p + Len(c))
    IN /\ Phrase(c) /\ Phrase(d) /\ Len(c) >= MinFragment /\ Len(d) >= MinFragment
       /\ p # 0 /\ q # 0
       /\ ms = <<Span(Folded(t), p, Len(c)), Span(Folded(t), q, Len(d))>>

\* Whatever a quote is found as, it is one phrase or its two fragments.
LEMMA FoundWays ==
    ASSUME NEW t \in Seq(Symbols), NEW qs, Quoted(qs),
           NEW ms, ms = MatchSpans(qs, Folded(t)), ms # <<>>
    PROVE  LET fr == Fragments(qs)
           IN /\ (\E c : OneFound(t, ms, c)) \/ (Len(fr) = 2 /\ TwoFound(t, ms, fr[1], fr[2]))
              /\ Len(fr) = 1 /\ Find(Said(t), fr[1], 1) # 0 => OneFound(t, ms, fr[1])
<1> DEFINE fr == Fragments(qs)
           m == Len(fr)
           f == Folded(t)
<1>1. DOMAIN fr = 1..m /\ \A n \in 1..m : Saying(fr[n])
    BY FragmentsAre
<1>2. /\ \/ fr = <<>> /\ ms = <<>>
         \/ \E n \in 1..m : ms = FindWithTrim(fr[n], f)
         \/ m = 2 /\ (\A n \in 1..2 : Len(fr[n]) >= MinFragment) /\ ms = InOrder(fr, f)
      /\ m = 1 => ms = FindWithTrim(fr[1], f)
    BY MatchWays
<1> HIDE DEF fr, m, f
<1>3. ASSUME NEW n \in 1..m, ms = FindWithTrim(fr[n], f)
      PROVE  /\ \E c : OneFound(t, ms, c)
             /\ Find(Said(t), fr[n], 1) # 0 => OneFound(t, ms, fr[n])
    <2>1. Saying(fr[n])
        BY <1>1
    <2>2. Phrase(fr[n])
        BY <2>1, SayingIs
    <2>3. Said(t) = Chars(f)
        BY DEF Said, f
    <2>4. Find(Chars(f), fr[n], 1) # 0 => FindWithTrim(fr[n], f) = <<HitOf(f, fr[n])>>
        BY <2>1, TrimWays
    <2>5. \/ FindWithTrim(fr[n], f) = <<>>
          \/ \E s : Phrase(s) /\ Find(Chars(f), s, 1) # 0
                        /\ FindWithTrim(fr[n], f) = <<HitOf(f, s)>>
        BY <2>1, TrimWays
    <2>6. PICK s : Phrase(s) /\ Find(Said(t), s, 1) # 0 /\ ms = <<HitOf(f, s)>>
        BY <1>3, <2>3, <2>5
    <2>7. OneFound(t, ms, s)
        BY <2>6 DEF OneFound, f
    <2>8. Find(Said(t), fr[n], 1) # 0 => OneFound(t, ms, fr[n])
        BY <1>3, <2>2, <2>3, <2>4 DEF OneFound, f
    <2> QED BY <2>7, <2>8
<1>4. ASSUME m = 2, \A n \in 1..2 : Len(fr[n]) >= MinFragment, ms = InOrder(fr, f)
      PROVE  TwoFound(t, ms, fr[1], fr[2])
    <2> DEFINE c == fr[1]
               d == fr[2]
               p == Find(Said(t), c, 1)
               q == Find(Said(t), d, p + Len(c))
    <2>1. DOMAIN fr = 1..2 /\ Len(fr) = 2
        BY <1>1, <1>4 DEF m
    <2>2. \A n \in 1..2 : Phrase(fr[n])
        BY <1>1, <1>4, SayingIs
    <2>3. InOrder(fr, f) = IF p = 0 \/ q = 0 THEN <<>> ELSE <<Span(f, p, Len(c)), Span(f, q, Len(d))>>
        BY <2>1, <2>2, SeekTwo DEF f
    <2>4. 1 \in 1..2 /\ 2 \in 1..2
        OBVIOUS
    <2>5. Phrase(c) /\ Phrase(d) /\ Len(c) >= MinFragment /\ Len(d) >= MinFragment
        BY <1>4, <2>2, <2>4
    <2> HIDE DEF c, d
    <2>6. ms = IF p = 0 \/ q = 0 THEN <<>> ELSE <<Span(f, p, Len(c)), Span(f, q, Len(d))>>
        BY <1>4, <2>3
    <2>7. p # 0 /\ q # 0 /\ ms = <<Span(f, p, Len(c)), Span(f, q, Len(d))>>
        <3> HIDE DEF p, q
        <3> QED BY <2>6
    <2>8. TwoFound(t, ms, c, d)
        BY <2>5, <2>7 DEF TwoFound, f
    <2> QED BY <2>8 DEF c, d
<1>5. (\E c : OneFound(t, ms, c)) \/ (m = 2 /\ TwoFound(t, ms, fr[1], fr[2]))
    BY <1>2, <1>3, <1>4
<1>6. m = 1 /\ Find(Said(t), fr[1], 1) # 0 => OneFound(t, ms, fr[1])
    <2> SUFFICES ASSUME m = 1, Find(Said(t), fr[1], 1) # 0 PROVE OneFound(t, ms, fr[1])
        OBVIOUS
    <2>1. 1 \in 1..m
        OBVIOUS
    <2> QED BY <1>2, <1>3, <2>1
<1> QED BY <1>5, <1>6 DEF fr, m

\* One text that stands in another is found as it is.
LEMMA FoundAgainOne ==
    ASSUME NEW t \in Seq(Symbols), NEW w \in Seq(Symbols), Len(Said(w)) # 0,
           NEW at, at = Find(Said(t), Said(w), 1), at # 0
    PROVE  MatchSpans(<<w>>, Folded(t)) = <<Span(Folded(t), at, Len(Said(w)))>>
<1> DEFINE qs == <<w>>
           fr == Fragments(qs)
           c == Said(w)
<1>1. qs \in [1..1 -> Seq(Symbols)] /\ 1 \in {1, 2} /\ DOMAIN qs = 1..1 /\ Len(qs) = 1 /\ qs[1] = w
    OBVIOUS
<1>2. Quoted(qs)
    BY <1>1 DEF Quoted
<1>3. c # <<>>
    <2>1. c = <<>> => Len(c) = 0
        OBVIOUS
    <2> QED BY <2>1
<1>4. \A n \in DOMAIN qs : Said(qs[n]) # <<>>
    BY <1>1, <1>3
<1> HIDE DEF qs
<1>5. Len(fr) = 1 /\ (\A n \in 1..Len(fr) : fr[n] = Said(qs[n]) /\ Saying(fr[n]))
    BY <1>1, <1>2, <1>4, FragmentsAre
<1>6. Len(fr) = 1 => MatchSpans(qs, Folded(t)) = FindWithTrim(fr[1], Folded(t))
    BY <1>2, MatchWays
<1> HIDE DEF fr
<1>7. fr[1] = c /\ Saying(c)
    <2>1. 1 \in 1..Len(fr)
        BY <1>5
    <2> QED BY <1>1, <1>5, <2>1
<1>8. MatchSpans(qs, Folded(t)) = FindWithTrim(c, Folded(t))
    BY <1>5, <1>6, <1>7
<1> HIDE DEF c
<1>9. FindWithTrim(c, Folded(t)) = <<HitOf(Folded(t), c)>>
    <2>1. Find(Chars(Folded(t)), c, 1) # 0
        BY DEF Said, c
    <2> QED BY <1>7, <2>1, TrimWays
<1>10. HitOf(Folded(t), c) = Span(Folded(t), at, Len(c))
    BY DEF HitOf, Said, c
<1> QED BY <1>8, <1>9, <1>10 DEF qs, c

\* Two long enough texts that stand in another, one after the other, are found
\* as they are.
LEMMA FoundAgainTwo ==
    ASSUME NEW t \in Seq(Symbols), NEW w \in Seq(Symbols), NEW v \in Seq(Symbols),
           Len(Said(w)) # 0, Len(Said(v)) # 0,
           Len(Said(w)) >= MinFragment, Len(Said(v)) >= MinFragment,
           NEW at, at = Find(Said(t), Said(w), 1), at # 0,
           NEW to, to = Find(Said(t), Said(v), at + Len(Said(w))), to # 0
    PROVE  MatchSpans(<<w, v>>, Folded(t)) =
              <<Span(Folded(t), at, Len(Said(w))), Span(Folded(t), to, Len(Said(v)))>>
<1> DEFINE qs == <<w, v>>
           fr == Fragments(qs)
           c == Said(w)
           d == Said(v)
<1>1. /\ qs \in [1..2 -> Seq(Symbols)] /\ 2 \in {1, 2} /\ DOMAIN qs = 1..2 /\ Len(qs) = 2
      /\ qs[1] = w /\ qs[2] = v
    OBVIOUS
<1>2. Quoted(qs)
    BY <1>1 DEF Quoted
<1>3. c # <<>> /\ d # <<>>
    <2>1. (c = <<>> => Len(c) = 0) /\ (d = <<>> => Len(d) = 0)
        OBVIOUS
    <2> QED BY <2>1
<1>4. \A n \in DOMAIN qs : Said(qs[n]) # <<>>
    <2>1. \A n \in 1..2 : n = 1 \/ n = 2
        OBVIOUS
    <2> QED BY <1>1, <1>3, <2>1
<1> HIDE DEF qs
<1>5. Len(fr) = 2 /\ (\A n \in 1..Len(fr) : fr[n] = Said(qs[n]) /\ Saying(fr[n]))
    BY <1>1, <1>2, <1>4, FragmentsAre
<1>11. DOMAIN fr = 1..Len(fr)
    BY <1>2, FragmentsAre
<1>6. Len(fr) = 2 /\ (\A n \in 1..2 : Len(fr[n]) >= MinFragment) =>
          MatchSpans(qs, Folded(t)) = InOrder(fr, Folded(t))
    BY <1>2, MatchWays
<1> HIDE DEF fr
<1>7. fr[1] = c /\ fr[2] = d /\ DOMAIN fr = 1..2 /\ \A n \in 1..2 : Phrase(fr[n]) /\ Len(fr[n]) >= MinFragment
    <2>1. \A n \in 1..2 : n = 1 \/ n = 2
        OBVIOUS
    <2>2. 1 \in 1..Len(fr) /\ 2 \in 1..Len(fr)
        BY <1>5
    <2>3. fr[1] = c /\ fr[2] = d
        BY <1>1, <1>5, <2>2
    <2>4. \A n \in 1..2 : Phrase(fr[n])
        BY <1>5, SayingIs
    <2> HIDE DEF c, d
    <2> QED BY <1>5, <1>11, <2>1, <2>3, <2>4 DEF c, d
<1>8. MatchSpans(qs, Folded(t)) = InOrder(fr, Folded(t))
    BY <1>5, <1>6, <1>7
<1> HIDE DEF c, d
<1>9. InOrder(fr, Folded(t)) =
         IF at = 0 \/ to = 0 THEN <<>> ELSE <<Span(Folded(t), at, Len(c)), Span(Folded(t), to, Len(d))>>
    <2>1. LET p1 == Find(Said(t), fr[1], 1)
              p2 == Find(Said(t), fr[2], p1 + Len(fr[1]))
           IN InOrder(fr, Folded(t)) =
                 IF p1 = 0 \/ p2 = 0 THEN <<>>
                 ELSE <<Span(Folded(t), p1, Len(fr[1])), Span(Folded(t), p2, Len(fr[2]))>>
        BY <1>5, <1>7, SeekTwo
    <2>2. at = Find(Said(t), c, 1) /\ to = Find(Said(t), d, at + Len(c))
        BY DEF c, d
    <2> QED BY <1>7, <2>1, <2>2
<1> QED BY <1>8, <1>9 DEF qs, c, d

\* What is shown of the text t for the spans.
ShownOf(t, spans) ==
    [n \in DOMAIN spans |-> Stripped(SubSeq(t, spans[n].from, spans[n].to))]

\* A phrase that is found is shown as a stretch around it.
LEMMA FoundShows ==
    ASSUME NEW t \in Seq(Symbols), NEW c, Phrase(c), NEW from \in Nat \ {0},
           NEW p, p = Find(Said(t), c, from), p # 0
    PROVE  LET sp == Span(Folded(t), p, Len(c))
               w == Stripped(SubSeq(t, sp.from, sp.to))
           IN /\ p \in Nat /\ from <= p /\ Len(c) \in Nat /\ Len(c) # 0
              /\ p + Len(c) <= Len(Folded(t)) + 1
              /\ \E at : Shows(t, c, p, w, at)
              /\ Find(Said(w), c, 1) # 0
<1> DEFINE sp == Span(Folded(t), p, Len(c))
           w == Stripped(SubSeq(t, sp.from, sp.to))
<1>1. c \in Seq(Folds) /\ Len(c) # 0
    BY DEF Phrase
<1>2. Said(t) \in Seq(Folds) /\ Len(Said(t)) = Len(Folded(t))
    BY SaidType
<1>3. p \in Nat
    BY <1>1, <1>2, FindFirst
<1>4. from <= p /\ p + Len(c) <= Len(Said(t)) + 1 /\ StandsAt(Said(t), c, p)
    BY <1>1, <1>2, FindFirst
<1>5. p \in Nat \ {0} /\ Len(c) \in Nat
    BY <1>1, <1>3
<1>6. PICK at : Shows(t, c, p, w, at)
    BY <1>4, <1>5, ShownHeld
<1> HIDE DEF w
<1>7. Find(Said(w), c, 1) # 0
    <2> DEFINE x == Said(w)
               d == p - at + 1
    <2>1. /\ x \in Seq(Folds) /\ Len(x) # 0 /\ at \in Nat \ {0} /\ at <= p
          /\ p + Len(c) <= at + Len(x) /\ StandsAt(x, c, d)
        BY <1>6 DEF Shows, Holding
    <2> HIDE DEF x
    <2>2. d \in Nat /\ 1 <= d /\ d + Len(c) <= Len(x) + 1
        BY <1>5, <2>1
    <2> HIDE DEF d
    <2>3. 1 \in Nat \ {0}
        OBVIOUS
    <2> QED BY <1>1, <2>1, <2>2, <2>3, FindFirst DEF x
<1> QED BY <1>1, <1>2, <1>4, <1>5, <1>6, <1>7 DEF w

\* What is shown of one phrase, looked up again, is found where that was.
LEMMA OneShown ==
    ASSUME NEW t \in Seq(Symbols), NEW ms, NEW c, OneFound(t, ms, c)
    PROVE  /\ DOMAIN ms = 1..1 /\ Len(ms) = 1
           /\ MatchSpans(ShownOf(t, ms), Folded(t)) = ms
           /\ Find(Said(ShownOf(t, ms)[1]), c, 1) # 0
<1> DEFINE p == Find(Said(t), c, 1)
           sp == Span(Folded(t), p, Len(c))
           w == Stripped(SubSeq(t, sp.from, sp.to))
           sh == ShownOf(t, ms)
<1>1. Phrase(c) /\ p # 0 /\ ms = <<sp>> /\ 1 \in Nat \ {0}
    BY DEF OneFound, HitOf, Said
<1>2. DOMAIN ms = 1..1 /\ Len(ms) = 1 /\ ms[1] = sp
    <2> HIDE DEF sp
    <2> QED BY <1>1
<1>3. (\E at : Shows(t, c, p, w, at)) /\ Find(Said(w), c, 1) # 0
    BY <1>1, FoundShows
<1>4. sh = <<w>> /\ sh[1] = w
    <2>1. sh = [n \in 1..1 |-> Stripped(SubSeq(t, ms[n].from, ms[n].to))]
        BY <1>2 DEF ShownOf
    <2>2. \A n \in 1..1 : Stripped(SubSeq(t, ms[n].from, ms[n].to)) = w
        BY <1>2
    <2> HIDE DEF w
    <2>3. sh = [n \in 1..1 |-> w]
        BY <2>1, <2>2
    <2>4. <<w>> = [n \in 1..1 |-> w]
        OBVIOUS
    <2> QED BY <2>3, <2>4
<1>5. PICK at : Shows(t, c, p, w, at)
    BY <1>3
<1>6. /\ w \in Seq(Symbols) /\ Len(Said(w)) # 0 /\ at \in Nat \ {0}
      /\ Span(Folded(t), at, Len(Said(w))) = sp
    BY <1>5 DEF Shows, Holding
<1> HIDE DEF w, sp, sh
<1>7. 1 <= 1 /\ 1 <= at
    BY <1>6
<1>8. Find(Said(t), Said(w), 1) = at
    BY <1>1, <1>5, <1>7, ShownFirst
<1>9. MatchSpans(<<w>>, Folded(t)) = <<Span(Folded(t), at, Len(Said(w)))>>
    <2>1. at # 0
        BY <1>6
    <2> QED BY <1>6, <1>8, <2>1, FoundAgainOne
<1>10. MatchSpans(sh, Folded(t)) = ms
    BY <1>1, <1>4, <1>6, <1>9
<1> QED BY <1>2, <1>3, <1>4, <1>10 DEF sh

\* What is shown of two phrases, looked up again, is found where they were,
\* unless they share a character.
LEMMA TwoShown ==
    ASSUME NEW t \in Seq(Symbols), NEW ms, NEW c, NEW d, TwoFound(t, ms, c, d)
    PROVE  /\ DOMAIN ms = 1..2 /\ Len(ms) = 2
           /\ ms[1].to <= ms[2].from
           /\ ms[1].to < ms[2].from => MatchSpans(ShownOf(t, ms), Folded(t)) = ms
           /\ Find(Said(ShownOf(t, ms)[1]), c, 1) # 0
           /\ Find(Said(ShownOf(t, ms)[2]), d, 1) # 0
<1> DEFINE p == Find(Said(t), c, 1)
           e == p + Len(c)
           q == Find(Said(t), d, e)
           sp == Span(Folded(t), p, Len(c))
           sq == Span(Folded(t), q, Len(d))
           w == Stripped(SubSeq(t, sp.from, sp.to))
           v == Stripped(SubSeq(t, sq.from, sq.to))
           sh == ShownOf(t, ms)
<1>1. /\ Phrase(c) /\ Phrase(d) /\ Len(c) >= MinFragment /\ Len(d) >= MinFragment
      /\ p # 0 /\ q # 0 /\ ms = <<sp, sq>>
    BY DEF TwoFound
<1>2. DOMAIN ms = 1..2 /\ Len(ms) = 2 /\ ms[1] = sp /\ ms[2] = sq
    <2> HIDE DEF sp, sq
    <2> QED BY <1>1
<1>3. /\ p \in Nat /\ Len(c) \in Nat /\ Len(c) # 0 /\ p + Len(c) <= Len(Folded(t)) + 1
      /\ (\E at : Shows(t, c, p, w, at)) /\ Find(Said(w), c, 1) # 0
    <2>1. 1 \in Nat \ {0}
        OBVIOUS
    <2> QED BY <1>1, <2>1, FoundShows
<1>4. e \in Nat \ {0}
    <2> HIDE DEF p
    <2> QED BY <1>1, <1>3
<1>5. /\ q \in Nat /\ e <= q /\ Len(d) \in Nat /\ Len(d) # 0 /\ q + Len(d) <= Len(Folded(t)) + 1
      /\ (\E to : Shows(t, d, q, v, to)) /\ Find(Said(v), d, 1) # 0
    <2> HIDE DEF e
    <2> QED BY <1>1, <1>4, FoundShows
<1>6. sh = <<w, v>> /\ sh[1] = w /\ sh[2] = v
    <2>1. sh = [n \in 1..2 |-> Stripped(SubSeq(t, ms[n].from, ms[n].to))]
        BY <1>2 DEF ShownOf
    <2>2. /\ Stripped(SubSeq(t, ms[1].from, ms[1].to)) = w
          /\ Stripped(SubSeq(t, ms[2].from, ms[2].to)) = v
        BY <1>2
    <2> HIDE DEF w, v
    <2>3. 1 \in 1..2 /\ 2 \in 1..2 /\ \A n \in 1..2 : n = 1 \/ n = 2
        OBVIOUS
    <2>4. sh[1] = w /\ sh[2] = v
        BY <2>1, <2>2, <2>3
    <2>5. sh = [n \in 1..2 |-> sh[n]]
        BY <2>1
    <2>6. DOMAIN <<w, v>> = 1..2 /\ <<w, v>>[1] = w /\ <<w, v>>[2] = v
        OBVIOUS
    <2>7. <<w, v>> = [n \in 1..2 |-> <<w, v>>[n]]
        BY <2>6
    <2>8. \A n \in 1..2 : sh[n] = <<w, v>>[n]
        BY <2>3, <2>4, <2>6
    <2>9. sh = <<w, v>>
        BY <2>5, <2>7, <2>8
    <2> QED BY <2>4, <2>9
<1>7. ms[1].to <= ms[2].from
    <2> DEFINE l == p + Len(c) - 1
               n == Len(Folded(t))
    <2>1. n \in Nat
        BY SaidType
    <2>2. l \in 1..n /\ q \in 1..n /\ l <= q
        <3> HIDE DEF p, q, n
        <3> QED BY <1>1, <1>3, <1>5, <2>1 DEF n
    <2>3. Folded(t)[l].from <= Folded(t)[q].from
        <3> HIDE DEF l, q
        <3> QED BY <2>2, FromInOrder
    <2>4. sp.to = Folded(t)[l].from /\ sq.from = Folded(t)[q].from
        BY DEF Span
    <2> HIDE DEF sp, sq
    <2> QED BY <1>2, <2>3, <2>4
<1>8. ASSUME ms[1].to < ms[2].from PROVE MatchSpans(sh, Folded(t)) = ms
    <2>1. PICK at : Shows(t, c, p, w, at)
        BY <1>3
    <2>2. PICK to : Shows(t, d, q, v, to)
        BY <1>5
    <2> HIDE DEF w, v, sh
    <2>3. /\ w \in Seq(Symbols) /\ Len(Said(w)) # 0 /\ Said(w) \in Seq(Folds) /\ at \in Nat \ {0}
          /\ Span(Folded(t), at, Len(Said(w))) = sp /\ p + Len(c) <= at + Len(Said(w))
          /\ at <= p
          /\ Holding(t, Said(w), sp.from, sp.to, at) /\ sp.from \in 1..Len(t) /\ sp.to \in 1..Len(t)
        BY <2>1 DEF Shows, Holding
    <2>4. /\ v \in Seq(Symbols) /\ Len(Said(v)) # 0 /\ Said(v) \in Seq(Folds) /\ to \in Nat \ {0}
          /\ Span(Folded(t), to, Len(Said(v))) = sq /\ q + Len(d) <= to + Len(Said(v))
          /\ to <= q
          /\ Holding(t, Said(v), sq.from, sq.to, to) /\ sq.from \in 1..Len(t) /\ sq.to \in 1..Len(t)
        BY <2>2 DEF Shows, Holding
    <2> DEFINE k == at + Len(Said(w))
    <2>5. k <= to
        <3>1. sp.to < sq.from
            BY <1>2, <1>8
        <3>2. sp.from \in Int /\ sp.to \in Int /\ sq.from \in Int /\ sq.to \in Int
            BY <2>3, <2>4
        <3> HIDE DEF sp, sq
        <3> QED BY <2>3, <2>4, <3>1, <3>2, HeldInOrder
    <2>6. /\ Len(Said(w)) \in Nat /\ Len(Said(v)) \in Nat
          /\ k \in Nat \ {0} /\ e <= k /\ 1 <= at /\ 1 <= 1 /\ 1 \in Nat \ {0}
        <3> HIDE DEF p
        <3> QED BY <1>3, <2>3, <2>4
    <2>7. Find(Said(t), Said(w), 1) = at
        <3> HIDE DEF k, sp
        <3> QED BY <1>1, <2>1, <2>6, ShownFirst
    <2>8. Find(Said(t), Said(v), k) = to
        <3> HIDE DEF k, e, sp, sq
        <3> QED BY <1>1, <1>4, <2>2, <2>5, <2>6, ShownFirst
    <2>9. Len(Said(w)) >= MinFragment /\ Len(Said(v)) >= MinFragment
        <3> DEFINE x == Len(Said(w))
                   y == Len(Said(v))
        <3>1. x \in Nat /\ y \in Nat /\ MinFragment \in Nat
            BY <2>6, ProvenanceAssumption
        <3>2. Len(c) <= x /\ Len(d) <= y
            <4> HIDE DEF x, y, p, q
            <4> QED BY <1>1, <1>3, <1>5, <2>3, <2>4, <3>1 DEF x, y
        <3> HIDE DEF x, y
        <3> QED BY <1>1, <1>3, <1>5, <3>1, <3>2 DEF x, y
    <2>10. MatchSpans(<<w, v>>, Folded(t)) =
              <<Span(Folded(t), at, Len(Said(w))), Span(Folded(t), to, Len(Said(v)))>>
        <3>1. at # 0 /\ to # 0
            BY <2>3, <2>4
        <3>2. at = Find(Said(t), Said(w), 1) /\ to = Find(Said(t), Said(v), at + Len(Said(w)))
            BY <2>7, <2>8
        <3>3. /\ w \in Seq(Symbols) /\ Len(Said(w)) # 0
              /\ v \in Seq(Symbols) /\ Len(Said(v)) # 0
            BY <2>3, <2>4
        <3> HIDE DEF k, e, sp, sq, p, q
        <3> QED BY <2>9, <3>1, <3>2, <3>3, FoundAgainTwo
    <2> HIDE DEF sp, sq
    <2> QED BY <1>1, <1>6, <2>3, <2>4, <2>10
<1> HIDE DEF w, v, sp, sq, sh
<1> QED BY <1>2, <1>3, <1>5, <1>6, <1>7, <1>8 DEF sh

\* A part that stands in the text is found and says something.
LEMMA HeldSays ==
    ASSUME NEW t \in Seq(Symbols), NEW c, NEW p, NEW q, NEW at, Holding(t, c, p, q, at)
    PROVE  c # <<>> /\ Find(Said(t), c, 1) # 0
<1>1. at \in Nat \ {0} /\ Len(c) # 0
    BY DEF Holding
<1>2. 1 <= at /\ 1 \in Nat \ {0}
    BY <1>1
<1>3. c = <<>> => Len(c) = 0
    OBVIOUS
<1> QED BY <1>1, <1>2, <1>3, HeldFound

\* The parts of a quote that stand in the text are its fragments.
LEMMA StandingFragments ==
    ASSUME text \in Seq(Symbols), QuoteStands
    PROVE  /\ DOMAIN quote = 1..Len(quote) /\ Len(quote) \in {1, 2} /\ Quoted(quote)
           /\ Len(Fragments(quote)) = Len(quote)
           /\ \A n \in 1..Len(quote) :
                 /\ Fragments(quote)[n] = Said(quote[n])
                 /\ Find(Said(text), Said(quote[n]), 1) # 0
<1> DEFINE m == Len(quote)
<1>1. ASSUME NEW k \in {1, 2}, quote \in [1..k -> Seq(Symbols)] PROVE DOMAIN quote = 1..k /\ m = k
    <2>1. k \in Nat
        OBVIOUS
    <2> QED BY <1>1, <2>1
<1>2. 1 \in {1, 2} /\ 2 \in {1, 2} /\ (\A n \in 1..1 : n = 1) /\ (\A n \in 1..2 : n = 1 \/ n = 2)
    OBVIOUS
<1> HIDE DEF m
<1>3. /\ DOMAIN quote = 1..m /\ m \in {1, 2} /\ Quoted(quote)
      /\ \A n \in 1..m : \E p, q, at : Holding(text, Said(quote[n]), p, q, at)
    <2>1. CASE /\ quote \in [1..1 -> Seq(Symbols)]
               /\ \E p, q \in Int :
                     Range(read[1]) = p..q /\ \E at : Holding(text, Said(quote[1]), p, q, at)
        <3>1. DOMAIN quote = 1..1 /\ m = 1
            BY <1>1, <1>2, <2>1
        <3>2. \A n \in 1..1 : \E p, q, at : Holding(text, Said(quote[n]), p, q, at)
            BY <1>2, <2>1
        <3> QED BY <1>2, <2>1, <3>1, <3>2 DEF Quoted
    <2>2. CASE /\ quote \in [1..2 -> Seq(Symbols)]
               /\ \E p, q, r, s \in Int :
                     /\ q < r /\ Range(read[1]) = p..q
                     /\ \E at : Holding(text, Said(quote[1]), p, q, at)
                     /\ \E to : Holding(text, Said(quote[2]), r, s, to)
        <3>1. DOMAIN quote = 1..2 /\ m = 2
            BY <1>1, <1>2, <2>2
        <3>2. \A n \in 1..2 : \E p, q, at : Holding(text, Said(quote[n]), p, q, at)
            BY <1>2, <2>2
        <3> QED BY <1>2, <2>2, <3>1, <3>2 DEF Quoted
    <2> QED BY <2>1, <2>2 DEF QuoteStands
<1>4. \A n \in 1..m : Said(quote[n]) # <<>> /\ Find(Said(text), Said(quote[n]), 1) # 0
    BY <1>3, HeldSays
<1>5. /\ Len(Fragments(quote)) = m
      /\ \A n \in 1..Len(Fragments(quote)) : Fragments(quote)[n] = Said(quote[n])
    <2>1. \A n \in DOMAIN quote : Said(quote[n]) # <<>>
        BY <1>3, <1>4
    <2> QED BY <1>3, <2>1, FragmentsAre DEF m
<1> QED BY <1>3, <1>4, <1>5 DEF m

\* What is shown is what was found.
LEMMA ShownRight ==
    TextTyped /\ SectionsInv /\ ReadInv /\ SnapInv => ShownIsFound
<1> SUFFICES ASSUME TextTyped, SectionsInv, ReadInv, SnapInv, Snapped
             PROVE  /\ \A n \in 1..(Len(finding.spans) - 1) : finding.spans[n].to <= finding.spans[n + 1].from
                    /\ (\A n \in 1..(Len(finding.spans) - 1) : finding.spans[n].to < finding.spans[n + 1].from) =>
                          MatchSpans(Shown, Folded(text)) = finding.spans
                    /\ Faithful /\ Len(quote) = Len(Shown) =>
                          \A n \in DOMAIN quote :
                              Find(Chars(Folded(Shown[n])), Chars(Folded(quote[n])), 1) # 0
    BY DEF ShownIsFound
<1> DEFINE ms == finding.spans
           fr == Fragments(quote)
<1>1. text \in Seq(Symbols)
    BY TextSymbols DEF TextTyped
<1>2. stage = "snapped" /\ Quoted(quote) /\ ms = MatchSpans(quote, Folded(text)) /\ ms # <<>>
    BY DEF Snapped, SnapInv, ReadInv
<1>3. Shown = ShownOf(text, ms)
    BY DEF Shown, ShownOf
<1> HIDE DEF ms, fr
<1>4. /\ (\E c : OneFound(text, ms, c)) \/ (Len(fr) = 2 /\ TwoFound(text, ms, fr[1], fr[2]))
      /\ Len(fr) = 1 /\ Find(Said(text), fr[1], 1) # 0 => OneFound(text, ms, fr[1])
    BY <1>1, <1>2, FoundWays DEF fr
<1>5. Faithful => /\ DOMAIN quote = 1..Len(quote) /\ Len(quote) \in {1, 2}
                  /\ Len(fr) = Len(quote)
                  /\ \A n \in 1..Len(quote) : fr[n] = Said(quote[n]) /\ Find(Said(text), fr[n], 1) # 0
    <2> SUFFICES ASSUME Faithful
                 PROVE  /\ DOMAIN quote = 1..Len(quote) /\ Len(quote) \in {1, 2}
                        /\ Len(fr) = Len(quote)
                        /\ \A n \in 1..Len(quote) : fr[n] = Said(quote[n]) /\ Find(Said(text), fr[n], 1) # 0
        OBVIOUS
    <2>1. QuoteStands
        BY <1>2, FaithfulStands
    <2> QED BY <1>1, <2>1, StandingFragments DEF fr
<1>6. Len(ms) = Len(Shown)
    <2>1. DOMAIN ms = DOMAIN Shown
        BY <1>3 DEF ShownOf
    <2>2. CASE \E c : OneFound(text, ms, c)
        <3>1. DOMAIN ms = 1..1 /\ Len(ms) = 1
            BY <1>1, <2>2, OneShown
        <3>2. Shown = [n \in 1..1 |-> Shown[n]]
            BY <1>3, <3>1 DEF ShownOf
        <3>3. Len([n \in 1..1 |-> Shown[n]]) = 1
            OBVIOUS
        <3> QED BY <3>1, <3>2, <3>3
    <2>3. CASE Len(fr) = 2 /\ TwoFound(text, ms, fr[1], fr[2])
        <3>1. DOMAIN ms = 1..2 /\ Len(ms) = 2
            BY <1>1, <2>3, TwoShown
        <3>2. Shown = [n \in 1..2 |-> Shown[n]]
            BY <1>3, <3>1 DEF ShownOf
        <3>3. Len([n \in 1..2 |-> Shown[n]]) = 2
            OBVIOUS
        <3> QED BY <3>1, <3>2, <3>3
    <2> QED BY <1>4, <2>2, <2>3
<1>7. CASE \E c : OneFound(text, ms, c)
    <2>1. PICK c : OneFound(text, ms, c)
        BY <1>7
    <2>2. Len(ms) = 1 /\ MatchSpans(Shown, Folded(text)) = ms
        BY <1>1, <1>3, <2>1, OneShown
    <2>3. \A n \in 1..(Len(ms) - 1) : ms[n].to <= ms[n + 1].from
        BY <2>2
    <2>4. ASSUME Faithful, Len(quote) = Len(Shown), NEW n \in DOMAIN quote
          PROVE  Find(Said(Shown[n]), Said(quote[n]), 1) # 0
        <3>1. Len(quote) = 1 /\ n = 1 /\ Len(fr) = 1 /\ 1 \in 1..Len(quote)
            BY <1>5, <1>6, <2>2, <2>4
        <3>2. fr[1] = Said(quote[1]) /\ Find(Said(text), fr[1], 1) # 0
            BY <1>5, <2>4, <3>1
        <3>3. OneFound(text, ms, fr[1])
            BY <1>4, <3>1, <3>2
        <3>4. Find(Said(ShownOf(text, ms)[1]), fr[1], 1) # 0
            BY <1>1, <3>3, OneShown
        <3> QED BY <1>3, <3>1, <3>2, <3>4
    <2> QED BY <2>2, <2>3, <2>4 DEF ms, Said
<1>8. CASE Len(fr) = 2 /\ TwoFound(text, ms, fr[1], fr[2])
    <2>1. /\ Len(ms) = 2 /\ ms[1].to <= ms[2].from
          /\ ms[1].to < ms[2].from => MatchSpans(Shown, Folded(text)) = ms
          /\ Find(Said(Shown[1]), fr[1], 1) # 0
          /\ Find(Said(Shown[2]), fr[2], 1) # 0
        BY <1>1, <1>3, <1>8, TwoShown
    <2>2. 1 \in 1..(Len(ms) - 1) /\ \A n \in 1..(Len(ms) - 1) : n = 1 /\ n + 1 = 2
        BY <2>1
    <2>3. \A n \in 1..(Len(ms) - 1) : ms[n].to <= ms[n + 1].from
        BY <2>1, <2>2
    <2>4. (\A n \in 1..(Len(ms) - 1) : ms[n].to < ms[n + 1].from) => ms[1].to < ms[2].from
        BY <2>2
    <2>5. ASSUME Faithful, Len(quote) = Len(Shown), NEW n \in DOMAIN quote
          PROVE  Find(Said(Shown[n]), Said(quote[n]), 1) # 0
        <3>1. n \in 1..Len(quote) /\ (n = 1 \/ n = 2)
            BY <1>5, <1>8, <2>5
        <3>2. fr[n] = Said(quote[n])
            BY <1>5, <2>5, <3>1
        <3> QED BY <2>1, <3>1, <3>2
    <2> QED BY <2>1, <2>3, <2>4, <2>5 DEF ms, Said
<1> QED BY <1>4, <1>7, <1>8

\* What is shown of a passage, looked up again, is found where the passage was,
\* and it holds every part of the quote that was looked for.
THEOREM PassagesAreShown == Spec => []ShownIsFound
<1>1. Init => SectionsInv /\ ReadInv /\ SnapInv
    BY DEF Init, SectionsInv, ReadInv, SnapInv
<1> QED BY TextTypedInit, TextTypedNext, SectionsNext, ReadNext, SnapNext, ShownRight, <1>1, PTL DEF Spec

----------------------------------------------------------------------------
(* Where a passage is placed: its headings.                                *)

\* The headings that may be open.
Stacks == Seq([level : Nat, line : Int])

\* What a heading line is on the stack.
Entry(t, h) == [level |-> HeadingLevel(t, h), line |-> h]

\* Those of H that no later one of H closes.
Open(t, H) == {h \in H : \A g \in H : h < g => HeadingLevel(t, h) < HeadingLevel(t, g)}

\* A heading has a level.
LEMMA HeadingLevelType ==
    ASSUME NEW t, NEW i
    PROVE  HeadingLevel(t, i) \in Nat
<1> DEFINE Is(x) == /\ i + x[1] + x[2] <= Len(t)
                    /\ \A k \in i..(i + x[1] - 1) : t[k] = " "
                    /\ \A k \in (i + x[1])..(i + x[1] + x[2] - 1) : t[k] = "#"
                    /\ t[i + x[1] + x[2]] \in Blanks
           fits == {x \in (0..3) \X (1..6) : Is(x)}
           x == CHOOSE x \in fits : TRUE
<1>1. HeadingLevel(t, i) = IF fits = {} THEN 0 ELSE x[2]
    BY DEF HeadingLevel
<1> HIDE DEF Is
<1>2. fits # {} => x \in fits
    OBVIOUS
<1> HIDE DEF x
<1>3. fits # {} => x \in (0..3) \X (1..6)
    BY <1>2
<1>4. fits # {} => x[2] \in Nat
    BY <1>3
<1> HIDE DEF fits
<1> QED BY <1>1, <1>4

\* A heading closes those of its level and below, and is open.
LEMMA EnterIs ==
    ASSUME NEW t, NEW i \in Int, NEW stack \in Stacks
    PROVE  /\ Enter(t, stack, i) \in Stacks
           /\ Range(Enter(t, stack, i)) =
                 {e \in Range(stack) : e.level < HeadingLevel(t, i)} \cup {Entry(t, i)}
<1> DEFINE E == [level : Nat, line : Int]
           l == HeadingLevel(t, i)
           m == Len(stack)
           B == {n \in DOMAIN stack : stack[n].level < l}
           c == Cardinality(B)
           s == Sorted(B)
           u == Under(stack, l)
           new == Enter(t, stack, i)
<1>1. stack \in Seq(E) /\ m \in Nat /\ DOMAIN stack = 1..m /\ \A n \in 1..m : stack[n] \in E
    <2>1. stack \in Seq(E)
        BY DEF Stacks
    <2> HIDE DEF E
    <2> QED BY <2>1
<1>2. l \in Nat /\ Entry(t, i) \in E /\ new = Append(u, Entry(t, i))
    <2>1. l \in Nat
        BY HeadingLevelType
    <2> QED BY <2>1 DEF Entry, Enter
<1> HIDE DEF l, E
<1>3. B \subseteq 1..m /\ B \subseteq Int /\ IsFiniteSet(B)
    <2>1. B \subseteq 1..m /\ IsFiniteSet(1..m) /\ 1..m \subseteq Int
        BY <1>1, FS_Interval
    <2> HIDE DEF B
    <2> QED BY <2>1, FS_Subset
<1>4. c \in Nat /\ Lists(s, B)
    BY <1>3, SortedLists
<1>5. s \in [1..c -> B] /\ \A x \in B : \E n \in 1..c : s[n] = x
    BY <1>4 DEF Lists
<1>6. u = [n \in DOMAIN s |-> stack[s[n]]]
    BY DEF Under, Those
<1>7. \A x \in B : x \in 1..m /\ stack[x] \in E /\ stack[x].level < l
    BY <1>1, <1>3
<1>8. \A x \in 1..m : stack[x].level < l => x \in B
    BY <1>1
<1> HIDE DEF s, B, u, c
<1>9. u = [n \in 1..c |-> stack[s[n]]] /\ \A n \in 1..c : stack[s[n]] \in E
    BY <1>5, <1>6, <1>7
<1>10. u \in Seq(E)
    BY <1>4, <1>9
<1>11. DOMAIN u = 1..c /\ Len(u) = c
    BY <1>4, <1>9
<1>12. Range(u) = {e \in Range(stack) : e.level < l}
    <2>1. Range(u) = {u[n] : n \in 1..c} /\ Range(stack) = {stack[n] : n \in 1..m}
        BY <1>1, <1>11 DEF Range
    <2>2. \A n \in 1..c : \E x \in 1..m : u[n] = stack[x] /\ stack[x].level < l
        BY <1>5, <1>7, <1>9
    <2>3. \A x \in 1..m : stack[x].level < l => \E n \in 1..c : u[n] = stack[x]
        BY <1>5, <1>8, <1>9
    <2> QED BY <2>1, <2>2, <2>3
<1>13. new \in Seq(E) /\ Range(new) = Range(u) \cup {Entry(t, i)}
    <2> DEFINE x == Entry(t, i)
    <2> HIDE DEF x
    <2>1. new = Append(u, x) /\ x \in E
        BY <1>2 DEF x
    <2> HIDE DEF new
    <2>2. /\ new \in Seq(E) /\ Len(new) = c + 1 /\ new[c + 1] = x
          /\ \A n \in 1..c : new[n] = u[n]
        BY <1>10, <1>11, <2>1, AppendProperties
    <2>3. DOMAIN new = 1..(c + 1)
        BY <2>2
    <2>4. Range(new) = {new[n] : n \in 1..(c + 1)} /\ Range(u) = {u[n] : n \in 1..c}
        BY <1>11, <2>3 DEF Range
    <2>5. 1..(c + 1) = (1..c) \cup {c + 1}
        BY <1>4
    <2>6. Range(new) = {new[n] : n \in 1..c} \cup {x}
        BY <2>2, <2>4, <2>5
    <2>7. {new[n] : n \in 1..c} = {u[n] : n \in 1..c}
        BY <2>2
    <2> QED BY <2>2, <2>4, <2>6, <2>7 DEF x
<1> QED BY <1>12, <1>13 DEF Stacks, E, l

\* The stack after the lines.
Climbed(t, lines) == FoldLeft(LAMBDA stack, i : Enter(t, stack, i), <<>>, lines)

HeadingFold(t, lines, h) ==
    h = [s \in SUBSET DOMAIN lines |->
            IF s = {} THEN <<>> ELSE Enter(t, h[s \ {Max(s)}], lines[Max(s)])]

\* The pass over the heading lines, step by step.
LEMMA HeadingSteps ==
    ASSUME NEW t, NEW n \in Nat, NEW lines \in [1..n -> Int]
    PROVE  \E it :
              /\ it[1..0] = <<>>
              /\ \A k \in 0..(n - 1) : it[1..(k + 1)] = Enter(t, it[1..k], lines[k + 1])
              /\ Climbed(t, lines) = it[1..n]
<1> DEFINE op == [x \in (1..n) \X Stacks |-> Enter(t, x[2], lines[x[1]])]
           it == CHOOSE h : HeadingFold(t, lines, h)
<1>1. DOMAIN lines = 1..n /\ \A i \in 1..n : lines[i] \in Int
    OBVIOUS
<1>2. op \in [(1..n) \X Stacks -> Stacks]
    BY <1>1, EnterIs
<1>3. <<>> \in Stacks
    BY DEF Stacks
<1> HIDE DEF op
<1>4. \E h : HeadingFold(t, lines, h)
    <2>1. PICK h : IsLeftFold(h, n, Stacks, <<>>, op)
        BY <1>2, <1>3, LeftFoldExists
    <2>2. \A s \in SUBSET (1..n) :
              h[s] = IF s = {} THEN <<>> ELSE Enter(t, h[s \ {Max(s)}], lines[Max(s)])
        BY <2>1 DEF op, IsLeftFold
    <2>3. h = [s \in SUBSET (1..n) |-> h[s]]
        BY <2>1 DEF IsLeftFold
    <2>4. h = [s \in SUBSET (1..n) |->
                IF s = {} THEN <<>> ELSE Enter(t, h[s \ {Max(s)}], lines[Max(s)])]
        BY <2>2, <2>3
    <2>5. HeadingFold(t, lines, h)
        BY <1>1, <2>4 DEF HeadingFold
    <2> QED BY <2>5
<1>5. HeadingFold(t, lines, it)
    BY <1>4
<1>8. Climbed(t, lines) = it[1..n]
    BY <1>1 DEF Climbed, it, HeadingFold, FoldLeft, MapThenFoldSet
<1> HIDE DEF it
<1>6. it[1..0] = <<>>
    BY <1>1, <1>5 DEF HeadingFold
<1>7. ASSUME NEW k \in 0..(n - 1)
      PROVE  it[1..(k + 1)] = Enter(t, it[1..k], lines[k + 1])
    <2>1. Max(1..(k + 1)) = k + 1 /\ (1..(k + 1)) \ {Max(1..(k + 1))} = 1..k
        BY MaxOfInterval
    <2>2. 1..(k + 1) \in SUBSET (1..n) /\ 1..(k + 1) # {}
        <3>1. k + 1 \in 1..(k + 1) /\ \A i \in 1..(k + 1) : i \in 1..n
            OBVIOUS
        <3> QED BY <3>1
    <2> QED BY <1>1, <1>5, <2>1, <2>2 DEF HeadingFold
<1> QED BY <1>6, <1>7, <1>8

\* Over the heading lines in their order, those stay that no later one closes.
LEMMA HeadingsOpen ==
    ASSUME NEW t, NEW H, H \subseteq Int, IsFiniteSet(H)
    PROVE  LET path == Climbed(t, Sorted(H))
           IN path \in Stacks /\ Range(path) = {Entry(t, h) : h \in Open(t, H)}
<1> DEFINE n == Cardinality(H)
           s == Sorted(H)
           First(k) == {s[j] : j \in 1..k}
<1>1. n \in Nat /\ Lists(s, H)
    BY SortedLists
<1>2. /\ s \in [1..n -> H] /\ \A i, j \in 1..n : i < j => s[i] < s[j]
      /\ \A x \in H : \E i \in 1..n : s[i] = x
    BY <1>1 DEF Lists
<1>3. s \in [1..n -> Int]
    BY <1>2
<1> HIDE DEF n, s
<1>4. PICK it :
          /\ it[1..0] = <<>>
          /\ \A k \in 0..(n - 1) : it[1..(k + 1)] = Enter(t, it[1..k], s[k + 1])
          /\ Climbed(t, s) = it[1..n]
    BY <1>1, <1>3, HeadingSteps
<1> DEFINE Right(stack, K) == stack \in Stacks /\ Range(stack) = {Entry(t, h) : h \in Open(t, K)}
           P == {k \in Nat : k <= n => Right(it[1..k], First(k))}
<1>5. 0 \in P
    <2>1. First(0) = {}
        OBVIOUS
    <2>2. <<>> \in Stacks /\ Range(<<>>) = {}
        BY DEF Stacks, Range
    <2>3. Open(t, {}) = {}
        BY DEF Open
    <2>4. Right(it[1..0], First(0))
        BY <1>4, <2>1, <2>2, <2>3
    <2> QED BY <2>4
<1>6. ASSUME NEW k \in Nat, k \in P PROVE k + 1 \in P
    <2> HIDE DEF First, Right
    <2> SUFFICES ASSUME k + 1 <= n PROVE Right(it[1..(k + 1)], First(k + 1))
        OBVIOUS
    <2> USE DEF First, Right
    <2> DEFINE stack == it[1..k]
               i == s[k + 1]
               K == First(k)
    <2>1. k \in 0..(n - 1) /\ k + 1 \in 1..n /\ k <= n
        BY <1>1
    <2>2. Right(stack, K) /\ it[1..(k + 1)] = Enter(t, stack, i) /\ i \in Int
        BY <1>3, <1>4, <1>6, <2>1
    <2>3. First(k + 1) = K \cup {i}
        <3>1. 1..(k + 1) = (1..k) \cup {k + 1}
            OBVIOUS
        <3> QED BY <3>1
    <2>4. \A h \in K : h \in Int /\ h < i
        <3> SUFFICES ASSUME NEW j \in 1..k PROVE s[j] \in Int /\ s[j] < s[k + 1]
            OBVIOUS
        <3>1. j \in 1..n /\ j < k + 1
            <4> HIDE DEF First, Right, P
            <4> QED BY <1>1, <2>1
        <3> QED BY <1>2, <1>3, <2>1, <3>1
    <2> HIDE DEF stack, i, K, First
    <2>5. stack \in Stacks /\ Range(stack) = {Entry(t, h) : h \in Open(t, K)}
        BY <2>2
    <2>6. /\ Enter(t, stack, i) \in Stacks
          /\ Range(Enter(t, stack, i)) =
                {e \in Range(stack) : e.level < HeadingLevel(t, i)} \cup {Entry(t, i)}
        BY <2>2, <2>5, EnterIs
    <2>7. Open(t, K \cup {i}) = {h \in Open(t, K) : HeadingLevel(t, h) < HeadingLevel(t, i)} \cup {i}
        <3>1. i \in Open(t, K \cup {i})
            <4>1. \A g \in K \cup {i} : ~(i < g)
                BY <2>2, <2>4
            <4> QED BY <4>1 DEF Open
        <3>2. ASSUME NEW h \in K
              PROVE  h \in Open(t, K \cup {i}) <=>
                        h \in Open(t, K) /\ HeadingLevel(t, h) < HeadingLevel(t, i)
            <4>1. h < i
                BY <2>4
            <4> QED BY <4>1 DEF Open
        <3>3. Open(t, K \cup {i}) \subseteq K \cup {i} /\ Open(t, K) \subseteq K
            BY DEF Open
        <3> QED BY <3>1, <3>2, <3>3
    <2>8. {e \in Range(stack) : e.level < HeadingLevel(t, i)} =
              {Entry(t, h) : h \in {h \in Open(t, K) : HeadingLevel(t, h) < HeadingLevel(t, i)}}
        <3>1. \A h : Entry(t, h).level = HeadingLevel(t, h)
            BY DEF Entry
        <3> QED BY <2>5, <3>1
    <2>9. Range(Enter(t, stack, i)) = {Entry(t, h) : h \in Open(t, K \cup {i})}
        BY <2>6, <2>7, <2>8
    <2> QED BY <2>2, <2>3, <2>6, <2>9 DEF Right
<1> HIDE DEF P
<1>7. n \in P
    BY <1>1, <1>5, <1>6, CountingUp
<1>8. Right(it[1..n], First(n))
    <2> HIDE DEF First, Right
    <2> QED BY <1>1, <1>7 DEF P
<1>9. First(n) = H
    BY <1>2
<1> QED BY <1>4, <1>8, <1>9 DEF s

\* The path of a position are the headings above it.
LEMMA PathIsAbove ==
    ASSUME NEW t, NEW m \in Nat, DOMAIN t = 1..m, NEW p
    PROVE  LET path == HeadingPathAt(t, p)
               H == {i \in HeadingLines(t) : i < p}
           IN {path[k].line : k \in DOMAIN path} = Open(t, H)
<1> DEFINE path == HeadingPathAt(t, p)
           H == {i \in HeadingLines(t) : i < p}
<1>1. H \subseteq 1..m /\ H \subseteq Int /\ IsFiniteSet(H)
    <2>1. H \subseteq 1..m /\ IsFiniteSet(1..m) /\ 1..m \subseteq Int
        BY FS_Interval DEF HeadingLines, LineStarts
    <2> HIDE DEF H
    <2> QED BY <2>1, FS_Subset
<1>2. path = Climbed(t, Sorted(H))
    BY DEF HeadingPathAt, Climbed
<1> HIDE DEF path, H
<1>3. path \in Stacks /\ Range(path) = {Entry(t, h) : h \in Open(t, H)}
    BY <1>1, <1>2, HeadingsOpen
<1>4. Range(path) = {path[k] : k \in DOMAIN path}
    BY DEF Range
<1>5. \A h : Entry(t, h).line = h
    BY DEF Entry
<1>6. \A k \in DOMAIN path : path[k].line \in Open(t, H)
    BY <1>3, <1>4, <1>5
<1>7. ASSUME NEW h \in Open(t, H) PROVE \E k \in DOMAIN path : path[k].line = h
    <2>1. Entry(t, h) \in Range(path)
        BY <1>3
    <2>2. PICK k \in DOMAIN path : path[k] = Entry(t, h)
        BY <1>4, <2>1
    <2> QED BY <1>5, <2>2
<1> QED BY <1>6, <1>7 DEF path, H

----------------------------------------------------------------------------
(* Where a passage is placed: its page.                                    *)

\* Marks in order are so from any to any later one.
LEMMA MarksAscend ==
    ASSUME NEW ms \in Seq(Marks), InOrderMarks(ms)
    PROVE  \A i, j \in 1..Len(ms) : i < j => ms[i].at < ms[j].at
<1> DEFINE n == Len(ms)
<1>1. n \in Nat /\ \A i \in 1..n : ms[i].at \in Nat
    <2>1. n \in Nat /\ \A i \in 1..n : ms[i] \in Marks
        OBVIOUS
    <2> HIDE DEF n
    <2> QED BY <2>1 DEF Marks
<1>2. \A i \in 1..(n - 1) : ms[i].at < ms[i + 1].at
    BY DEF InOrderMarks
<1> HIDE DEF n
<1> DEFINE P == {d \in Nat : \A i \in 1..n : i + d + 1 <= n => ms[i].at < ms[i + d + 1].at}
<1>3. 0 \in P
    <2> SUFFICES ASSUME NEW i \in 1..n, i + 0 + 1 <= n PROVE ms[i].at < ms[i + 0 + 1].at
        OBVIOUS
    <2>1. i \in 1..(n - 1) /\ i + 0 + 1 = i + 1
        BY <1>1
    <2> QED BY <1>2, <2>1
<1>4. ASSUME NEW d \in Nat, d \in P PROVE d + 1 \in P
    <2> SUFFICES ASSUME NEW i \in 1..n, i + (d + 1) + 1 <= n PROVE ms[i].at < ms[i + (d + 1) + 1].at
        OBVIOUS
    <2> DEFINE j == i + d + 1
    <2>1. j \in 1..(n - 1) /\ j \in 1..n /\ j <= n /\ i + (d + 1) + 1 = j + 1 /\ j + 1 \in 1..n
        BY <1>1
    <2>2. ms[i].at < ms[j].at
        BY <1>4, <2>1
    <2> HIDE DEF j
    <2>3. ms[j].at < ms[j + 1].at
        BY <1>2, <2>1
    <2>4. ms[i].at \in Nat /\ ms[j].at \in Nat /\ ms[j + 1].at \in Nat
        BY <1>1, <2>1
    <2>5. ms[i].at < ms[j + 1].at
        BY <2>2, <2>3, <2>4
    <2> QED BY <2>1, <2>5
<1> HIDE DEF P
<1>5. Nat \subseteq P
    BY <1>3, <1>4, CountingUp
<1>6. ASSUME NEW i \in 1..n, NEW j \in 1..n, i < j PROVE ms[i].at < ms[j].at
    <2> DEFINE d == j - i - 1
    <2>1. d \in Nat /\ i + d + 1 = j
        BY <1>1, <1>6
    <2> HIDE DEF d
    <2>2. d \in P
        BY <1>5, <2>1
    <2>3. i + d + 1 <= n
        BY <1>1, <2>1
    <2>4. ms[i].at < ms[i + d + 1].at
        BY <2>2, <2>3 DEF P
    <2> QED BY <2>1, <2>4
<1> QED BY <1>6 DEF n

Mid(x) == (x[1] + x[2]) \div 2

\* The page of the k-th mark.
PageOf(ms, k) == IF k = 0 THEN Nil ELSE ms[k].page

\* The half that is searched on.
HalfOf(ms, offset, x) ==
    IF AtOrBefore(ms[Mid(x) + 1], offset) THEN <<Mid(x) + 1, x[2]>> ELSE <<x[1], Mid(x)>>

\* The definition inside PageAt.
SearchFold(ms, offset, f) ==
    f = [x \in (0..Len(ms)) \X (0..Len(ms)) |->
            IF x[1] >= x[2] THEN (IF x[1] = 0 THEN Nil ELSE ms[x[1]].page)
            ELSE IF AtOrBefore(ms[(x[1] + x[2]) \div 2 + 1], offset)
                 THEN f[<<(x[1] + x[2]) \div 2 + 1, x[2]>>]
                 ELSE f[<<x[1], (x[1] + x[2]) \div 2>>]]

\* The middle is within what is searched.
LEMMA MidWithin ==
    ASSUME NEW n \in Nat, NEW x \in (0..n) \X (0..n), x[1] < x[2]
    PROVE  Mid(x) \in Nat /\ x[1] <= Mid(x) /\ Mid(x) < x[2]
<1> DEFINE a == x[1]
           b == x[2]
<1>1. a \in Nat /\ b \in Nat /\ a < b
    OBVIOUS
<1> HIDE DEF a, b
<1>2. (a + b) \div 2 \in Nat /\ a <= (a + b) \div 2 /\ (a + b) \div 2 < b
    BY <1>1
<1> QED BY <1>2 DEF Mid, a, b

\* The search, step by step.
LEMMA SearchIs ==
    ASSUME NEW ms \in Seq(Marks), NEW offset
    PROVE  LET n == Len(ms)
               S == (0..n) \X (0..n)
           IN \E f : /\ PageAt(ms, offset) = f[<<0, n>>]
                     /\ \A x \in S :
                           f[x] = IF x[1] >= x[2] THEN PageOf(ms, x[1]) ELSE f[HalfOf(ms, offset, x)]
<1> DEFINE n == Len(ms)
           S == (0..n) \X (0..n)
           V == Pages \cup {Nil}
           Half2(x) == HalfOf(ms, offset, x)
           op == [w \in S \X [S -> V] |->
                     IF w[1][1] >= w[1][2] THEN PageOf(ms, w[1][1]) ELSE w[2][Half2(w[1])]]
           m == [x \in S |-> IF x[1] < x[2] THEN x[2] - x[1] ELSE 0]
           it == CHOOSE f : SearchFold(ms, offset, f)
<1>1. PageAt(ms, offset) = it[<<0, n>>]
    BY DEF PageAt, it, SearchFold
<1> HIDE DEF it
<1>2. n \in Nat /\ \A k \in 1..n : ms[k].page \in Pages
    <2>1. n \in Nat /\ \A k \in 1..n : ms[k] \in Marks
        OBVIOUS
    <2> HIDE DEF n
    <2> QED BY <2>1 DEF Marks
<1> HIDE DEF n
<1>3. \A k \in 0..n : PageOf(ms, k) \in V
    <2> SUFFICES ASSUME NEW k \in 0..n PROVE PageOf(ms, k) \in V
        OBVIOUS
    <2>1. k # 0 => k \in 1..n
        BY <1>2
    <2> QED BY <1>2, <2>1 DEF PageOf
<1>4. \A x \in S : x[1] \in 0..n /\ x[2] \in 0..n /\ x = <<x[1], x[2]>>
    OBVIOUS
<1>5. ASSUME NEW x \in S, ~(x[1] >= x[2])
      PROVE  /\ Half2(x) \in S /\ Half2(x)[1] <= Half2(x)[2]
             /\ Half2(x)[2] - Half2(x)[1] < x[2] - x[1]
    <2>1. x[1] \in Nat /\ x[2] \in Nat /\ x[1] < x[2] /\ x[2] <= n
        BY <1>2, <1>4, <1>5
    <2>2. Mid(x) \in Nat /\ x[1] <= Mid(x) /\ Mid(x) < x[2]
        BY <1>2, <2>1, MidWithin
    <2> DEFINE a == x[1]
               b == x[2]
               c == Mid(x)
    <2>3. /\ a \in Nat /\ b \in Nat /\ c \in Nat /\ a <= c /\ c < b /\ b <= n
          /\ Half2(x) = IF AtOrBefore(ms[c + 1], offset) THEN <<c + 1, b>> ELSE <<a, c>>
        BY <2>1, <2>2 DEF HalfOf
    <2> HIDE DEF a, b, c, Half2, S
    <2>4. a \in 0..n /\ b \in 0..n /\ c \in 0..n /\ c + 1 \in 0..n
        BY <1>2, <2>3
    <2>5. CASE AtOrBefore(ms[c + 1], offset)
        <3>1. Half2(x) = <<c + 1, b>>
            BY <2>3, <2>5
        <3>2. Half2(x)[1] = c + 1 /\ Half2(x)[2] = b /\ Half2(x) \in S
            BY <2>4, <3>1 DEF S
        <3>3. c + 1 <= b /\ b - (c + 1) < b - a
            BY <2>3
        <3> QED BY <3>2, <3>3 DEF a, b
    <2>6. CASE ~AtOrBefore(ms[c + 1], offset)
        <3>1. Half2(x) = <<a, c>>
            BY <2>3, <2>6
        <3>2. Half2(x)[1] = a /\ Half2(x)[2] = c /\ Half2(x) \in S
            BY <2>4, <3>1 DEF S
        <3>3. a <= c /\ c - a < b - a
            BY <2>3
        <3> QED BY <3>2, <3>3 DEF a, b
    <2> QED BY <2>5, <2>6
<1>6. m \in [S -> 0..n]
    <2> SUFFICES ASSUME NEW x \in S PROVE (IF x[1] < x[2] THEN x[2] - x[1] ELSE 0) \in 0..n
        OBVIOUS
    <2> QED BY <1>2, <1>4
<1>7. ASSUME NEW x \in S, ~(x[1] >= x[2]) PROVE m[Half2(x)] < m[x]
    <2> DEFINE y == Half2(x)
    <2>1. y \in S /\ y[1] <= y[2] /\ y[2] - y[1] < x[2] - x[1]
        BY <1>5, <1>7
    <2> HIDE DEF y
    <2>2. x[1] \in Nat /\ x[2] \in Nat /\ y[1] \in Nat /\ y[2] \in Nat
        BY <1>2, <1>4, <2>1
    <2>3. m[x] = x[2] - x[1]
        BY <1>7, <2>2
    <2>4. m[y] = y[2] - y[1]
        BY <2>1, <2>2
    <2>5. m[y] < m[x]
        BY <2>1, <2>3, <2>4
    <2> QED BY <2>5 DEF y
<1> HIDE DEF m, Half2
<1>8. op \in [S \X [S -> V] -> V]
    <2>1. ASSUME NEW w \in S \X [S -> V]
          PROVE  (IF w[1][1] >= w[1][2] THEN PageOf(ms, w[1][1]) ELSE w[2][Half2(w[1])]) \in V
        <3>1. w[1] \in S /\ w[2] \in [S -> V]
            OBVIOUS
        <3>2. w[1][1] \in 0..n
            BY <1>4, <3>1
        <3> HIDE DEF S, V
        <3> QED BY <1>3, <1>5, <3>1, <3>2
    <2> QED BY <2>1
<1>9. Descends(op, S, V, m, n)
    <2> SUFFICES ASSUME NEW x \in S, NEW g \in [S -> V], NEW h \in [S -> V],
                        \A y \in S : m[y] < m[x] => g[y] = h[y]
                 PROVE  op[<<x, g>>] = op[<<x, h>>]
        BY <1>2, <1>6, <1>8 DEF Descends
    <2>1. op[<<x, g>>] = IF x[1] >= x[2] THEN PageOf(ms, x[1]) ELSE g[Half2(x)]
        OBVIOUS
    <2>2. op[<<x, h>>] = IF x[1] >= x[2] THEN PageOf(ms, x[1]) ELSE h[Half2(x)]
        OBVIOUS
    <2>3. ASSUME ~(x[1] >= x[2]) PROVE g[Half2(x)] = h[Half2(x)]
        BY <1>5, <1>7, <2>3
    <2> QED BY <2>1, <2>2, <2>3
<1>10. \E f : SearchFold(ms, offset, f)
    <2> HIDE DEF op, S, V
    <2>1. PICK f \in [S -> V] : \A x \in S : f[x] = op[<<x, f>>]
        BY <1>9, RecursionExists
    <2>2. \A x \in S : f[x] = IF x[1] >= x[2] THEN PageOf(ms, x[1]) ELSE f[Half2(x)]
        <3> SUFFICES ASSUME NEW x \in S
                     PROVE  f[x] = IF x[1] >= x[2] THEN PageOf(ms, x[1]) ELSE f[Half2(x)]
            OBVIOUS
        <3>1. op[<<x, f>>] = IF x[1] >= x[2] THEN PageOf(ms, x[1]) ELSE f[Half2(x)]
            BY <2>1 DEF op
        <3> QED BY <2>1, <3>1
    <2>3. f = [x \in S |-> f[x]]
        BY <2>1
    <2>4. \A x \in S : f[x] =
            IF x[1] >= x[2] THEN (IF x[1] = 0 THEN Nil ELSE ms[x[1]].page)
            ELSE IF AtOrBefore(ms[(x[1] + x[2]) \div 2 + 1], offset)
                 THEN f[<<(x[1] + x[2]) \div 2 + 1, x[2]>>]
                 ELSE f[<<x[1], (x[1] + x[2]) \div 2>>]
        BY <2>2 DEF Half2, HalfOf, Mid, PageOf
    <2>5. f = [x \in S |->
            IF x[1] >= x[2] THEN (IF x[1] = 0 THEN Nil ELSE ms[x[1]].page)
            ELSE IF AtOrBefore(ms[(x[1] + x[2]) \div 2 + 1], offset)
                 THEN f[<<(x[1] + x[2]) \div 2 + 1, x[2]>>]
                 ELSE f[<<x[1], (x[1] + x[2]) \div 2>>]]
        BY <2>3, <2>4
    <2>6. SearchFold(ms, offset, f)
        BY <2>5 DEF SearchFold, S, n
    <2> QED BY <2>6
<1>11. SearchFold(ms, offset, it)
    BY <1>10 DEF it
<1>12. \A x \in S : it[x] = IF x[1] >= x[2] THEN PageOf(ms, x[1]) ELSE it[Half2(x)]
    BY <1>11 DEF SearchFold, Half2, HalfOf, Mid, PageOf, n
<1> QED BY <1>1, <1>12 DEF n, Half2

\* The k-th mark is the last at or before the offset.
LastMark(ms, offset, k) ==
    /\ k \in 0..Len(ms)
    /\ \A i \in 1..k : ms[i].at <= offset
    /\ \A i \in (k + 1)..Len(ms) : offset < ms[i].at

\* The last mark at or before the offset is within x.
Bracketed(ms, offset, x) ==
    /\ x[1] <= x[2]
    /\ \A i \in 1..x[1] : ms[i].at <= offset
    /\ \A i \in (x[2] + 1)..Len(ms) : offset < ms[i].at

\* It is still within the half that is searched on, which is smaller.
LEMMA HalfBracketed ==
    ASSUME NEW ms \in Seq(Marks), InOrderMarks(ms), NEW offset \in Nat,
           NEW x \in (0..Len(ms)) \X (0..Len(ms)), Bracketed(ms, offset, x), x[1] < x[2]
    PROVE  LET y == HalfOf(ms, offset, x)
           IN /\ y \in (0..Len(ms)) \X (0..Len(ms)) /\ Bracketed(ms, offset, y)
              /\ y[1] \in Nat /\ y[2] \in Nat /\ y[2] - y[1] < x[2] - x[1]
<1> DEFINE n == Len(ms)
           S == (0..n) \X (0..n)
           y == HalfOf(ms, offset, x)
           a == x[1]
           b == x[2]
           c == Mid(x)
<1>1. n \in Nat /\ \A i \in 1..n : ms[i].at \in Nat
    <2>1. n \in Nat /\ \A i \in 1..n : ms[i] \in Marks
        OBVIOUS
    <2> HIDE DEF n
    <2> QED BY <2>1 DEF Marks
<1>2. \A i, j \in 1..n : i < j => ms[i].at < ms[j].at
    BY MarksAscend
<1>3. c \in Nat /\ a <= c /\ c < b
    BY <1>1, MidWithin
<1>4. a \in Nat /\ b \in Nat /\ a \in 0..n /\ b \in 0..n
    OBVIOUS
<1>5. y = IF ms[c + 1].at <= offset THEN <<c + 1, b>> ELSE <<a, c>>
    BY DEF HalfOf, AtOrBefore
<1>6. /\ \A i \in 1..a : ms[i].at <= offset
      /\ \A i \in (b + 1)..n : offset < ms[i].at
    BY DEF Bracketed
<1> HIDE DEF n, y, a, b, c
<1>7. c + 1 \in 1..n /\ c + 1 \in 0..n /\ c \in 0..n
    BY <1>1, <1>3, <1>4
<1>8. CASE ms[c + 1].at <= offset
    <2>1. y[1] = c + 1 /\ y[2] = b /\ y \in S
        BY <1>4, <1>5, <1>7, <1>8
    <2>2. ASSUME NEW i \in 1..(c + 1) PROVE ms[i].at <= offset
        <3>1. i \in 1..n /\ ms[i].at \in Nat /\ ms[c + 1].at \in Nat
            BY <1>1, <1>7
        <3>2. i # c + 1 => ms[i].at < ms[c + 1].at
            BY <1>2, <1>3, <1>7, <3>1
        <3> QED BY <1>8, <3>1, <3>2
    <2>3. c + 1 <= b /\ b - (c + 1) < b - a /\ c + 1 \in Nat
        BY <1>3, <1>4
    <2>4. Bracketed(ms, offset, y)
        BY <1>6, <2>1, <2>2, <2>3 DEF Bracketed, n
    <2> QED BY <1>4, <2>1, <2>3, <2>4 DEF y, S, n, a, b
<1>9. CASE ~(ms[c + 1].at <= offset)
    <2>1. y[1] = a /\ y[2] = c /\ y \in S
        BY <1>4, <1>5, <1>7, <1>9
    <2>2. ASSUME NEW i \in (c + 1)..n PROVE offset < ms[i].at
        <3>1. i \in 1..n /\ ms[i].at \in Nat /\ ms[c + 1].at \in Nat
            BY <1>1, <1>3, <1>7
        <3>2. i # c + 1 => ms[c + 1].at < ms[i].at
            BY <1>2, <1>3, <1>7, <3>1
        <3> QED BY <1>9, <3>1, <3>2
    <2>3. a <= c /\ c - a < b - a
        BY <1>3, <1>4
    <2>4. Bracketed(ms, offset, y)
        BY <1>6, <2>1, <2>2, <2>3 DEF Bracketed, n
    <2> QED BY <1>3, <1>4, <2>1, <2>3, <2>4 DEF y, S, n, a, b
<1> QED BY <1>8, <1>9

\* The search gives the page of the last mark at or before the offset.
LEMMA PageAtIs ==
    ASSUME NEW ms \in Seq(Marks), InOrderMarks(ms), NEW offset \in Nat
    PROVE  \E k : LastMark(ms, offset, k) /\ PageAt(ms, offset) = PageOf(ms, k)
<1> DEFINE n == Len(ms)
           S == (0..n) \X (0..n)
           Good(x) == Bracketed(ms, offset, x)
<1>1. n \in Nat
    OBVIOUS
<1>2. PICK f : /\ PageAt(ms, offset) = f[<<0, n>>]
               /\ \A x \in S :
                     f[x] = IF x[1] >= x[2] THEN PageOf(ms, x[1]) ELSE f[HalfOf(ms, offset, x)]
    BY SearchIs
<1> DEFINE Ends(x) == \E k : LastMark(ms, offset, k) /\ f[x] = PageOf(ms, k)
           P == {d \in Nat : \A x \in S : Good(x) /\ x[2] - x[1] = d => Ends(x)}
<1>3. \A x \in S : x[1] \in 0..n /\ x[2] \in 0..n
    OBVIOUS
<1>4. ASSUME NEW d \in Nat, \A m \in Nat : m < d => m \in P
      PROVE  d \in P
    <2> SUFFICES ASSUME NEW x \in S, Good(x), x[2] - x[1] = d PROVE Ends(x)
        OBVIOUS
    <2>1. x[1] \in 0..n /\ x[2] \in 0..n /\ x[1] <= x[2]
        BY <1>3 DEF Bracketed
    <2>2. CASE x[1] = x[2]
        <3>1. f[x] = PageOf(ms, x[1])
            BY <1>2, <2>1, <2>2
        <3>2. LastMark(ms, offset, x[1])
            BY <2>1, <2>2 DEF LastMark, Bracketed
        <3> QED BY <3>1, <3>2
    <2>3. CASE x[1] # x[2]
        <3> DEFINE y == HalfOf(ms, offset, x)
                   m == y[2] - y[1]
        <3>1. x[1] < x[2]
            BY <2>1, <2>3
        <3>2. y \in S /\ Good(y) /\ y[1] \in Nat /\ y[2] \in Nat /\ m < d
            BY <3>1, HalfBracketed
        <3>3. y[1] <= y[2]
            BY <3>2 DEF Bracketed
        <3>4. f[x] = f[y]
            BY <1>2, <2>1, <3>1
        <3> HIDE DEF y, S, Good
        <3>5. m \in Nat
            BY <3>2, <3>3
        <3> HIDE DEF m, Ends
        <3>6. m \in P
            BY <1>4, <3>2, <3>5
        <3>7. Ends(y)
            BY <3>2, <3>6 DEF m, P
        <3> QED BY <3>4, <3>7 DEF Ends
    <2> QED BY <2>2, <2>3
<1> HIDE DEF P, S, Good, Ends
<1>5. Nat \subseteq P
    BY <1>4, LesserFirst
<1> DEFINE x == <<0, n>>
<1>6. x \in S /\ x[1] = 0 /\ x[2] = n /\ n - 0 = n
    BY <1>1 DEF S
<1> HIDE DEF x
<1>7. Good(x)
    BY <1>1, <1>6 DEF Good, Bracketed, n
<1>8. Ends(x)
    BY <1>1, <1>5, <1>6, <1>7 DEF P
<1> QED BY <1>2, <1>8 DEF Ends, x

\* What occurs once stands in one place.
LEMMA OccursOnce ==
    ASSUME NEW S, NEW t \in Seq(S), NEW T, NEW s \in Seq(T),
           Cardinality(Occurrences(s, t)) = 1,
           NEW p \in Nat \ {0}, p + Len(s) <= Len(t) + 1, StandsAt(t, s, p),
           NEW q \in Nat \ {0}, q + Len(s) <= Len(t) + 1, StandsAt(t, s, q)
    PROVE  p = q
<1> DEFINE m == Len(t) - Len(s) + 1
           O == Occurrences(s, t)
<1>1. Len(t) \in Nat /\ Len(s) \in Nat
    OBVIOUS
<1>2. m \in Int /\ p \in 1..m /\ q \in 1..m
    BY <1>1
<1>3. O = {x \in 1..m : StandsAt(t, s, x)}
    BY DEF Occurrences, StandsAt
<1> HIDE DEF m, O
<1>4. p \in O /\ q \in O /\ O \subseteq 1..m
    BY <1>2, <1>3
<1>5. IsFiniteSet(O)
    <2>1. IsFiniteSet(1..m)
        BY <1>2, FS_Interval
    <2> QED BY <1>4, <2>1, FS_Subset
<1>6. \E x : O = {x}
    BY <1>5, FS_Singleton DEF O
<1> QED BY <1>4, <1>6

\* A passage that stands in one place is found where it was read.
LEMMA FirstPlaced ==
    ASSUME TextTyped, SectionsInv, ReadInv, SnapInv, Snapped, Faithful,
           Cardinality(Occurrences(Said(quote[1]), Said(text))) = 1,
           Len(quote) = 2 => Len(finding.spans) = 2
    PROVE  LET p == finding.spans[1].from
           IN p \in Solid(text) /\ p \in 1..Len(text) /\ p \in Range(read[1])
<1> DEFINE ms == finding.spans
           fr == Fragments(quote)
           c == Said(quote[1])
           k == Find(Said(text), c, 1)
<1>1. text \in Seq(Symbols)
    BY TextSymbols DEF TextTyped
<1>2. stage = "snapped" /\ Quoted(quote) /\ ms = MatchSpans(quote, Folded(text)) /\ ms # <<>>
    BY DEF Snapped, SnapInv, ReadInv
<1>3. QuoteStands
    BY <1>2, FaithfulStands
<1>4. Len(quote) \in {1, 2} /\ Len(fr) = Len(quote) /\ fr[1] = c /\ k # 0
    <2>1. /\ Len(quote) \in {1, 2} /\ Len(fr) = Len(quote)
          /\ \A n \in 1..Len(quote) : fr[n] = Said(quote[n]) /\ Find(Said(text), Said(quote[n]), 1) # 0
        BY <1>1, <1>3, StandingFragments
    <2>2. 1 \in 1..Len(quote)
        BY <2>1
    <2> QED BY <2>1, <2>2
<1>5. \E p, q \in Int : Range(read[1]) = p..q /\ \E at : Holding(text, c, p, q, at)
    BY <1>3 DEF QuoteStands
<1>6. PICK p, q \in Int : Range(read[1]) = p..q /\ \E at : Holding(text, c, p, q, at)
    BY <1>5
<1>7. PICK at : Holding(text, c, p, q, at)
    BY <1>6
<1> HIDE DEF ms, fr, c, k
<1>8. Phrase(c) /\ ms[1] = Span(Folded(text), k, Len(c))
    <2>1. /\ (\E d : OneFound(text, ms, d)) \/ (Len(fr) = 2 /\ TwoFound(text, ms, fr[1], fr[2]))
          /\ Len(fr) = 1 /\ Find(Said(text), fr[1], 1) # 0 => OneFound(text, ms, fr[1])
        BY <1>1, <1>2, FoundWays DEF fr
    <2>2. CASE Len(quote) = 1
        <3>1. OneFound(text, ms, c)
            BY <1>4, <2>1, <2>2 DEF k
        <3>2. Phrase(c) /\ ms = <<HitOf(Folded(text), c)>>
            BY <3>1 DEF OneFound
        <3>3. ms[1] = HitOf(Folded(text), c)
            BY <3>2
        <3> QED BY <3>2, <3>3 DEF HitOf, k, Said
    <2>3. CASE Len(quote) = 2
        <3>1. Len(ms) = 2
            BY <2>3 DEF ms
        <3>2. ASSUME NEW d, OneFound(text, ms, d) PROVE FALSE
            <4>1. Len(ms) = 1
                BY <1>1, <3>2, OneShown
            <4> QED BY <3>1, <4>1
        <3>3. TwoFound(text, ms, c, fr[2])
            BY <1>4, <2>1, <3>2
        <3>4. /\ Phrase(c)
              /\ ms = <<Span(Folded(text), k, Len(c)),
                        Span(Folded(text), Find(Said(text), fr[2], k + Len(c)), Len(fr[2]))>>
            BY <3>3 DEF TwoFound, k
        <3> QED BY <3>4
    <2> QED BY <1>4, <2>2, <2>3
<1>9. k = at
    <2>1. /\ c \in Seq(Folds) /\ at \in Nat \ {0} /\ at + Len(c) <= Len(Said(text)) + 1
          /\ StandsAt(Said(text), c, at)
        BY <1>7 DEF Holding
    <2>2. Said(text) \in Seq(Folds) /\ 1 \in Nat \ {0}
        BY <1>1, SaidType
    <2>3. /\ k \in Nat /\ k + Len(c) <= Len(Said(text)) + 1 /\ StandsAt(Said(text), c, k)
        BY <1>4, <2>1, <2>2, FindFirst DEF k
    <2>4. Cardinality(Occurrences(c, Said(text))) = 1 /\ k \in Nat \ {0}
        BY <1>4, <2>3 DEF c
    <2> QED BY <2>1, <2>2, <2>3, <2>4, OccursOnce
<1>10. Folded(text)[at].from \in p..q
    BY <1>7 DEF Holding
<1>11. Folded(text)[k].from \in Solid(text) /\ Folded(text)[k].from \in 1..Len(text)
    <2>1. 1 \in Nat \ {0} /\ Find(Said(text), c, 1) # 0
        BY <1>4 DEF k
    <2>2. k \in 1..Len(Folded(text)) /\ StandsAt(Said(text), c, k) /\ k \in Nat /\ k # 0
        BY <1>1, <1>8, <2>1, FoundSpan DEF k
    <2>3. /\ Said(text) \in Seq(Folds) /\ Len(Said(text)) = Len(Folded(text))
          /\ Folded(text)[k].from \in 1..Len(text)
        BY <1>1, <2>2, SaidType
    <2>4. c \in Seq(Folds) /\ Len(c) # 0 /\ ~IsSpace(c[1]) /\ Len(c) \in Nat
        BY <1>8 DEF Phrase
    <2>5. k + Len(c) <= Len(Said(text)) + 1
        BY <2>1, <2>3, <2>4, FindFirst DEF k
    <2>6. \A i \in 1..Len(c) : Said(text)[k + i - 1] = c[i]
        <3> DEFINE d == Said(text)
        <3>1. k \in Nat \ {0} /\ d \in Seq(Folds) /\ StandsAt(d, c, k) /\ k + Len(c) <= Len(d) + 1
            BY <2>2, <2>3, <2>5
        <3>2. c \in Seq(Folds) /\ Len(c) # 0
            BY <2>4
        <3> HIDE DEF d
        <3>3. \A i \in 1..Len(c) : d[k + i - 1] = c[i]
            BY <3>1, <3>2, StandsIs
        <3> QED BY <3>3 DEF d
    <2>7. 1 \in 1..Len(c) /\ k + 1 - 1 = k
        BY <2>2, <2>4
    <2>8. Said(text)[k] = c[1]
        BY <2>6, <2>7
    <2>9. ~IsSpace(Said(text)[k])
        BY <2>4, <2>8
    <2> QED BY <1>1, <2>2, <2>3, <2>9, SolidFrom
<1>12. ms[1].from = Folded(text)[k].from
    BY <1>8 DEF Span
<1> QED BY <1>6, <1>9, <1>10, <1>11, <1>12 DEF ms

\* It is placed under the headings that are open there.
LEMMA FirstUnder ==
    ASSUME TextTyped, SnapInv, Snapped
    PROVE  {finding.path[k].line : k \in DOMAIN finding.path} = HeadingsAbove(finding.spans[1].from)
<1> DEFINE p == finding.spans[1].from
           H == {i \in HeadingLines(text) : i < p}
<1>1. finding.path = HeadingPathAt(text, p)
    BY DEF Snapped, SnapInv
<1>2. Len(text) \in Nat /\ DOMAIN text = 1..Len(text)
    BY DEF TextTyped
<1> HIDE DEF p
<1>3. {finding.path[k].line : k \in DOMAIN finding.path} = Open(text, H)
    BY <1>1, <1>2, PathIsAbove
<1>4. Open(text, H) = HeadingsAbove(p)
    BY DEF Open, HeadingsAbove
<1> QED BY <1>3, <1>4 DEF p

\* What stands at u[1] to u[k] is on the pages pg[1] to pg[k], as ms marks them:
\* every mark is one of these, and each of these has its page from the last
\* mark at or before it.
Marked(ms, k, u, pg) ==
    /\ ms \in Seq(Marks)
    /\ \A m \in 1..Len(ms) : \E j \in 1..k : ms[m].at = u[j]
    /\ \A j \in 1..k : \E m \in 1..Len(ms) : LastMark(ms, u[j], m) /\ ms[m].page = pg[j]

\* There is one last mark at or before a place.
LEMMA LastMarkOne ==
    ASSUME NEW ms \in Seq(Marks), NEW q \in Nat, NEW k, LastMark(ms, q, k), NEW m, LastMark(ms, q, m)
    PROVE  k = m
<1> DEFINE n == Len(ms)
<1>1. n \in Nat /\ \A i \in 1..n : ms[i].at \in Nat
    <2>1. n \in Nat /\ \A i \in 1..n : ms[i] \in Marks
        OBVIOUS
    <2> HIDE DEF n
    <2> QED BY <2>1 DEF Marks
<1>2. /\ k \in 0..n /\ m \in 0..n
      /\ \A i \in 1..k : ms[i].at <= q
      /\ \A i \in 1..m : ms[i].at <= q
      /\ \A i \in (k + 1)..n : q < ms[i].at
      /\ \A i \in (m + 1)..n : q < ms[i].at
    BY DEF LastMark
<1> HIDE DEF n
<1>3. ASSUME k < m PROVE FALSE
    <2>1. m \in 1..m /\ m \in (k + 1)..n /\ m \in 1..n
        BY <1>1, <1>2, <1>3
    <2> QED BY <1>1, <1>2, <2>1
<1>4. ASSUME m < k PROVE FALSE
    <2>1. k \in 1..k /\ k \in (m + 1)..n /\ k \in 1..n
        BY <1>1, <1>2, <1>4
    <2> QED BY <1>1, <1>2, <2>1
<1> QED BY <1>1, <1>2, <1>3, <1>4

\* The place of one more is marked where its page is a new one.
LEMMA MarkedMore ==
    ASSUME NEW ms, NEW k \in Nat, NEW u, NEW pg, Marked(ms, k, u, pg),
           NEW new, NEW at \in Nat \ {0}, NEW page \in Pages, u[k + 1] = at, pg[k + 1] = page,
           \A j \in 1..k : u[j] \in Nat /\ u[j] < at,
           \/ new = ms /\ Len(ms) # 0 /\ ms[Len(ms)].page = page
           \/ new = Append(ms, [at |-> at, page |-> page])
    PROVE  Marked(new, k + 1, u, pg)
<1> DEFINE n == Len(ms)
           x == [at |-> at, page |-> page]
<1>1. ms \in Seq(Marks) /\ n \in Nat /\ \A i \in 1..n : ms[i].at \in Nat
    <2>1. ms \in Seq(Marks)
        BY DEF Marked
    <2>2. n \in Nat /\ \A i \in 1..n : ms[i] \in Marks
        BY <2>1
    <2> HIDE DEF n
    <2> QED BY <2>1, <2>2 DEF Marks
<1>2. /\ \A m \in 1..n : \E j \in 1..k : ms[m].at = u[j]
      /\ \A j \in 1..k : \E m \in 1..n : LastMark(ms, u[j], m) /\ ms[m].page = pg[j]
    BY DEF Marked
<1>3. x \in Marks /\ x.at = at /\ x.page = page
    BY DEF Marks
<1>4. \A m \in 1..n : ms[m].at < at
    BY <1>2
<1>5. k + 1 \in 1..(k + 1) /\ \A j \in 1..k : j \in 1..(k + 1)
    OBVIOUS
<1>6. \A j \in 1..(k + 1) : j \in 1..k \/ j = k + 1
    OBVIOUS
<1> HIDE DEF x
<1>7. CASE new = ms /\ n # 0 /\ ms[n].page = page
    <2>1. n \in 1..n /\ n \in 0..n /\ ~\E i \in (n + 1)..n : TRUE
        BY <1>1, <1>7
    <2>2. LastMark(ms, at, n)
        <3>1. \A i \in 1..n : ms[i].at <= at
            BY <1>1, <1>4
        <3>2. \A i \in (n + 1)..n : at < ms[i].at
            BY <2>1
        <3> QED BY <2>1, <3>1, <3>2 DEF LastMark, n
    <2>3. \A m \in 1..n : \E j \in 1..(k + 1) : ms[m].at = u[j]
        BY <1>2, <1>5
    <2>4. \A j \in 1..(k + 1) : \E m \in 1..n : LastMark(ms, u[j], m) /\ ms[m].page = pg[j]
        <3> HIDE DEF n
        <3> QED BY <1>2, <1>6, <1>7, <2>1, <2>2
    <2> QED BY <1>1, <1>7, <2>3, <2>4 DEF Marked, n
<1>8. CASE new = Append(ms, x)
    <2>1. /\ new \in Seq(Marks) /\ Len(new) = n + 1 /\ new[n + 1] = x
          /\ \A i \in 1..n : new[i] = ms[i]
        BY <1>1, <1>3, <1>8, AppendProperties
    <2> HIDE DEF n
    <2>2. /\ n + 1 \in 1..(n + 1) /\ n + 1 \in 0..(n + 1)
          /\ \A i \in 1..(n + 1) : i \in 1..n \/ i = n + 1
          /\ ~\E i \in (n + 1 + 1)..(n + 1) : TRUE
          /\ \A i \in 1..n : i \in 1..(n + 1)
        BY <1>1
    <2>3. \A m \in 1..(n + 1) : \E j \in 1..(k + 1) : new[m].at = u[j]
        BY <1>2, <1>3, <1>5, <2>1, <2>2
    <2>4. LastMark(new, at, n + 1) /\ new[n + 1].page = page
        <3>1. \A i \in 1..(n + 1) : new[i].at <= at
            <4> SUFFICES ASSUME NEW i \in 1..(n + 1) PROVE new[i].at <= at
                OBVIOUS
            <4>1. CASE i \in 1..n
                <5>1. new[i].at = ms[i].at /\ ms[i].at \in Nat /\ ms[i].at < at
                    BY <1>1, <1>4, <2>1, <4>1
                <5> QED BY <5>1
            <4>2. CASE i = n + 1
                <5>1. new[i].at = at
                    BY <1>3, <2>1, <4>2
                <5> QED BY <5>1
            <4> QED BY <2>2, <4>1, <4>2
        <3>2. \A i \in (n + 1 + 1)..(n + 1) : at < new[i].at
            BY <2>2
        <3> QED BY <1>3, <2>1, <2>2, <3>1, <3>2 DEF LastMark
    <2>5. ASSUME NEW j \in 1..k
          PROVE  \E m \in 1..(n + 1) : LastMark(new, u[j], m) /\ new[m].page = pg[j]
        <3>1. PICK m \in 1..n : LastMark(ms, u[j], m) /\ ms[m].page = pg[j]
            BY <1>2
        <3>2. u[j] \in Nat /\ u[j] < at
            OBVIOUS
        <3>3. /\ \A i \in 1..m : ms[i].at <= u[j]
              /\ \A i \in (m + 1)..n : u[j] < ms[i].at
            BY <3>1 DEF LastMark, n
        <3>4. /\ \A i \in 1..m : i \in 1..n
              /\ \A i \in (m + 1)..(n + 1) : i = n + 1 \/ (i \in (m + 1)..n /\ i \in 1..n)
              /\ m \in 1..(n + 1) /\ m \in 0..(n + 1)
            BY <1>1
        <3>5. \A i \in 1..m : new[i].at <= u[j]
            BY <2>1, <3>3, <3>4
        <3>6. \A i \in (m + 1)..(n + 1) : u[j] < new[i].at
            BY <1>3, <2>1, <3>2, <3>3, <3>4
        <3>7. LastMark(new, u[j], m)
            BY <2>1, <3>4, <3>5, <3>6 DEF LastMark
        <3>8. new[m].page = pg[j]
            BY <2>1, <3>1
        <3> QED BY <3>4, <3>7, <3>8
    <2>6. \A j \in 1..(k + 1) : \E m \in 1..(n + 1) : LastMark(new, u[j], m) /\ new[m].page = pg[j]
        BY <1>6, <2>2, <2>4, <2>5
    <2> QED BY <2>1, <2>3, <2>6 DEF Marked
<1> QED BY <1>7, <1>8 DEF n, x

\* A place is on the page of the last of them at or before it.
LEMMA MarkedPage ==
    ASSUME NEW ms, NEW n \in Nat, NEW u, NEW pg, Marked(ms, n, u, pg), InOrderMarks(ms),
           \A j \in 1..n : u[j] \in Nat,
           NEW q \in Nat, NEW j \in 1..n, u[j] <= q,
           \A i \in 1..n : u[i] <= q => u[i] <= u[j]
    PROVE  PageAt(ms, q) = pg[j]
<1>1. ms \in Seq(Marks)
    BY DEF Marked
<1> DEFINE l == Len(ms)
<1>2. l \in Nat /\ \A i \in 1..l : ms[i].at \in Nat
    <2>1. l \in Nat /\ \A i \in 1..l : ms[i] \in Marks
        BY <1>1
    <2> HIDE DEF l
    <2> QED BY <2>1 DEF Marks
<1>3. PICK k : LastMark(ms, q, k) /\ PageAt(ms, q) = PageOf(ms, k)
    BY <1>1, PageAtIs
<1>4. PICK m \in 1..l : LastMark(ms, u[j], m) /\ ms[m].page = pg[j]
    BY DEF Marked
<1>5. \A i \in 1..l : \E x \in 1..n : ms[i].at = u[x]
    BY DEF Marked
<1>6. /\ m \in 0..l
      /\ \A i \in 1..m : ms[i].at <= u[j]
      /\ \A i \in (m + 1)..l : u[j] < ms[i].at
    BY <1>4 DEF LastMark
<1> HIDE DEF l
<1>7. \A i \in 1..m : ms[i].at <= q
    <2> SUFFICES ASSUME NEW i \in 1..m PROVE ms[i].at <= q
        OBVIOUS
    <2>1. i \in 1..l /\ ms[i].at <= u[j]
        BY <1>2, <1>6
    <2> QED BY <1>2, <2>1
<1>8. \A i \in (m + 1)..l : q < ms[i].at
    <2> SUFFICES ASSUME NEW i \in (m + 1)..l PROVE q < ms[i].at
        OBVIOUS
    <2>1. i \in 1..l /\ u[j] < ms[i].at
        BY <1>2, <1>6
    <2>2. PICK x \in 1..n : ms[i].at = u[x]
        BY <1>5, <2>1
    <2>3. u[x] \in Nat /\ u[j] \in Nat /\ (u[x] <= q => u[x] <= u[j])
        OBVIOUS
    <2> QED BY <2>1, <2>2, <2>3
<1>9. LastMark(ms, q, m)
    BY <1>6, <1>7, <1>8 DEF LastMark, l
<1>10. k = m /\ m # 0
    BY <1>1, <1>3, <1>9, LastMarkOne
<1> QED BY <1>3, <1>4, <1>10 DEF PageOf

\* What is looked for of an item's text.
AnchorOf(s) == SubSeq(s, 1, Min({AnchorChars, Len(s)}))

\* An item starts after those before it.
LEMMA ItemStartIs ==
    ASSUME document \in Seq(Items), NEW N, Located(Texts, N), NEW i \in 1..Len(document)
    PROVE  ItemStart(i) = 1 + N[i - 1]
<1> DEFINE n == Len(document)
           l == i - 1
           pre == [k \in 1..l |-> document[k].text]
<1>1. /\ n \in Nat /\ DOMAIN document = 1..n /\ l \in Nat /\ l <= n
      /\ \A k \in 1..n : document[k].text \in Seq(Char)
    <2>1. n \in Nat /\ DOMAIN document = 1..n /\ \A k \in 1..n : document[k] \in Items
        OBVIOUS
    <2>2. l \in Nat /\ l <= n
        BY <2>1
    <2> HIDE DEF n
    <2> QED BY <2>1, <2>2, PieceType DEF Items
<1>2. ItemStart(i) = 1 + Len(FlattenSeq(pre))
    BY DEF ItemStart
<1> HIDE DEF n, l
<1>3. \A k \in 1..l : k \in 1..n
    BY <1>1
<1>4. pre \in Seq(Seq(Char)) /\ Len(pre) = l /\ \A k \in 1..l : pre[k] = document[k].text
    BY <1>1, <1>3
<1>5. Texts = [k \in 1..n |-> document[k].text] /\ Len(Texts) = n
    BY <1>1 DEF Texts
<1> HIDE DEF pre
<1>6. PICK M : Located(pre, M)
    BY <1>4, FlattenAt
<1>7. /\ M[0] = 0 /\ N[0] = 0 /\ Len(FlattenSeq(pre)) = M[l]
      /\ \A k \in 1..l : M[k] = M[k - 1] + Len(document[k].text)
      /\ \A k \in 1..n : N[k] = N[k - 1] + Len(document[k].text)
    <2>1. \A k \in 1..n : Texts[k] = document[k].text
        BY <1>5
    <2>2. M[0] = 0 /\ Len(FlattenSeq(pre)) = M[l]
        BY <1>4, <1>6 DEF Located
    <2>3. \A k \in 1..l : M[k] = M[k - 1] + Len(document[k].text)
        <3>1. \A k \in 1..l : M[k] = M[k - 1] + Len(pre[k])
            BY <1>4, <1>6 DEF Located
        <3> QED BY <1>4, <3>1
    <2>4. N[0] = 0
        BY DEF Located
    <2>5. \A k \in 1..n : N[k] = N[k - 1] + Len(document[k].text)
        <3>1. \A k \in 1..n : N[k] = N[k - 1] + Len(Texts[k])
            BY <1>5 DEF Located
        <3> QED BY <2>1, <3>1
    <2> QED BY <2>2, <2>3, <2>4, <2>5
<1> DEFINE P == {k \in Nat : k <= l => M[k] = N[k]}
<1>8. 0 \in P
    BY <1>7
<1>9. ASSUME NEW k \in Nat, k \in P PROVE k + 1 \in P
    <2> SUFFICES ASSUME k + 1 <= l PROVE M[k + 1] = N[k + 1]
        OBVIOUS
    <2> DEFINE j == k + 1
    <2>1. j \in 1..l /\ j \in 1..n /\ j - 1 = k /\ k <= l
        BY <1>1
    <2>2. M[k] = N[k]
        BY <1>9, <2>1
    <2> HIDE DEF j
    <2>3. M[j] = N[j]
        BY <1>7, <2>1, <2>2
    <2> QED BY <2>3 DEF j
<1> HIDE DEF P
<1>10. l \in P
    BY <1>1, <1>8, <1>9, CountingUp
<1>11. M[l] = N[l]
    BY <1>1, <1>10 DEF P
<1> QED BY <1>2, <1>7, <1>11 DEF l

\* The item i of the text, which starts after N[i - 1] characters and ends with
\* the N[i]-th, has its text at u, and there its anchor stands.
ItemAt(i, N, u) ==
    LET a == AnchorOf(Stripped(document[i].text))
    IN /\ N[i - 1] \in Nat /\ N[i] \in Nat /\ N[i] <= Len(text)
       /\ u \in Nat /\ N[i - 1] < u /\ u <= N[i]
       /\ a \in Seq(Char) /\ Len(a) \in Nat /\ Len(a) # 0
       /\ u + Len(a) <= N[i] + 1
       /\ StandsAt(text, a, u)
       /\ \A q \in (N[i - 1] + 1)..(u - 1) : text[q] \in Blanks

\* Every item that has a text has it there.
LEMMA ItemPlaced ==
    ASSUME document \in Seq(Items), text = FlattenSeq(Texts), NEW N, Located(Texts, N),
           NEW i \in 1..Len(document), Stripped(document[i].text) # <<>>
    PROVE  ItemAt(i, N, ItemText(i))
<1> DEFINE n == Len(document)
           w == document[i].text
           s == Stripped(w)
           m == Min({AnchorChars, Len(s)})
           a == SubSeq(s, 1, m)
           solid == {k \in DOMAIN w : w[k] \notin Blanks}
           f == Min(solid)
           c == N[i - 1]
           u == ItemText(i)
<1>1. n \in Nat /\ DOMAIN document = 1..n /\ w \in Seq(Char) /\ i \in 1..n /\ i \in Int
    <2>1. n \in Nat /\ DOMAIN document = 1..n /\ document[i] \in Items /\ i \in 1..n /\ i \in Int
        OBVIOUS
    <2> HIDE DEF n
    <2> QED BY <2>1, PieceType DEF Items
<1>2. u = ItemStart(i) + f - 1
    BY DEF ItemText
<1>3. ItemStart(i) = 1 + c
    BY ItemStartIs
<1>4. /\ N \in [0..n -> Nat] /\ N[i] = c + Len(w) /\ N[i] <= N[n] /\ Len(text) = N[n]
      /\ \A k \in 1..Len(w) : text[c + k] = w[k]
    <2>1. Texts = [k \in 1..n |-> document[k].text] /\ Len(Texts) = n
        BY <1>1 DEF Texts
    <2>2. Texts[i] = w
        BY <1>1, <2>1
    <2>3. i \in 0..n /\ n \in 0..n /\ i <= n
        BY <1>1
    <2> HIDE DEF n, w, c
    <2>4. /\ N \in [0..n -> Nat] /\ N[i] = N[i - 1] + Len(w) /\ Len(text) = N[n]
          /\ \A k \in 1..Len(w) : text[N[i - 1] + k] = w[k]
        BY <1>1, <2>1, <2>2 DEF Located
    <2>5. N[i] <= N[n]
        BY <2>1, <2>3 DEF Located
    <2> QED BY <2>4, <2>5 DEF c
<1>5. text \in Seq(Char)
    BY ConvertedType DEF Texts
<1>6. i - 1 \in 0..n /\ i \in 0..n /\ n \in 0..n
    BY <1>1
<1> HIDE DEF n
<1>7. c \in Nat /\ N[i] \in Nat /\ N[n] \in Nat
    BY <1>4, <1>6
<1>8. w \in Seq(Char) /\ s # <<>>
    BY <1>1
<1> HIDE DEF w
<1>9. \E k, l \in 1..Len(w) :
            /\ k <= l /\ s = SubSeq(w, k, l) /\ w[k] \notin Blanks
            /\ \A j \in 1..Len(w) : w[j] \notin Blanks => k <= j
    BY <1>8, StrippedEnds
<1>10. PICK k, l \in 1..Len(w) :
            /\ k <= l /\ s = SubSeq(w, k, l) /\ w[k] \notin Blanks
            /\ \A j \in 1..Len(w) : w[j] \notin Blanks => k <= j
    BY <1>9
<1>11. Len(w) \in Nat /\ DOMAIN w = 1..Len(w)
    BY <1>8
<1>12. f = k
    <2>1. k \in solid /\ solid \subseteq Nat /\ \A j \in solid : k <= j
        BY <1>10, <1>11
    <2> HIDE DEF solid
    <2>2. f \in solid /\ f <= k
        BY <2>1, MinIn
    <2> HIDE DEF f
    <2>3. f \in Nat /\ k \in Nat /\ k <= f
        BY <2>1, <2>2
    <2> QED BY <2>2, <2>3
<1> HIDE DEF f, solid
<1>13. /\ s \in Seq(Char) /\ Len(s) = l - k + 1
       /\ \A j \in 1..(l - k + 1) : s[j] = w[k + j - 1]
    BY <1>8, <1>10, PartType
<1>14. k \in Nat /\ l \in Nat /\ 1 <= k /\ k <= l /\ l <= Len(w) /\ Len(s) \in Nat /\ Len(s) # 0
    BY <1>10, <1>11, <1>13
<1> HIDE DEF s
<1>15. m \in Nat /\ m # 0 /\ m <= Len(s)
    <2>1. {AnchorChars, Len(s)} \subseteq Nat /\ {AnchorChars, Len(s)} # {}
        BY <1>14, Thresholds
    <2>2. m \in {AnchorChars, Len(s)} /\ m <= Len(s)
        BY <2>1, MinIn
    <2> HIDE DEF m
    <2> QED BY <1>14, <2>2, Thresholds
<1> HIDE DEF m
<1>16. a \in Seq(Char) /\ Len(a) = m /\ \A j \in 1..m : a[j] = s[j]
    <2>1. 1 \in 1..Len(s) /\ m \in 1..Len(s) /\ 1 <= m /\ m - 1 + 1 = m
        BY <1>14, <1>15
    <2>2. a \in Seq(Char) /\ Len(a) = m - 1 + 1 /\ \A j \in 1..(m - 1 + 1) : a[j] = s[1 + j - 1]
        BY <1>13, <2>1, PartType
    <2>3. \A j \in 1..m : 1 + j - 1 = j
        BY <1>15
    <2> HIDE DEF a
    <2> QED BY <2>1, <2>2, <2>3
<1>17. u = c + k
    BY <1>2, <1>3, <1>7, <1>12, <1>14
<1> HIDE DEF a, u, c
<1>18. /\ u \in Nat /\ u # 0 /\ c < u /\ u <= N[i] /\ N[i] <= Len(text)
       /\ u + m <= N[i] + 1
    BY <1>4, <1>7, <1>13, <1>14, <1>15, <1>17
<1>19. \A j \in 1..m : text[u + j - 1] = a[j]
    <2> SUFFICES ASSUME NEW j \in 1..m PROVE text[u + j - 1] = a[j]
        OBVIOUS
    <2> DEFINE x == k + j - 1
    <2>1. x \in 1..Len(w) /\ u + j - 1 = c + x /\ j \in 1..(l - k + 1)
        BY <1>7, <1>13, <1>14, <1>15, <1>17
    <2>2. a[j] = w[x]
        BY <1>13, <1>16, <2>1
    <2> HIDE DEF x
    <2> QED BY <1>4, <2>1, <2>2
<1>20. StandsAt(text, a, u)
    <2>1. Len(a) # 0 /\ u \in Nat \ {0} /\ u + Len(a) <= Len(text) + 1
        BY <1>4, <1>7, <1>15, <1>16, <1>18
    <2>2. \A j \in 1..Len(a) : text[u + j - 1] = a[j]
        BY <1>16, <1>19
    <2> QED BY <1>5, <1>16, <2>1, <2>2, StandsIs
<1>21. \A q \in (c + 1)..(u - 1) : text[q] \in Blanks
    <2> SUFFICES ASSUME NEW q \in (c + 1)..(u - 1) PROVE text[q] \in Blanks
        OBVIOUS
    <2> DEFINE x == q - c
    <2>1. x \in 1..Len(w) /\ x < k /\ q = c + x /\ x \in Nat
        BY <1>7, <1>14, <1>17
    <2>2. text[q] = w[x]
        BY <1>4, <2>1
    <2> HIDE DEF x
    <2>3. ~(k <= x)
        BY <1>14, <2>1
    <2> QED BY <1>10, <2>1, <2>2, <2>3
<1>22. a = AnchorOf(Stripped(document[i].text))
    BY DEF a, m, s, w, AnchorOf
<1> DEFINE b == AnchorOf(Stripped(document[i].text))
<1>23. a = b
    BY <1>22
<1> HIDE DEF b
<1>24. b \in Seq(Char) /\ Len(b) \in Nat /\ Len(b) # 0 /\ u + Len(b) <= N[i] + 1 /\ StandsAt(text, b, u)
    BY <1>15, <1>16, <1>18, <1>20, <1>23
<1> QED BY <1>7, <1>18, <1>21, <1>24 DEF ItemAt, c, u, b

\* What a pass over the first k items has marked.
Pass(acc, k, N, u, pg) ==
    /\ acc \in Marking /\ MarkingInv(acc)
    /\ acc.cursor <= N[k] + 1
    /\ acc.last = IF k = 0 THEN Nil ELSE pg[k]
    /\ Marked(acc.marks, k, u, pg)

\* The next item is found where it is, if it can be told apart.
LEMMA AnchorFound ==
    ASSUME text \in Seq(Char), NEW N, NEW i \in Nat \ {0}, NEW u, ItemAt(i, N, u),
           Cardinality(Occurrences(AnchorOf(Stripped(document[i].text)), text)) = 1,
           NEW cursor \in Nat \ {0}, cursor <= N[i - 1] + 1
    PROVE  Anchor(text, AnchorOf(Stripped(document[i].text)), cursor) = u
<1> DEFINE a == AnchorOf(Stripped(document[i].text))
           p == Find(text, a, cursor)
           c == N[i - 1]
           d == N[i]
<1>1. /\ c \in Nat /\ d \in Nat /\ d <= Len(text) /\ u \in Nat /\ c < u
      /\ a \in Seq(Char) /\ Len(a) \in Nat /\ u + Len(a) <= d + 1 /\ StandsAt(text, a, u)
    BY DEF ItemAt
<1>2. Cardinality(Occurrences(a, text)) = 1
    OBVIOUS
<1>3. cursor <= c + 1
    OBVIOUS
<1> HIDE DEF a, c, d
<1>4. Len(text) \in Nat
    OBVIOUS
<1>5. cursor <= u /\ u + Len(a) <= Len(text) + 1 /\ u \in Nat \ {0}
    BY <1>1, <1>3, <1>4
<1>6. p \in Nat /\ p # 0
    BY <1>1, <1>5, FindFirst
<1>7. p + Len(a) <= Len(text) + 1 /\ StandsAt(text, a, p)
    BY <1>1, <1>6, FindFirst
<1> HIDE DEF p
<1>8. p \in Nat \ {0}
    BY <1>6
<1>9. p = u
    BY <1>1, <1>2, <1>5, <1>7, <1>8, OccursOnce
<1> QED BY <1>9 DEF Anchor, p, a

\* One more item is marked where its text is.
LEMMA PassMore ==
    ASSUME text \in Seq(Char), document \in Seq(Items), NEW N, NEW u, NEW pg,
           NEW i \in 1..Len(document), NEW k \in Nat, k = i - 1,
           ItemAt(i, N, u[i]), pg[i] = document[i].page,
           document[i].kept, Stripped(document[i].text) # <<>>,
           Cardinality(Occurrences(AnchorOf(Stripped(document[i].text)), text)) = 1,
           \A j \in 1..k : u[j] \in Nat /\ u[j] <= N[k],
           NEW acc, Pass(acc, k, N, u, pg)
    PROVE  Pass(MarkOne(text, acc, AsItem(document[i])), i, N, u, pg)
<1> DEFINE item == AsItem(document[i])
           new == MarkOne(text, acc, item)
           a == AnchorOf(Stripped(document[i].text))
           page == document[i].page
           at == u[i]
<1>1. /\ acc \in Marking /\ MarkingInv(acc) /\ acc.cursor <= N[k] + 1
      /\ acc.last = IF k = 0 THEN Nil ELSE pg[k]
      /\ Marked(acc.marks, k, u, pg)
    BY DEF Pass
<1>2. acc.marks \in Seq(Marks) /\ acc.cursor \in Nat \ {0}
    BY <1>1 DEF Marking
<1>3. page \in Pages /\ page # Nil
    <2>1. document[i] \in Items
        OBVIOUS
    <2> QED BY <2>1, FileTextAssumption DEF Items
<1>4. item.text = Stripped(document[i].text) /\ item.page = page
    BY DEF AsItem
<1>5. item \in Places(Char \cup {"?"})
    <2> DEFINE S == Char \cup {"?"}
    <2>1. AsItems \in Seq(Places(S)) /\ i \in DOMAIN AsItems /\ AsItems[i] = item
        BY AsItemsType DEF AsItems
    <2> HIDE DEF S, item
    <2>2. item \in Places(S)
        BY <2>1
    <2> QED BY <2>2 DEF S
<1>6. new \in Marking /\ MarkingInv(new)
    BY <1>1, <1>5, MarkOneKeeps
<1>7. i \in Nat \ {0} /\ k + 1 = i /\ i # 0
    OBVIOUS
<1>8. Anchor(text, a, acc.cursor) = at
    BY <1>1, <1>2, <1>7, AnchorFound
<1>9. /\ at \in Nat \ {0} /\ at + Len(a) <= N[i] + 1 /\ N[k] \in Nat /\ N[k] < at
    <2>1. /\ at \in Nat /\ N[k] < at /\ at + Len(a) <= N[i] + 1 /\ N[k] \in Nat
        BY DEF ItemAt
    <2> HIDE DEF at
    <2> QED BY <2>1
<1>10. new = [marks  |-> IF page = acc.last THEN acc.marks
                         ELSE Append(acc.marks, [at |-> at, page |-> page]),
              cursor |-> at + Len(a),
              last   |-> page]
    <2>1. SubSeq(item.text, 1, Min({AnchorChars, Len(item.text)})) = a
        BY <1>4 DEF AnchorOf
    <2> HIDE DEF item, a, at, page
    <2>2. item.text # <<>> /\ item.page # Nil
        BY <1>3, <1>4
    <2>3. at # 0
        BY <1>9
    <2> QED BY <1>4, <1>8, <2>1, <2>2, <2>3 DEF MarkOne
<1> HIDE DEF new, item, a
<1>11. new.cursor <= N[i] + 1 /\ new.last = page
    BY <1>9, <1>10
<1>12. Marked(new.marks, i, u, pg)
    <2> DEFINE ms == acc.marks
               x == [at |-> at, page |-> page]
    <2>1. \/ new.marks = ms /\ Len(ms) # 0 /\ ms[Len(ms)].page = page
          \/ new.marks = Append(ms, x)
        <3>1. CASE page = acc.last
            <4>1. k # 0
                BY <1>1, <1>3, <3>1
            <4>2. 1 \in 1..k
                BY <4>1
            <4>3. Len(ms) # 0
                BY <1>1, <1>2, <4>2 DEF Marked
            <4>4. ms # <<>>
                BY <4>3
            <4>5. ms[Len(ms)].page = page
                BY <1>1, <3>1, <4>4 DEF MarkingInv
            <4>6. new.marks = ms
                BY <1>10, <3>1
            <4> QED BY <4>3, <4>5, <4>6
        <3>2. CASE page # acc.last
            <4>1. new.marks = Append(ms, x)
                BY <1>10, <3>2
            <4> QED BY <4>1
        <3> QED BY <3>1, <3>2
    <2>2. \A j \in 1..k : u[j] \in Nat /\ u[j] < at
        <3> HIDE DEF at
        <3> QED BY <1>9
    <2>3. u[k + 1] = at /\ pg[k + 1] = page
        BY <1>7
    <2> DEFINE nm == new.marks
    <2> HIDE DEF ms, nm, at, page
    <2>4. Marked(nm, k + 1, u, pg)
        BY <1>1, <1>3, <1>9, <2>1, <2>2, <2>3, MarkedMore DEF ms, nm, x
    <2> QED BY <1>7, <2>4 DEF nm
<1> QED BY <1>6, <1>7, <1>11, <1>12 DEF Pass, new, item, page

\* Items that can be told apart are marked where their texts are.
LEMMA AllMarked ==
    ASSUME TextTyped, ConvertedInv, stage # "document", ItemsTellApart,
           NEW N, Located(Texts, N), NEW u, NEW pg,
           \A i \in 1..Len(document) : u[i] = ItemText(i) /\ pg[i] = document[i].page
    PROVE  /\ \A i \in 1..Len(document) : ItemAt(i, N, u[i])
           /\ \A i, j \in 1..Len(document) : i < j => u[i] < u[j]
           /\ Marked(marks, Len(document), u, pg) /\ InOrderMarks(marks)
<1> DEFINE n == Len(document)
<1>1. /\ document \in Seq(Items) /\ text \in Seq(Char)
      /\ text = FlattenSeq(Texts) /\ marks = PageMap(text, AsItems)
    BY DEF TextTyped, ConvertedInv
<1>2. n \in Nat /\ DOMAIN document = 1..n /\ Len(Texts) = n /\ Len(AsItems) = n
    BY <1>1 DEF Texts, AsItems
<1>3. \A i \in 1..n : AsItems[i] = AsItem(document[i])
    BY <1>2 DEF AsItems
<1>4. \A i \in 1..n :
         /\ document[i].kept /\ Stripped(document[i].text) # <<>>
         /\ Cardinality(Occurrences(AnchorOf(Stripped(document[i].text)), text)) = 1
    BY <1>2 DEF ItemsTellApart, AnchorOf
<1>5. \A i \in 1..n : ItemAt(i, N, u[i])
    <2> SUFFICES ASSUME NEW i \in 1..n PROVE ItemAt(i, N, u[i])
        OBVIOUS
    <2>1. ItemAt(i, N, ItemText(i))
        BY <1>1, <1>4, ItemPlaced
    <2> QED BY <2>1
<1>6. /\ N \in [0..n -> Nat] /\ N[0] = 0
      /\ \A i, j \in 0..n : i <= j => N[i] <= N[j]
    BY <1>2 DEF Located
<1>7. \A i \in 1..n : u[i] \in Nat /\ N[i - 1] < u[i] /\ u[i] <= N[i]
    BY <1>5 DEF ItemAt
<1> HIDE DEF n
<1>8. ASSUME NEW i \in 1..n, NEW k \in 0..n, i <= k PROVE u[i] \in Nat /\ u[i] <= N[k]
    <2>1. i \in 0..n /\ N[i] \in Nat /\ N[k] \in Nat
        BY <1>2, <1>6
    <2>2. N[i] <= N[k]
        BY <1>6, <1>8, <2>1
    <2> QED BY <1>7, <2>1, <2>2
<1>9. ASSUME NEW i \in 1..n, NEW j \in 1..n, i < j PROVE u[i] < u[j]
    <2> DEFINE k == j - 1
    <2>1. k \in 0..n /\ i <= k
        BY <1>2, <1>9
    <2>2. N[k] < u[j]
        BY <1>7
    <2> HIDE DEF k
    <2>3. u[i] \in Nat /\ u[i] <= N[k] /\ u[j] \in Nat /\ N[k] \in Nat
        BY <1>6, <1>7, <1>8, <2>1
    <2> QED BY <2>2, <2>3
<1>10. AsItems \in Seq(Places(Char \cup {"?"}))
    BY <1>1, AsItemsType
<1> DEFINE S == Char \cup {"?"}
<1> HIDE DEF S
<1>11. AsItems \in Seq(Places(S))
    BY <1>10 DEF S
<1>12. PICK it :
         /\ it[1..0] = FirstMarking
         /\ \A k \in 0..(n - 1) : it[1..(k + 1)] = MarkOne(text, it[1..k], AsItems[k + 1])
         /\ PageMap(text, AsItems) = it[1..n].marks
    <2>1. \E it :
             /\ it[1..0] = FirstMarking
             /\ \A k \in 0..(Len(AsItems) - 1) : it[1..(k + 1)] = MarkOne(text, it[1..k], AsItems[k + 1])
             /\ PageMap(text, AsItems) = it[1..Len(AsItems)].marks
        BY <1>1, <1>11, MarkSteps
    <2> QED BY <1>2, <2>1
<1> DEFINE P == {k \in Nat : k <= n => Pass(it[1..k], k, N, u, pg)}
<1>13. 0 \in P
    <2> DEFINE acc == FirstMarking
    <2>1. acc \in Marking /\ acc.marks = <<>> /\ acc.cursor = 1 /\ acc.last = Nil
        BY DEF FirstMarking, Marking
    <2> HIDE DEF acc
    <2>2. MarkingInv(acc)
        BY <2>1 DEF MarkingInv, InOrderMarks
    <2>3. Marked(acc.marks, 0, u, pg)
        BY <2>1 DEF Marked
    <2>4. Pass(acc, 0, N, u, pg)
        BY <1>6, <2>1, <2>2, <2>3 DEF Pass
    <2> QED BY <1>12, <2>4 DEF acc
<1>14. ASSUME NEW k \in Nat, k \in P PROVE k + 1 \in P
    <2> SUFFICES ASSUME k + 1 <= n PROVE Pass(it[1..(k + 1)], k + 1, N, u, pg)
        OBVIOUS
    <2> DEFINE i == k + 1
               acc == it[1..k]
    <2>1. i \in 1..n /\ k \in 0..(n - 1) /\ k \in 0..n /\ k = i - 1 /\ k <= n
        BY <1>2
    <2>2. Pass(acc, k, N, u, pg)
        BY <1>14, <2>1
    <2>3. it[1..i] = MarkOne(text, acc, AsItem(document[i]))
        BY <1>3, <1>12, <2>1
    <2>4. \A j \in 1..k : u[j] \in Nat /\ u[j] <= N[k]
        <3> SUFFICES ASSUME NEW j \in 1..k PROVE u[j] \in Nat /\ u[j] <= N[k]
            OBVIOUS
        <3>1. j \in 1..n /\ j <= k
            BY <1>2, <2>1
        <3> QED BY <1>8, <2>1, <3>1
    <2> HIDE DEF i, acc, P
    <2>5. ItemAt(i, N, u[i]) /\ pg[i] = document[i].page
        BY <1>5, <2>1 DEF n
    <2>6. i \in 1..Len(document)
        BY <2>1 DEF n
    <2>7. Pass(MarkOne(text, acc, AsItem(document[i])), i, N, u, pg)
        BY <1>1, <1>4, <2>1, <2>2, <2>4, <2>5, <2>6, PassMore
    <2> QED BY <2>3, <2>7 DEF i
<1> HIDE DEF P
<1>15. n \in P
    BY <1>2, <1>13, <1>14, CountingUp
<1>16. Pass(it[1..n], n, N, u, pg) /\ marks = it[1..n].marks
    BY <1>1, <1>2, <1>12, <1>15 DEF P
<1>17. Marked(marks, n, u, pg) /\ InOrderMarks(marks)
    BY <1>16 DEF Pass, MarkingInv
<1> QED BY <1>5, <1>9, <1>17 DEF n

\* What stands in a text whose items can be told apart is on its item's page.
LEMMA PageRight ==
    ASSUME TextTyped, ConvertedInv, stage # "document", ItemsTellApart,
           NEW p \in 1..Len(text), text[p] \notin Blanks
    PROVE  PageAt(marks, p) = document[Max({i \in DOMAIN document : ItemText(i) <= p})].page
<1> DEFINE n == Len(document)
           u == [i \in 1..n |-> ItemText(i)]
           pg == [i \in 1..n |-> document[i].page]
           I == {i \in DOMAIN document : ItemText(i) <= p}
           j == Max(I)
<1>1. document \in Seq(Items) /\ text \in Seq(Char) /\ text = FlattenSeq(Texts)
    BY DEF TextTyped, ConvertedInv
<1>2. n \in Nat /\ DOMAIN document = 1..n /\ Len(Texts) = n /\ p \in Nat
    BY <1>1 DEF Texts
<1>3. Texts \in Seq(Seq(Char))
    BY <1>1, ConvertedType DEF Texts
<1>4. PICK N : Located(Texts, N)
    BY <1>3, FlattenAt
<1>5. \A i \in 1..n : u[i] = ItemText(i) /\ pg[i] = document[i].page
    OBVIOUS
<1> HIDE DEF u, pg
<1>6. /\ \A i \in 1..n : ItemAt(i, N, u[i])
      /\ \A i, k \in 1..n : i < k => u[i] < u[k]
      /\ Marked(marks, n, u, pg) /\ InOrderMarks(marks)
    BY <1>4, <1>5, AllMarked
<1>7. \A i \in 1..n : /\ u[i] \in Nat /\ N[i - 1] \in Nat
                      /\ \A q \in (N[i - 1] + 1)..(u[i] - 1) : text[q] \in Blanks
    BY <1>6 DEF ItemAt
<1> HIDE DEF n
<1>8. I = {i \in 1..n : u[i] <= p}
    BY <1>2, <1>5
<1> HIDE DEF I
<1>9. I # {}
    <2>1. PICK i \in 1..n : N[i - 1] < p
        BY <1>1, <1>2, <1>4 DEF Located
    <2>2. ~(u[i] <= p) => p \in (N[i - 1] + 1)..(u[i] - 1)
        BY <1>2, <1>7, <2>1
    <2>3. u[i] <= p
        BY <1>7, <2>1, <2>2
    <2> QED BY <1>8, <2>1, <2>3
<1>10. I \subseteq Int /\ IsFiniteSet(I)
    <2>1. I \subseteq 1..n /\ 1..n \subseteq Int /\ IsFiniteSet(1..n)
        BY <1>2, <1>8, FS_Interval
    <2> QED BY <2>1, FS_Subset
<1>11. j \in I /\ \A x \in I : x <= j
    BY <1>9, <1>10, MaxIn
<1> HIDE DEF j
<1>12. j \in 1..n /\ u[j] <= p
    BY <1>8, <1>11
<1>13. ASSUME NEW i \in 1..n, u[i] <= p PROVE u[i] <= u[j]
    <2>1. i \in I /\ i <= j
        BY <1>8, <1>11, <1>13
    <2>2. i = j \/ i < j
        BY <1>12, <2>1
    <2>3. u[i] \in Nat /\ u[j] \in Nat
        BY <1>7, <1>12
    <2> QED BY <1>6, <1>12, <2>2, <2>3
<1>14. PageAt(marks, p) = pg[j]
    BY <1>2, <1>6, <1>7, <1>12, <1>13, MarkedPage
<1>15. pg[j] = document[j].page
    BY <1>5, <1>12
<1> QED BY <1>14, <1>15 DEF j, I

\* What is found is placed where it stands.
LEMMA PlacedRight ==
    TextTyped /\ ConvertedInv /\ SectionsInv /\ ReadInv /\ SnapInv => PlacedWhereItStands
<1> SUFFICES ASSUME TextTyped, ConvertedInv, SectionsInv, ReadInv, SnapInv, Snapped, Faithful,
                    Cardinality(Occurrences(Said(quote[1]), Said(text))) = 1,
                    Len(quote) = 2 => Len(finding.spans) = 2
             PROVE  LET p == finding.spans[1].from IN
                    /\ p \in Range(read[1])
                    /\ {finding.path[k].line : k \in DOMAIN finding.path} = HeadingsAbove(p)
                    /\ ItemsTellApart =>
                          finding.page = document[Max({i \in DOMAIN document : ItemText(i) <= p})].page
    BY DEF PlacedWhereItStands, Said
<1> DEFINE p == finding.spans[1].from
<1>1. p \in Solid(text) /\ p \in 1..Len(text) /\ p \in Range(read[1])
    BY FirstPlaced
<1>2. {finding.path[k].line : k \in DOMAIN finding.path} = HeadingsAbove(p)
    BY FirstUnder
<1>3. text[p] \notin Blanks
    BY <1>1 DEF Solid
<1>4. stage # "document" /\ finding.page = PageAt(marks, p)
    BY DEF Snapped, SnapInv
<1> HIDE DEF p
<1>5. ASSUME ItemsTellApart
      PROVE  finding.page = document[Max({i \in DOMAIN document : ItemText(i) <= p})].page
    BY <1>1, <1>3, <1>4, <1>5, PageRight
<1> QED BY <1>1, <1>2, <1>5 DEF p

\* A passage that stands in one place is placed there: within what was read,
\* under the headings open at that point, and on the page of its item, if the
\* items can be told apart.
THEOREM PassagesArePlaced == Spec => []PlacedWhereItStands
<1>1. Init => ConvertedInv /\ SectionsInv /\ ReadInv /\ SnapInv
    BY DEF Init, ConvertedInv, SectionsInv, ReadInv, SnapInv
<1> QED BY TextTypedInit, TextTypedNext, ConvertedNext, SectionsNext, ReadNext, SnapNext, PlacedRight,
           <1>1, PTL DEF Spec
===============================================================================
