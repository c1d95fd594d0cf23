------------------------------ MODULE FoldFacts ------------------------------
(***************************************************************************)
(* Induction and recursion over finite sets, in a form the provers can     *)
(* use: a property is the set of what has it, a step of a fold a function. *)
(* The proofs about sequences that the code packs, joins and adds up rest  *)
(* on these.                                                               *)
(***************************************************************************)
EXTENDS SequencesExt, FiniteSetTheorems, SequenceTheorems, TLAPS

\* A set of numbers that is not empty has a least one.
LEMMA LeastOf ==
    ASSUME NEW S, S \subseteq Nat, S # {}
    PROVE  \E x \in S : \A y \in S : x <= y
<1>1. PICK x \in S : \A y \in S : ~(<<y, x>> \in OpToRel(<, Nat))
    BY NatLessThanWellFounded, WFMin, Zenon
<1>2. \A y \in S : ~(y < x)
    BY <1>1 DEF OpToRel
<1> QED BY <1>2

\* Induction over the numbers, for the set of those that have a property.
LEMMA CountingUp ==
    ASSUME NEW P, 0 \in P, \A n \in Nat : n \in P => n + 1 \in P
    PROVE  Nat \subseteq P
<1> DEFINE Bad == {n \in Nat : n \notin P}
<1> SUFFICES ASSUME Bad # {} PROVE FALSE
    OBVIOUS
<1>1. PICK n \in Bad : \A m \in Bad : n <= m
    BY LeastOf
<1>2. n # 0 /\ n - 1 \in Nat /\ n - 1 \notin Bad
    BY <1>1
<1>3. n \in P
    BY <1>2
<1> QED BY <1>1, <1>3

\* Every subset of a finite set has a property that a set has if all smaller
\* ones, that is, its own proper subsets, have it.
LEMMA SmallerFirst ==
    ASSUME NEW S, IsFiniteSet(S), NEW P,
           \A s \in SUBSET S : (\A t \in SUBSET s : t # s => t \in P) => s \in P
    PROVE  SUBSET S \subseteq P
<1> DEFINE Q == {n \in Nat : \A s \in SUBSET S : Cardinality(s) < n => s \in P}
<1>1. \A s \in SUBSET S : IsFiniteSet(s) /\ Cardinality(s) \in Nat
    BY FS_Subset, FS_CardinalityType
<1>2. 0 \in Q
    BY <1>1
<1>3. ASSUME NEW n \in Nat, n \in Q PROVE n + 1 \in Q
    <2> SUFFICES ASSUME NEW s \in SUBSET S, Cardinality(s) < n + 1
                 PROVE  s \in P
        OBVIOUS
    <2>1. ASSUME NEW t \in SUBSET s, t # s PROVE t \in P
        <3>1. IsFiniteSet(s) /\ Cardinality(s) \in Nat /\ Cardinality(t) \in Nat
            BY <1>1
        <3>2. Cardinality(t) <= Cardinality(s) /\ Cardinality(s) # Cardinality(t)
            BY <2>1, <3>1, FS_Subset
        <3>3. Cardinality(t) < n
            BY <3>1, <3>2
        <3> QED BY <1>3, <3>3
    <2> QED BY <2>1
<1> HIDE DEF Q
<1>4. Nat \subseteq Q
    BY <1>2, <1>3, CountingUp
<1>5. ASSUME NEW s \in SUBSET S PROVE s \in P
    <2>1. Cardinality(s) \in Nat /\ Cardinality(s) + 1 \in Q
        BY <1>1, <1>4
    <2> QED BY <2>1 DEF Q
<1> QED BY <1>5

\* ch picks an element of every subset of S.
Picks(ch, S) == \A s \in SUBSET S : s # {} => ch[s] \in s

\* The same for a property that the empty set has, and that a set has if it
\* does without the element ch picks.
LEMMA TakingAway ==
    ASSUME NEW S, IsFiniteSet(S), NEW P, {} \in P,
           NEW ch, Picks(ch, S),
           \A s \in SUBSET S : s # {} /\ s \ {ch[s]} \in P => s \in P
    PROVE  SUBSET S \subseteq P
<1>1. ASSUME NEW s \in SUBSET S, \A t \in SUBSET s : t # s => t \in P
      PROVE  s \in P
    <2>1. CASE s = {}
        BY <2>1
    <2>2. CASE s # {}
        <3>1. ch[s] \in s
            BY <2>2 DEF Picks
        <3>2. s \ {ch[s]} \in P
            BY <1>1, <3>1
        <3> QED BY <2>2, <3>2
    <2> QED BY <2>1, <2>2
<1> QED BY <1>1, SmallerFirst

\* h folds op over the subsets of S, taking away what ch picks.
IsFold(h, S, V, base, ch, op) ==
    /\ h \in [SUBSET S -> V]
    /\ \A s \in SUBSET S :
          h[s] = IF s = {} THEN base ELSE op[<<ch[s], h[s \ {ch[s]}]>>]

\* A fold that takes elements away in the order ch picks them is defined.
LEMMA FoldExists ==
    ASSUME NEW S, IsFiniteSet(S), NEW V, NEW base \in V,
           NEW ch, Picks(ch, S),
           NEW op \in [S \X V -> V]
    PROVE  \E h : IsFold(h, S, V, base, ch, op)
<1> USE DEF Picks
<1> DEFINE Upto(k) == {s \in SUBSET S : Cardinality(s) <= k}
           Fold(h, s) == IF s = {} THEN base ELSE op[<<ch[s], h[s \ {ch[s]}]>>]
           P == {k \in Nat : \E h \in [Upto(k) -> V] : \A s \in Upto(k) : h[s] = Fold(h, s)}
<1>1. \A s \in SUBSET S : IsFiniteSet(s) /\ Cardinality(s) \in Nat
    BY FS_Subset, FS_CardinalityType
<1>2. 0 \in P
    <2>1. \A s \in Upto(0) : s = {}
        BY <1>1, FS_EmptySet
    <2> DEFINE h == [s \in Upto(0) |-> base]
    <2>2. h \in [Upto(0) -> V] /\ \A s \in Upto(0) : h[s] = Fold(h, s)
        BY <2>1
    <2> QED BY <2>2
<1>3. ASSUME NEW k \in Nat, k \in P PROVE k + 1 \in P
    <2>1. PICK h \in [Upto(k) -> V] : \A s \in Upto(k) : h[s] = Fold(h, s)
        BY <1>3
    <2> DEFINE g == [s \in Upto(k + 1) |-> Fold(h, s)]
    <2>2. \A s \in Upto(k + 1) : s # {} => ch[s] \in s /\ s \ {ch[s]} \in Upto(k)
        <3> SUFFICES ASSUME NEW s \in Upto(k + 1), s # {}
                     PROVE  ch[s] \in s /\ s \ {ch[s]} \in Upto(k)
            OBVIOUS
        <3>1. ch[s] \in s
            OBVIOUS
        <3>2. Cardinality(s \ {ch[s]}) = Cardinality(s) - 1
            BY <1>1, <3>1, FS_RemoveElement
        <3> QED BY <1>1, <3>1, <3>2
    <2>3. Upto(k) \subseteq Upto(k + 1)
        BY <1>1
    <2>4. \A s \in Upto(k) : g[s] = h[s]
        BY <2>1, <2>3
    <2>5. \A s \in Upto(k + 1) : g[s] \in V
        BY <2>2
    <2>6. \A s \in Upto(k + 1) : g[s] = Fold(g, s)
        BY <2>2, <2>4
    <2>7. g \in [Upto(k + 1) -> V]
        BY <2>5
    <2> HIDE DEF g, Fold, Upto
    <2>8. \E f \in [Upto(k + 1) -> V] : \A s \in Upto(k + 1) : f[s] = Fold(f, s)
        BY <2>6, <2>7
    <2> QED BY <2>8
<1> HIDE DEF P
<1>4. Cardinality(S) \in P
    BY <1>1, <1>2, <1>3, CountingUp
<1>5. Upto(Cardinality(S)) = SUBSET S
    BY <1>1, FS_Subset
<1> QED BY <1>4, <1>5 DEF P, IsFold

\* A finite set of integers that is not empty has a greatest one.
LEMMA MaxIn ==
    ASSUME NEW S, S \subseteq Int, IsFiniteSet(S), S # {}
    PROVE  Max(S) \in S /\ \A x \in S : x <= Max(S)
<1> DEFINE ch == [s \in SUBSET S |-> CHOOSE x \in s : TRUE]
           P == {{}} \cup {s \in SUBSET S : \E m \in s : \A x \in s : x <= m}
<1>0. Picks(ch, S)
    BY DEF Picks
<1>1. \A s \in SUBSET S : s # {} => ch[s] \in s
    OBVIOUS
<1>2. ASSUME NEW s \in SUBSET S, s # {}, s \ {ch[s]} \in P PROVE s \in P
    <2>1. CASE s \ {ch[s]} = {}
        <3> HIDE DEF ch
        <3>1. ch[s] \in s /\ ch[s] \in Int /\ s = {ch[s]}
            BY <1>1, <1>2, <2>1
        <3>2. \A x \in s : x <= ch[s]
            BY <3>1
        <3> QED BY <3>1, <3>2
    <2>2. CASE s \ {ch[s]} # {}
        <3>1. PICK m \in s \ {ch[s]} : \A x \in s \ {ch[s]} : x <= m
            BY <1>2, <2>2
        <3>2. m \in Int /\ ch[s] \in Int /\ ch[s] \in s
            BY <1>1, <1>2, <3>1
        <3>3. CASE ch[s] <= m
            <4>1. \A x \in s : x <= m
                BY <3>1, <3>3
            <4> QED BY <3>1, <4>1
        <3>4. CASE ~(ch[s] <= m)
            <4>1. \A x \in s : x <= ch[s]
                BY <3>1, <3>2, <3>4
            <4> QED BY <3>2, <4>1
        <3> QED BY <3>3, <3>4
    <2> QED BY <2>1, <2>2
<1> HIDE DEF ch, P
<1>3. {} \in P
    BY DEF P
<1>4. S \in P
    BY <1>0, <1>2, <1>3, TakingAway
<1>5. PICK m \in S : \A x \in S : x <= m
    BY <1>4 DEF P
<1>6. \A x \in S : m >= x
    BY <1>5
<1> QED BY <1>5, <1>6 DEF Max

\* The greatest of 1..k is k; taking it away leaves 1..k-1.
LEMMA MaxOfInterval ==
    ASSUME NEW k \in Nat, k # 0
    PROVE  Max(1..k) = k /\ (1..k) \ {Max(1..k)} = 1..(k - 1)
<1>1. 1..k \subseteq Int /\ IsFiniteSet(1..k) /\ k \in 1..k
    BY FS_Interval
<1>2. Max(1..k) \in 1..k /\ \A x \in 1..k : x <= Max(1..k)
    BY <1>1, MaxIn
<1>3. Max(1..k) = k
    BY <1>1, <1>2
<1> QED BY <1>3

\* h folds op over 1..n from the left: the largest is taken away first.
IsLeftFold(h, n, V, base, op) ==
    /\ h \in [SUBSET (1..n) -> V]
    /\ \A s \in SUBSET (1..n) :
          /\ h[s] = IF s = {} THEN base ELSE op[<<Max(s), h[s \ {Max(s)}]>>]
          /\ s # {} => Max(s) \in 1..n

\* The fold of a list from the left exists: one value after each element.
LEMMA LeftFoldExists ==
    ASSUME NEW n \in Nat, NEW V, NEW base \in V, NEW op \in [(1..n) \X V -> V]
    PROVE  \E h : IsLeftFold(h, n, V, base, op)
<1> DEFINE ch == [s \in SUBSET (1..n) |-> Max(s)]
<1>1. IsFiniteSet(1..n)
    BY FS_Interval
<1>2. \A s \in SUBSET (1..n) : s # {} => Max(s) \in s
    <2> SUFFICES ASSUME NEW s \in SUBSET (1..n), s # {} PROVE Max(s) \in s
        OBVIOUS
    <2>1. IsFiniteSet(s)
        BY <1>1, FS_Subset, Zenon
    <2>2. s \subseteq Int
        OBVIOUS
    <2> QED BY <2>1, <2>2, MaxIn
<1>3. \A s \in SUBSET (1..n) : ch[s] = Max(s)
    OBVIOUS
<1>4. Picks(ch, 1..n)
    BY <1>2, <1>3 DEF Picks
<1> HIDE DEF ch
<1>5. PICK h : IsFold(h, 1..n, V, base, ch, op)
    BY <1>1, <1>4, FoldExists
<1>6. /\ h \in [SUBSET (1..n) -> V]
      /\ \A s \in SUBSET (1..n) :
              h[s] = IF s = {} THEN base ELSE op[<<Max(s), h[s \ {Max(s)}]>>]
    BY <1>3, <1>5 DEF IsFold
<1> QED BY <1>2, <1>6 DEF IsLeftFold

\* The definition inside FlattenSeq.
FlattenFold(seqs, f) ==
    f = [i \in 1..Len(seqs) |-> IF i = 1 THEN seqs[i] ELSE f[i - 1] \o seqs[i]]

\* FlattenSeq is the last of the partial concatenations.
LEMMA FlattenDefined ==
    ASSUME NEW S, NEW seqs \in Seq(Seq(S)), seqs # <<>>
    PROVE  \E f \in [1..Len(seqs) -> Seq(S)] :
              /\ f[1] = seqs[1]
              /\ \A i \in 2..Len(seqs) : f[i] = f[i - 1] \o seqs[i]
              /\ FlattenSeq(seqs) = f[Len(seqs)]
<1> DEFINE n == Len(seqs)
           V == Seq(S)
           op == [x \in (1..n) \X V |-> IF x[1] = 1 THEN seqs[1] ELSE x[2] \o seqs[x[1]]]
           it == CHOOSE f : FlattenFold(seqs, f)
<1>1. n \in Nat /\ n # 0 /\ DOMAIN seqs = 1..n /\ \A i \in 1..n : seqs[i] \in V
    OBVIOUS
<1>2. \A a, b \in V : a \o b \in V
    OBVIOUS
<1>3. <<>> \in V
    OBVIOUS
<1> HIDE DEF n, V, it
<1>4. op \in [(1..n) \X V -> V]
    BY <1>1, <1>2
<1> HIDE DEF op
<1>5. PICK h : IsLeftFold(h, n, V, <<>>, op)
    BY <1>1, <1>3, <1>4, LeftFoldExists
<1> DEFINE f == [i \in 1..n |-> h[1..i]]
<1>6. f \in [1..n -> V]
    <2>1. \A i \in 1..n : 1..i \in SUBSET (1..n)
        BY <1>1
    <2> QED BY <1>5, <2>1 DEF IsLeftFold
<1>7. ASSUME NEW i \in 1..n
      PROVE  f[i] = IF i = 1 THEN seqs[i] ELSE f[i - 1] \o seqs[i]
    <2>1. Max(1..i) = i /\ (1..i) \ {Max(1..i)} = 1..(i - 1)
        BY <1>1, MaxOfInterval
    <2>2. 1..i \in SUBSET (1..n) /\ 1..i # {} /\ 1..(i - 1) \in SUBSET (1..n)
        <3>1. i \in 1..i
            BY <1>1
        <3>2. \A j \in 1..i : j \in 1..n
            BY <1>1
        <3>3. \A j \in 1..(i - 1) : j \in 1..n
            BY <1>1
        <3> QED BY <3>1, <3>2, <3>3
    <2>3. h[1..i] = op[<<i, h[1..(i - 1)]>>] /\ h[1..(i - 1)] \in V
        BY <1>5, <2>1, <2>2 DEF IsLeftFold
    <2>4. op[<<i, h[1..(i - 1)]>>] = IF i = 1 THEN seqs[1] ELSE h[1..(i - 1)] \o seqs[i]
        BY <2>3 DEF op
    <2>5. i # 1 => i - 1 \in 1..n
        BY <1>1
    <2> QED BY <2>3, <2>4, <2>5
<1>8. \E g : FlattenFold(seqs, g)
    <2>1. f = [i \in 1..n |-> f[i]]
        OBVIOUS
    <2> HIDE DEF f
    <2>2. f = [i \in 1..n |-> IF i = 1 THEN seqs[i] ELSE f[i - 1] \o seqs[i]]
        BY <1>7, <2>1
    <2>3. FlattenFold(seqs, f)
        BY <2>2 DEF FlattenFold, n
    <2> QED BY <2>3
<1>9. FlattenFold(seqs, it)
    BY <1>8 DEF it
<1>10. /\ it = [i \in 1..n |-> it[i]]
       /\ \A i \in 1..n : it[i] = IF i = 1 THEN seqs[i] ELSE it[i - 1] \o seqs[i]
    BY <1>9 DEF FlattenFold, n
<1> DEFINE P == {i \in Nat : i + 1 \in 1..n => it[i + 1] \in V}
<1>11. 0 \in P
    <2>1. 1 \in 1..n
        BY <1>1
    <2>2. it[1] = seqs[1] /\ seqs[1] \in V
        BY <1>1, <1>10, <2>1
    <2> QED BY <2>2
<1>12. ASSUME NEW i \in Nat, i \in P PROVE i + 1 \in P
    <2> SUFFICES ASSUME i + 2 \in 1..n PROVE it[i + 2] \in V
        BY <1>1
    <2>1. i + 1 \in 1..n /\ it[i + 1] \in V
        BY <1>1, <1>12
    <2>2. (i + 2) - 1 = i + 1 /\ i + 2 # 1
        OBVIOUS
    <2>3. it[i + 2] = it[(i + 2) - 1] \o seqs[i + 2]
        BY <1>10, <2>2
    <2> QED BY <1>1, <1>2, <2>1, <2>2, <2>3
<1> HIDE DEF P
<1>13. \A i \in 1..n : it[i] \in V
    <2> SUFFICES ASSUME NEW i \in 1..n PROVE it[i] \in V
        OBVIOUS
    <2>1. i - 1 \in Nat
        BY <1>1
    <2>2. i - 1 \in P
        BY <1>11, <1>12, <2>1, CountingUp
    <2> QED BY <1>1, <2>2 DEF P
<1>14. it \in [1..n -> V]
    BY <1>10, <1>13
<1>15. FlattenSeq(seqs) = it[n]
    BY <1>1 DEF FlattenSeq, FlattenFold, it, n
<1>16. it[1] = seqs[1] /\ \A i \in 2..n : it[i] = it[i - 1] \o seqs[i]
    <2>1. 1 \in 1..n /\ \A i \in 2..n : i \in 1..n /\ i # 1
        BY <1>1
    <2> QED BY <1>10, <2>1
<1> QED BY <1>14, <1>15, <1>16 DEF n, V

\* A list of sequences over S concatenates to a sequence over S.
LEMMA FlattenType ==
    ASSUME NEW S, NEW seqs \in Seq(Seq(S))
    PROVE  FlattenSeq(seqs) \in Seq(S)
<1>1. CASE seqs = <<>>
    BY <1>1 DEF FlattenSeq
<1>2. CASE seqs # <<>>
    <2>1. PICK f \in [1..Len(seqs) -> Seq(S)] : FlattenSeq(seqs) = f[Len(seqs)]
        BY <1>2, FlattenDefined
    <2>2. Len(seqs) \in 1..Len(seqs)
        BY <1>2
    <2> QED BY <2>1, <2>2
<1> QED BY <1>1, <1>2

\* A sequence is its last element appended to the rest.
LEMMA AppendedApart ==
    ASSUME NEW S, NEW s \in Seq(S), s # <<>>
    PROVE  /\ Front(s) \in Seq(S) /\ Last(s) \in S
           /\ s = Append(Front(s), Last(s))
           /\ Len(Front(s)) = Len(s) - 1
<1>1. Len(s) \in Nat /\ Len(s) # 0
    OBVIOUS
<1>2. Last(s) \in S
    BY <1>1 DEF Last
<1>3. Front(s) \in Seq(S) /\ Len(Front(s)) = Len(s) - 1
    <2> DEFINE n == Len(s) - 1
    <2>1. n \in Nat /\ \A i \in 1..n : s[i] \in S
        BY <1>1
    <2> HIDE DEF n
    <2>2. SubSeq(s, 1, n) \in Seq(S) /\ Len(SubSeq(s, 1, n)) = n
        BY <2>1, SubSeqProperties
    <2> QED BY <2>2 DEF Front, n
<1>4. \A i \in 1..(Len(s) - 1) : Front(s)[i] = s[i]
    BY <1>1 DEF Front
<1>5. /\ Append(Front(s), Last(s)) \in Seq(S)
      /\ Len(Append(Front(s), Last(s))) = Len(s)
    BY <1>1, <1>2, <1>3
<1>6. \A i \in 1..Len(s) : Append(Front(s), Last(s))[i] = s[i]
    BY <1>1, <1>2, <1>3, <1>4 DEF Last
<1> QED BY <1>1, <1>2, <1>3, <1>5, <1>6

\* What is flattened, appended to.
LEMMA FlattenAppend ==
    ASSUME NEW S, NEW ss \in Seq(Seq(S)), NEW x \in Seq(S)
    PROVE  FlattenSeq(Append(ss, x)) = FlattenSeq(ss) \o x
<1> DEFINE n == Len(ss)
           more == Append(ss, x)
<1>1. /\ n \in Nat /\ more \in Seq(Seq(S)) /\ more # <<>> /\ Len(more) = n + 1
      /\ more[n + 1] = x /\ \A i \in 1..n : more[i] = ss[i]
    BY AppendProperties
<1>2. n = 0 <=> ss = <<>>
    OBVIOUS
<1> HIDE DEF n, more
<1>3. PICK g \in [1..(n + 1) -> Seq(S)] :
          /\ g[1] = more[1]
          /\ \A i \in 2..(n + 1) : g[i] = g[i - 1] \o more[i]
          /\ FlattenSeq(more) = g[n + 1]
    <2>1. PICK g \in [1..Len(more) -> Seq(S)] :
              /\ g[1] = more[1]
              /\ \A i \in 2..Len(more) : g[i] = g[i - 1] \o more[i]
              /\ FlattenSeq(more) = g[Len(more)]
        BY <1>1, FlattenDefined
    <2> QED BY <1>1, <2>1
<1>4. CASE n = 0
    <2>1. FlattenSeq(ss) = <<>>
        BY <1>2, <1>4 DEF FlattenSeq
    <2>2. FlattenSeq(more) = x
        BY <1>1, <1>3, <1>4
    <2> QED BY <2>1, <2>2 DEF more
<1>5. CASE n # 0
    <2>1. PICK f \in [1..n -> Seq(S)] :
              /\ f[1] = ss[1]
              /\ \A i \in 2..n : f[i] = f[i - 1] \o ss[i]
              /\ FlattenSeq(ss) = f[n]
        BY <1>2, <1>5, FlattenDefined DEF n
    <2> DEFINE P == {k \in Nat : k + 1 <= n => f[k + 1] = g[k + 1]}
    <2>2. 0 \in P
        BY <1>1, <1>3, <1>5, <2>1
    <2>3. ASSUME NEW k \in Nat, k \in P PROVE k + 1 \in P
        <3> SUFFICES ASSUME k + 2 <= n PROVE f[k + 2] = g[k + 2]
            OBVIOUS
        <3>1. k + 2 \in 2..n /\ k + 2 \in 2..(n + 1) /\ (k + 2) - 1 = k + 1 /\ k + 1 <= n /\ k + 2 \in 1..n
            BY <1>1
        <3>2. f[k + 2] = f[k + 1] \o ss[k + 2]
            BY <2>1, <3>1
        <3>3. g[k + 2] = g[k + 1] \o more[k + 2]
            BY <1>3, <3>1
        <3> QED BY <1>1, <2>3, <3>1, <3>2, <3>3
    <2> HIDE DEF P
    <2>4. n - 1 \in P
        <3>1. n - 1 \in Nat
            BY <1>1, <1>5
        <3> QED BY <2>2, <2>3, <3>1, CountingUp
    <2>5. f[n] = g[n]
        BY <1>1, <2>4 DEF P
    <2>6. n + 1 \in 2..(n + 1) /\ (n + 1) - 1 = n
        BY <1>1, <1>5
    <2>7. g[n + 1] = g[n] \o more[n + 1]
        BY <1>3, <2>6
    <2> QED BY <1>1, <1>3, <2>1, <2>5, <2>7 DEF more
<1> QED BY <1>4, <1>5

\* The first part of what is flattened comes first.
LEMMA FlattenFirst ==
    ASSUME NEW S, NEW ss \in Seq(Seq(S)), ss # <<>>
    PROVE  /\ Head(ss) \in Seq(S) /\ Tail(ss) \in Seq(Seq(S))
           /\ FlattenSeq(ss) = Head(ss) \o FlattenSeq(Tail(ss))
<1> DEFINE n == Len(ss) - 1
           rest == Tail(ss)
           hd == Head(ss)
<1>1. /\ n \in Nat /\ Len(ss) = n + 1 /\ hd \in Seq(S) /\ hd = ss[1]
      /\ rest \in Seq(Seq(S)) /\ Len(rest) = n
      /\ \A i \in 1..n : rest[i] = ss[i + 1] /\ rest[i] \in Seq(S)
    OBVIOUS
<1> HIDE DEF n, rest, hd
<1>2. n = 0 <=> rest = <<>>
    BY <1>1
<1>3. PICK g \in [1..(n + 1) -> Seq(S)] :
          /\ g[1] = ss[1]
          /\ \A i \in 2..(n + 1) : g[i] = g[i - 1] \o ss[i]
          /\ FlattenSeq(ss) = g[n + 1]
    <2>1. PICK g \in [1..Len(ss) -> Seq(S)] :
              /\ g[1] = ss[1]
              /\ \A i \in 2..Len(ss) : g[i] = g[i - 1] \o ss[i]
              /\ FlattenSeq(ss) = g[Len(ss)]
        BY FlattenDefined
    <2> QED BY <1>1, <2>1
<1>4. CASE n = 0
    <2>1. FlattenSeq(rest) = <<>>
        BY <1>2, <1>4 DEF FlattenSeq
    <2>2. FlattenSeq(ss) = hd
        BY <1>1, <1>3, <1>4
    <2>3. FlattenSeq(ss) = hd \o FlattenSeq(rest)
        BY <1>1, <2>1, <2>2
    <2> QED BY <1>1, <2>3 DEF rest, hd
<1>5. CASE n # 0
    <2>1. PICK f \in [1..n -> Seq(S)] :
              /\ f[1] = rest[1]
              /\ \A i \in 2..n : f[i] = f[i - 1] \o rest[i]
              /\ FlattenSeq(rest) = f[n]
        BY <1>1, <1>2, <1>5, FlattenDefined
    <2> DEFINE P == {k \in Nat : k + 1 <= n => g[k + 2] = hd \o f[k + 1]}
    <2>2. 0 \in P
        <3>1. 2 \in 2..(n + 1) /\ 1 \in 1..n /\ 2 - 1 = 1 /\ 1 + 1 = 2
            BY <1>1, <1>5
        <3>2. g[2] = g[1] \o ss[2]
            BY <1>3, <3>1
        <3>3. rest[1] = ss[2]
            BY <1>1, <3>1
        <3>4. g[2] = hd \o f[1]
            BY <1>1, <1>3, <2>1, <3>2, <3>3
        <3> QED BY <3>4
    <2>3. ASSUME NEW k \in Nat, k \in P PROVE k + 1 \in P
        <3> SUFFICES ASSUME k + 2 <= n PROVE g[k + 3] = hd \o f[k + 2]
            OBVIOUS
        <3>1. /\ k + 2 \in 2..n /\ k + 3 \in 2..(n + 1) /\ (k + 2) - 1 = k + 1
              /\ (k + 3) - 1 = k + 2 /\ k + 1 <= n /\ k + 2 \in 1..n /\ k + 1 \in 1..n
              /\ (k + 2) + 1 = k + 3
            BY <1>1
        <3>2. f[k + 2] = f[k + 1] \o rest[k + 2]
            BY <2>1, <3>1
        <3>3. g[k + 3] = g[k + 2] \o ss[k + 3]
            BY <1>3, <3>1
        <3>4. g[k + 2] = hd \o f[k + 1]
            BY <2>3, <3>1
        <3>5. rest[k + 2] = ss[k + 3] /\ rest[k + 2] \in Seq(S) /\ f[k + 1] \in Seq(S)
            BY <1>1, <3>1
        <3> DEFINE u == f[k + 1]
                   w == rest[k + 2]
        <3>6. f[k + 2] = u \o w /\ g[k + 3] = (hd \o u) \o w /\ u \in Seq(S) /\ w \in Seq(S)
            BY <3>2, <3>3, <3>4, <3>5
        <3> HIDE DEF u, w
        <3>7. (hd \o u) \o w = hd \o (u \o w)
            <4>1. hd \in Seq(S) /\ u \in Seq(S) /\ w \in Seq(S)
                BY <1>1, <3>6
            <4> QED BY ONLY <4>1, ConcatAssociative
        <3> QED BY <3>6, <3>7
    <2> HIDE DEF P
    <2>4. n - 1 \in P
        <3>1. n - 1 \in Nat
            BY <1>1, <1>5
        <3> QED BY <2>2, <2>3, <3>1, CountingUp
    <2>5. g[n + 1] = hd \o f[n]
        <3>1. (n - 1) + 1 = n /\ (n - 1) + 2 = n + 1
            BY <1>1
        <3> QED BY <1>1, <2>4, <3>1 DEF P
    <2> QED BY <1>1, <1>3, <2>1, <2>5 DEF rest, hd
<1> QED BY <1>4, <1>5

\* What is left of a sequence after its first part is a suffix of it.
LEMMA SuffixOf ==
    ASSUME NEW S, NEW a \in Seq(S), NEW b \in Seq(S)
    PROVE  IsSuffix(b, a \o b)
<1> DEFINE t == a \o b
           m == Len(a)
           n == Len(b)
<1>1. /\ m \in Nat /\ n \in Nat /\ t \in Seq(S) /\ Len(t) = m + n
      /\ \A i \in 1..n : t[m + i] = b[i]
    OBVIOUS
<1> HIDE DEF t, m
<1> DEFINE r == Reverse(b)
           q == Reverse(t)
<1>2. r \in Seq(S) /\ Len(r) = n /\ \A i \in 1..n : r[i] = b[(n - i) + 1]
    <2>1. \A i \in 1..n : (n - i) + 1 \in 1..n
        BY <1>1
    <2>2. r = [i \in 1..n |-> b[(n - i) + 1]]
        BY DEF Reverse
    <2>3. \A i \in 1..n : b[i] \in S
        OBVIOUS
    <2> HIDE DEF r, n
    <2>4. r \in [1..n -> S]
        BY <2>1, <2>2, <2>3
    <2>5. r \in Seq(S) /\ Len(r) = n
        <3>1. n \in Nat
            BY <1>1
        <3> QED BY <2>4, <3>1
    <2> QED BY <2>2, <2>5
<1>3. q \in Seq(S) /\ Len(q) = m + n /\ \A i \in 1..(m + n) : q[i] = t[((m + n) - i) + 1]
    <2>1. \A i \in 1..(m + n) : ((m + n) - i) + 1 \in 1..(m + n)
        BY <1>1
    <2>2. q = [i \in 1..(m + n) |-> t[((m + n) - i) + 1]]
        BY <1>1 DEF Reverse
    <2>3. \A i \in 1..(m + n) : t[i] \in S
        BY <1>1
    <2> HIDE DEF q, n
    <2>4. q \in [1..(m + n) -> S]
        BY <2>1, <2>2, <2>3
    <2>5. q \in Seq(S) /\ Len(q) = m + n
        <3>1. m + n \in Nat
            BY <1>1
        <3> QED BY <2>4, <3>1
    <2> QED BY <2>2, <2>5
<1> HIDE DEF r, q, n
<1>4. \A i \in 1..n : r[i] = q[i]
    <2> SUFFICES ASSUME NEW i \in 1..n PROVE r[i] = q[i]
        OBVIOUS
    <2>1. (n - i) + 1 \in 1..n /\ ((m + n) - i) + 1 = m + ((n - i) + 1) /\ i \in 1..(m + n)
        <3>1. m \in Nat /\ n \in Nat
            BY <1>1
        <3> QED BY <3>1
    <2> QED BY <1>1, <1>2, <1>3, <2>1
<1>5. SubSeq(r, 1, n) = SubSeq(q, 1, n)
    <2>1. SubSeq(r, 1, n) = [i \in 1..n |-> r[i]] /\ SubSeq(q, 1, n) = [i \in 1..n |-> q[i]]
        BY <1>1, <1>2, <1>3
    <2> QED BY <1>4, <2>1
<1> QED BY <1>1, <1>2, <1>3, <1>5 DEF IsSuffix, IsPrefix, r, q, t

\* Min is the least of a set of numbers.
LEMMA MinIn ==
    ASSUME NEW S, S \subseteq Nat, S # {}
    PROVE  Min(S) \in S /\ \A x \in S : Min(S) <= x
<1>1. \E x \in S : \A y \in S : x <= y
    BY LeastOf
<1> QED BY <1>1 DEF Min

\* Induction over the numbers, from all smaller ones.
LEMMA LesserFirst ==
    ASSUME NEW P, \A n \in Nat : (\A m \in Nat : m < n => m \in P) => n \in P
    PROVE  Nat \subseteq P
<1> DEFINE Bad == {n \in Nat : n \notin P}
<1> SUFFICES ASSUME Bad # {} PROVE FALSE
    OBVIOUS
<1>1. PICK n \in Bad : \A m \in Bad : n <= m
    BY LeastOf
<1>2. \A m \in Nat : m < n => m \in P
    BY <1>1
<1> QED BY <1>1, <1>2

\* op depends on the results for what is smaller in the measure m only.
Descends(op, S, V, m, K) ==
    /\ op \in [S \X [S -> V] -> V] /\ V # {}
    /\ K \in Nat /\ m \in [S -> 0..K]
    /\ \A x \in S : \A g, h \in [S -> V] :
          (\A y \in S : m[y] < m[x] => g[y] = h[y]) => op[<<x, g>>] = op[<<x, h>>]

\* The function a recursion describes exists, if it descends in a measure.
LEMMA RecursionExists ==
    ASSUME NEW S, NEW V, NEW m, NEW K, NEW op, Descends(op, S, V, m, K)
    PROVE  \E f \in [S -> V] : \A x \in S : f[x] = op[<<x, f>>]
<1>0. PICK v \in V : /\ K \in Nat /\ m \in [S -> 0..K]
                     /\ op \in [S \X [S -> V] -> V]
    BY DEF Descends
<1> DEFINE Right(f, k) == \A x \in S : m[x] < k => f[x] = op[<<x, f>>]
           P == {k \in Nat : \E f \in [S -> V] : Right(f, k)}
<1>1. 0 \in P
    <2> DEFINE f == [x \in S |-> v]
    <2>1. f \in [S -> V] /\ Right(f, 0)
        BY <1>0
    <2> QED BY <2>1
<1>2. ASSUME NEW k \in Nat, k \in P PROVE k + 1 \in P
    <2>1. PICK f \in [S -> V] : Right(f, k)
        BY <1>2
    <2> DEFINE g == [x \in S |-> op[<<x, f>>]]
    <2>2. g \in [S -> V]
        BY <1>0, <2>1
    <2>3. ASSUME NEW x \in S, m[x] < k + 1 PROVE g[x] = op[<<x, g>>]
        <3>1. \A y \in S : m[y] < m[x] => g[y] = f[y]
            <4> SUFFICES ASSUME NEW y \in S, m[y] < m[x] PROVE g[y] = f[y]
                OBVIOUS
            <4>1. m[y] \in Int /\ m[x] \in Int
                BY <1>0
            <4>2. m[y] < k
                BY <2>3, <4>1
            <4> QED BY <2>1, <4>2
        <3> HIDE DEF g
        <3>2. op[<<x, g>>] = op[<<x, f>>]
            BY <2>1, <2>2, <3>1 DEF Descends
        <3> QED BY <3>2 DEF g
    <2> HIDE DEF g
    <2>4. Right(g, k + 1)
        BY <2>3
    <2> QED BY <2>2, <2>4
<1> HIDE DEF P
<1>3. K + 1 \in P
    BY <1>0, <1>1, <1>2, CountingUp
<1>4. PICK f \in [S -> V] : Right(f, K + 1)
    BY <1>3 DEF P
<1>5. \A x \in S : m[x] < K + 1
    BY <1>0
<1> QED BY <1>4, <1>5

\* s lists the numbers of S in increasing order.
Lists(s, S) ==
    /\ s \in [1..Cardinality(S) -> S]
    /\ \A i, j \in 1..Cardinality(S) : i < j => s[i] < s[j]
    /\ \A x \in S : \E i \in 1..Cardinality(S) : s[i] = x

\* Every finite set of numbers can be listed in increasing order.
LEMMA ListingExists ==
    ASSUME NEW S, S \subseteq Int, IsFiniteSet(S)
    PROVE  /\ Cardinality(S) \in Nat
           /\ \E s : Lists(s, S)
<1> DEFINE ch == [t \in SUBSET S |-> Max(t)]
           P  == {t \in SUBSET S : \E s : Lists(s, t)}
<1>1. \A t \in SUBSET S : IsFiniteSet(t) /\ Cardinality(t) \in Nat /\ t \subseteq Int
    BY FS_Subset, FS_CardinalityType
<1>2. \A t \in SUBSET S : t # {} => Max(t) \in t /\ \A x \in t : x <= Max(t)
    BY <1>1, MaxIn
<1>3. Picks(ch, S)
    <2>1. \A t \in SUBSET S : ch[t] = Max(t)
        OBVIOUS
    <2> HIDE DEF ch
    <2> QED BY <1>2, <2>1 DEF Picks
<1>4. {} \in P
    <2>1. Cardinality({}) = 0
        BY FS_EmptySet
    <2>2. Lists([i \in 1..0 |-> 0], {})
        BY <2>1 DEF Lists
    <2> QED BY <2>2
<1>5. ASSUME NEW t \in SUBSET S, t # {}, t \ {ch[t]} \in P PROVE t \in P
    <2> DEFINE m == Max(t)
               u == t \ {m}
               n == Cardinality(u)
    <2>1. m \in t /\ m \in Int /\ \A x \in u : x \in Int /\ x < m
        <3>1. m \in t /\ \A x \in t : x <= m
            BY <1>2, <1>5
        <3>2. m \in Int /\ \A x \in t : x \in Int
            BY <1>1, <3>1
        <3> HIDE DEF m
        <3> QED BY <3>1, <3>2
    <2>2. Cardinality(t) = n + 1 /\ n \in Nat
        <3>1. Cardinality(t) \in Nat /\ n \in Nat
            BY <1>1
        <3>2. n = Cardinality(t) - 1
            BY <1>1, <2>1, FS_RemoveElement
        <3> QED BY <3>1, <3>2
    <2>3. PICK s : Lists(s, u)
        BY <1>5
    <2> DEFINE r == [i \in 1..(n + 1) |-> IF i = n + 1 THEN m ELSE s[i]]
    <2>4. u \subseteq t /\ t = u \cup {m}
        BY <2>1
    <2>5. /\ s \in [1..n -> u] /\ \A i, j \in 1..n : i < j => s[i] < s[j]
          /\ \A x \in u : \E i \in 1..n : s[i] = x
        BY <2>3 DEF Lists
    <2> HIDE DEF u, m, n
    <2>6. r \in [1..(n + 1) -> t]
        <3>1. \A i \in 1..(n + 1) : i # n + 1 => i \in 1..n
            BY <2>2
        <3>2. \A i \in 1..(n + 1) : (IF i = n + 1 THEN m ELSE s[i]) \in t
            BY <2>1, <2>4, <2>5, <3>1
        <3> QED BY <3>2
    <2>7. \A i, j \in 1..(n + 1) : i < j => r[i] < r[j]
        <3> SUFFICES ASSUME NEW i \in 1..(n + 1), NEW j \in 1..(n + 1), i < j
                     PROVE  r[i] < r[j]
            OBVIOUS
        <3>1. i \in 1..n /\ r[i] = s[i] /\ s[i] \in u
            BY <2>2, <2>5
        <3>2. CASE j = n + 1
            BY <2>1, <3>1, <3>2
        <3>3. CASE j # n + 1
            BY <2>2, <2>5, <3>1, <3>3
        <3> QED BY <3>2, <3>3
    <2>8. ASSUME NEW x \in t PROVE \E i \in 1..(n + 1) : r[i] = x
        <3>1. CASE x = m
            <4>1. n + 1 \in 1..(n + 1) /\ r[n + 1] = m
                BY <2>2
            <4> QED BY <3>1, <4>1
        <3>2. CASE x # m
            <4>1. PICK i \in 1..n : s[i] = x
                BY <2>4, <2>5, <3>2
            <4>2. i \in 1..(n + 1) /\ i # n + 1
                BY <2>2
            <4> QED BY <4>1, <4>2
        <3> QED BY <3>1, <3>2
    <2> HIDE DEF r
    <2>9. Lists(r, t)
        BY <2>2, <2>6, <2>7, <2>8 DEF Lists
    <2> QED BY <2>9
<1> HIDE DEF P, ch
<1>6. S \in P
    BY <1>1, <1>3, <1>4, <1>5, TakingAway
<1> QED BY <1>1, <1>6 DEF P

\* Appending goes to the second of two sequences.
LEMMA ConcatAppend ==
    ASSUME NEW T, NEW a \in Seq(T), NEW r \in Seq(T), NEW x \in T
    PROVE  a \o Append(r, x) = Append(a \o r, x)
<1>1. a \o r \in Seq(T) /\ <<x>> \in Seq(T)
    OBVIOUS
<1>2. Append(r, x) = r \o <<x>> /\ Append(a \o r, x) = (a \o r) \o <<x>>
    BY <1>1, AppendIsConcat
<1>3. (a \o r) \o <<x>> = a \o (r \o <<x>>)
    BY ONLY <1>1, a \in Seq(T), r \in Seq(T), ConcatAssociative
<1> QED BY <1>2, <1>3

\* What is flattened of two lists is one after the other.
LEMMA FlattenConcat ==
    ASSUME NEW S, NEW a \in Seq(Seq(S)), NEW b \in Seq(Seq(S))
    PROVE  FlattenSeq(a \o b) = FlattenSeq(a) \o FlattenSeq(b)
<1> DEFINE Q(s) == FlattenSeq(a \o s) = FlattenSeq(a) \o FlattenSeq(s)
           P == {n \in Nat : \A s \in Seq(Seq(S)) : Len(s) = n => Q(s)}
           fa == FlattenSeq(a)
<1>1. fa \in Seq(S)
    BY FlattenType
<1> HIDE DEF fa
<1>2. 0 \in P
    <2> SUFFICES ASSUME NEW s \in Seq(Seq(S)), Len(s) = 0 PROVE Q(s)
        OBVIOUS
    <2>1. s = <<>> /\ a \o s = a
        OBVIOUS
    <2>2. FlattenSeq(s) = <<>>
        BY <2>1 DEF FlattenSeq
    <2> QED BY <1>1, <2>1, <2>2 DEF fa
<1>3. ASSUME NEW n \in Nat, n \in P PROVE n + 1 \in P
    <2> SUFFICES ASSUME NEW s \in Seq(Seq(S)), Len(s) = n + 1 PROVE Q(s)
        OBVIOUS
    <2>1. PICK r \in Seq(Seq(S)), x \in Seq(S) : s = Append(r, x)
        <3>1. s # <<>>
            BY <1>3
        <3> QED BY <3>1, AppendedApart
    <2>2. Len(r) = n
        BY <2>1, AppendProperties
    <2>3. FlattenSeq(a \o r) = fa \o FlattenSeq(r)
        BY <1>3, <2>2 DEF fa
    <2>4. a \o s = Append(a \o r, x) /\ a \o r \in Seq(Seq(S))
        BY <2>1, ConcatAppend, ConcatProperties
    <2>5. FlattenSeq(a \o s) = FlattenSeq(a \o r) \o x
        BY <2>4, FlattenAppend
    <2>6. FlattenSeq(s) = FlattenSeq(r) \o x
        BY <2>1, FlattenAppend
    <2> DEFINE fr == FlattenSeq(r)
    <2>7. fr \in Seq(S)
        BY FlattenType
    <2> HIDE DEF fr
    <2>8. (fa \o fr) \o x = fa \o (fr \o x)
        BY ONLY <1>1, <2>7, x \in Seq(S), ConcatAssociative
    <2> QED BY <2>3, <2>5, <2>6, <2>8 DEF fr, fa
<1> HIDE DEF P
<1>4. Len(b) \in P
    <2>1. Len(b) \in Nat
        OBVIOUS
    <2> QED BY <1>2, <1>3, <2>1, CountingUp
<1> QED BY <1>4 DEF P

\* A part of a list has a property that its first element has and that goes
\* from each element to the next.
LEMMA Along ==
    ASSUME NEW m \in Nat, m # 0, NEW P, 1 \in P,
           \A q \in 1..(m - 1) : q \in P => q + 1 \in P
    PROVE  \A q \in 1..m : q \in P
<1> DEFINE Q == {k \in Nat : k + 1 <= m => k + 1 \in P}
<1>1. 0 \in Q
    OBVIOUS
<1>2. ASSUME NEW k \in Nat, k \in Q PROVE k + 1 \in Q
    <2> SUFFICES ASSUME k + 2 <= m PROVE k + 2 \in P
        OBVIOUS
    <2>1. k + 1 \in 1..(m - 1) /\ k + 1 <= m
        OBVIOUS
    <2>2. k + 1 \in P
        BY <1>2, <2>1
    <2>3. (k + 1) + 1 \in P
        BY <2>1, <2>2
    <2>4. (k + 1) + 1 = k + 2
        OBVIOUS
    <2> QED BY <2>3, <2>4
<1> HIDE DEF Q
<1>3. \A k \in Nat : k \in Q
    BY <1>1, <1>2, CountingUp
<1>4. ASSUME NEW q \in 1..m PROVE q \in P
    <2>1. q - 1 \in Nat /\ (q - 1) + 1 = q /\ q <= m
        OBVIOUS
    <2> QED BY <1>3, <2>1 DEF Q
<1> QED BY <1>4

\* What is flattened of lists of which each flattens to a part is what is
\* flattened of the parts.
LEMMA FlattenParts ==
    ASSUME NEW S, NEW xs \in Seq(Seq(Seq(S))), NEW ys \in Seq(Seq(S)), Len(xs) = Len(ys),
           \A i \in 1..Len(xs) : FlattenSeq(xs[i]) = ys[i]
    PROVE  FlattenSeq(xs) \in Seq(Seq(S)) /\ FlattenSeq(FlattenSeq(xs)) = FlattenSeq(ys)
<1>1. FlattenSeq(xs) \in Seq(Seq(S))
    BY FlattenType
<1> DEFINE m == Len(xs)
<1>2. m \in Nat /\ Len(ys) = m /\ (m = 0 <=> xs = <<>>) /\ (m = 0 <=> ys = <<>>)
      /\ \A i \in 1..m : xs[i] \in Seq(Seq(S)) /\ ys[i] \in Seq(S)
    OBVIOUS
<1>3. CASE m = 0
    <2>1. xs = <<>> /\ ys = <<>>
        BY <1>2, <1>3
    <2>2. FlattenSeq(xs) = <<>> /\ FlattenSeq(ys) = <<>>
        BY <2>1 DEF FlattenSeq
    <2>3. FlattenSeq(FlattenSeq(xs)) = <<>>
        BY <2>2 DEF FlattenSeq
    <2> QED BY <1>1, <2>2, <2>3
<1>4. CASE m # 0
    <2>1. PICK f \in [1..m -> Seq(Seq(S))] :
              /\ f[1] = xs[1]
              /\ \A i \in 2..m : f[i] = f[i - 1] \o xs[i]
              /\ FlattenSeq(xs) = f[m]
        BY <1>2, <1>4, FlattenDefined
    <2>2. PICK g \in [1..m -> Seq(S)] :
              /\ g[1] = ys[1]
              /\ \A i \in 2..m : g[i] = g[i - 1] \o ys[i]
              /\ FlattenSeq(ys) = g[m]
        <3>1. PICK g \in [1..Len(ys) -> Seq(S)] :
                  /\ g[1] = ys[1]
                  /\ \A i \in 2..Len(ys) : g[i] = g[i - 1] \o ys[i]
                  /\ FlattenSeq(ys) = g[Len(ys)]
            BY <1>2, <1>4, FlattenDefined
        <3> QED BY <1>2, <3>1
    <2> DEFINE P == {q \in 1..m : FlattenSeq(f[q]) = g[q]}
    <2> HIDE DEF m
    <2>3. 1 \in P
        <3>1. 1 \in 1..m
            BY <1>2, <1>4
        <3> QED BY <2>1, <2>2, <3>1 DEF m
    <2>4. ASSUME NEW q \in 1..(m - 1), q \in P PROVE q + 1 \in P
        <3>1. q + 1 \in 2..m /\ q + 1 \in 1..m /\ q \in 1..m /\ (q + 1) - 1 = q
            BY <1>2
        <3> DEFINE r == q + 1
        <3>2. f[r] = f[q] \o xs[r] /\ g[r] = g[q] \o ys[r]
            BY <2>1, <2>2, <3>1
        <3>3. FlattenSeq(f[q]) = g[q] /\ FlattenSeq(xs[r]) = ys[r]
            BY <2>4, <3>1 DEF m
        <3>4. f[q] \in Seq(Seq(S)) /\ xs[r] \in Seq(Seq(S))
            BY <1>2, <2>1, <3>1
        <3>5. FlattenSeq(f[q] \o xs[r]) = FlattenSeq(f[q]) \o FlattenSeq(xs[r])
            BY <3>4, FlattenConcat
        <3> QED BY <3>1, <3>2, <3>3, <3>5
    <2> HIDE DEF P
    <2>5. \A q \in 1..m : q \in P
        BY <1>2, <1>4, <2>3, <2>4, Along
    <2>6. m \in 1..m
        BY <1>2, <1>4
    <2> QED BY <1>1, <2>1, <2>2, <2>5, <2>6 DEF P
<1> QED BY <1>3, <1>4

\* A list of one, flattened.
LEMMA FlattenOne ==
    ASSUME NEW S, NEW x \in Seq(S)
    PROVE  FlattenSeq(<<x>>) = x
<1>1. <<>> \in Seq(Seq(S)) /\ Append(<<>>, x) = <<x>>
    OBVIOUS
<1>2. FlattenSeq(Append(<<>>, x)) = FlattenSeq(<<>>) \o x
    BY <1>1, FlattenAppend
<1>3. FlattenSeq(<<>>) = <<>> /\ <<>> \o x = x
    BY DEF FlattenSeq
<1> QED BY <1>1, <1>2, <1>3

\* N[i] is how much of what is flattened comes from the first i parts.
Located(ss, N) ==
    /\ N \in [0..Len(ss) -> Nat] /\ N[0] = 0
    /\ \A i \in 1..Len(ss) : N[i] = N[i - 1] + Len(ss[i])
    /\ \A i, j \in 0..Len(ss) : i <= j => N[i] <= N[j]
    /\ Len(FlattenSeq(ss)) = N[Len(ss)]
    /\ \A i \in 1..Len(ss) : \A k \in 1..Len(ss[i]) :
          FlattenSeq(ss)[N[i - 1] + k] = ss[i][k]
    /\ \A e \in 1..Len(FlattenSeq(ss)) : \E i \in 1..Len(ss) : N[i - 1] < e /\ e <= N[i]

\* Where each part of what is flattened stands in it.
LEMMA FlattenAt ==
    ASSUME NEW S, NEW ss \in Seq(Seq(S))
    PROVE  \E N : Located(ss, N)
<1> DEFINE n == Len(ss)
           fs == FlattenSeq(ss)
<1>1. n \in Nat /\ (n = 0 <=> ss = <<>>) /\ \A i \in 1..n : ss[i] \in Seq(S) /\ Len(ss[i]) \in Nat
    OBVIOUS
<1>2. CASE n = 0
    <2> DEFINE N == [i \in 0..0 |-> 0]
    <2>1. fs = <<>>
        BY <1>1, <1>2 DEF FlattenSeq
    <2>2. Len(fs) = 0 /\ N \in [0..0 -> Nat] /\ \A i \in 0..0 : N[i] = 0
        BY <2>1
    <2> HIDE DEF N, fs, n
    <2>3. Located(ss, N)
        BY <1>2, <2>2 DEF Located, fs, n
    <2> QED BY <2>3
<1>3. CASE n # 0
    <2>1. PICK f \in [1..n -> Seq(S)] :
              /\ f[1] = ss[1]
              /\ \A i \in 2..n : f[i] = f[i - 1] \o ss[i]
              /\ fs = f[n]
        BY <1>1, <1>3, FlattenDefined
    <2> DEFINE N == [i \in 0..n |-> IF i = 0 THEN 0 ELSE Len(f[i])]
    <2> HIDE DEF n, fs
    <2>2. N \in [0..n -> Nat] /\ N[0] = 0 /\ \A i \in 1..n : N[i] = Len(f[i])
        <3>1. \A i \in 1..n : Len(f[i]) \in Nat
            BY <2>1
        <3>2. \A i \in 0..n : i # 0 => i \in 1..n
            BY <1>1
        <3>3. 0 \in 0..n /\ \A i \in 1..n : i \in 0..n /\ i # 0
            BY <1>1
        <3> QED BY <3>1, <3>2, <3>3
    <2> HIDE DEF N
    <2>3. \A i \in 1..n : f[i] \in Seq(S) /\ DOMAIN f[i] = 1..N[i] /\ N[i] \in Nat
        BY <2>1, <2>2
    <2>4. ASSUME NEW i \in 1..n
          PROVE  /\ N[i] = N[i - 1] + Len(ss[i]) /\ N[i - 1] \in Nat
                 /\ \A k \in 1..Len(ss[i]) : f[i][N[i - 1] + k] = ss[i][k]
                 /\ i # 1 => \A e \in 1..N[i - 1] : f[i][e] = f[i - 1][e]
        <3>1. ss[i] \in Seq(S) /\ Len(ss[i]) \in Nat
            BY <1>1
        <3>2. CASE i = 1
            <4>1. N[1] = Len(ss[1]) /\ i - 1 = 0 /\ f[i] = ss[i]
                BY <2>1, <2>2, <3>2
            <4> QED BY <2>2, <3>1, <3>2, <4>1
        <3>3. CASE i # 1
            <4> DEFINE r == i - 1
            <4>1. i \in 2..n /\ r \in 1..n
                BY <1>1, <3>3
            <4>2. f[i] = f[r] \o ss[i] /\ f[r] \in Seq(S) /\ Len(f[r]) = N[r] /\ N[r] \in Nat
                BY <2>1, <2>2, <2>3, <4>1
            <4> DEFINE a == f[r]
                       b == ss[i]
            <4> HIDE DEF a, b, r
            <4>3. /\ a \o b \in Seq(S) /\ Len(a \o b) = Len(a) + Len(b)
                  /\ \A e \in 1..(Len(a) + Len(b)) : (a \o b)[e] = IF e <= Len(a) THEN a[e] ELSE b[e - Len(a)]
                BY <3>1, <4>2, ConcatProperties DEF a, b
            <4>4. ASSUME NEW k \in 1..Len(b) PROVE (a \o b)[Len(a) + k] = b[k]
                <5>1. Len(a) \in Nat /\ Len(b) \in Nat
                    BY <3>1, <4>2 DEF a, b
                <5>2. Len(a) + k \in 1..(Len(a) + Len(b)) /\ ~(Len(a) + k <= Len(a)) /\ (Len(a) + k) - Len(a) = k
                    BY <5>1
                <5> QED BY <4>3, <5>2
            <4>5. ASSUME NEW e \in 1..Len(a) PROVE (a \o b)[e] = a[e]
                <5>1. Len(a) \in Nat /\ Len(b) \in Nat
                    BY <3>1, <4>2 DEF a, b
                <5>2. e \in 1..(Len(a) + Len(b)) /\ e <= Len(a)
                    BY <5>1
                <5> QED BY <4>3, <5>2
            <4>6. N[i] = N[r] + Len(ss[i])
                BY <2>2, <4>2, <4>3 DEF a, b
            <4> QED BY <4>2, <4>4, <4>5, <4>6 DEF a, b, r
        <3> QED BY <3>2, <3>3
    <2> DEFINE Kept(i, j) == N[i] <= N[j] /\ \A e \in 1..N[i] : f[j][e] = f[i][e]
               P == {d \in Nat : \A i \in 1..n : i + d <= n => Kept(i, i + d)}
    <2>5. 0 \in P
        <3>1. \A i \in 1..n : i + 0 = i /\ N[i] <= N[i]
            BY <2>3
        <3> QED BY <3>1
    <2>6. ASSUME NEW d \in Nat, d \in P PROVE d + 1 \in P
        <3> SUFFICES ASSUME NEW i \in 1..n, i + (d + 1) <= n PROVE Kept(i, i + (d + 1))
            OBVIOUS
        <3> DEFINE j == i + d
                   h == j + 1
        <3>1. j \in 1..n /\ h \in 1..n /\ h - 1 = j /\ h # 1 /\ i + (d + 1) = h /\ i + d <= n
            BY <1>1
        <3>2. Kept(i, j)
            BY <2>6, <3>1
        <3> HIDE DEF j, h
        <3>3. N[h] = N[j] + Len(ss[h]) /\ \A e \in 1..N[j] : f[h][e] = f[j][e]
            BY <2>4, <3>1
        <3>4. N[i] \in Nat /\ N[j] \in Nat /\ Len(ss[h]) \in Nat
            BY <1>1, <2>3, <3>1
        <3>5. N[i] <= N[h]
            BY <3>2, <3>3, <3>4
        <3>6. ASSUME NEW e \in 1..N[i] PROVE f[h][e] = f[i][e]
            <4>1. e \in 1..N[j]
                BY <3>2, <3>4
            <4> QED BY <3>2, <3>3, <4>1
        <3>7. Kept(i, h)
            BY <3>5, <3>6
        <3> HIDE DEF Kept
        <3> QED BY <3>1, <3>7
    <2> HIDE DEF P
    <2>7. Nat \subseteq P
        BY <2>5, <2>6, CountingUp
    <2>8. ASSUME NEW i \in 1..n, NEW j \in 1..n, i <= j PROVE Kept(i, j)
        <3> DEFINE d == j - i
        <3>1. d \in Nat /\ i + d = j /\ j <= n
            BY <1>1, <2>8
        <3> HIDE DEF d, Kept
        <3>2. Kept(i, i + d)
            BY <2>7, <3>1 DEF P
        <3> QED BY <3>1, <3>2
    <2>9. \A i, j \in 0..n : i <= j => N[i] <= N[j]
        <3> SUFFICES ASSUME NEW i \in 0..n, NEW j \in 0..n, i <= j PROVE N[i] <= N[j]
            OBVIOUS
        <3>1. N[i] \in Nat /\ N[j] \in Nat
            BY <2>2
        <3>2. CASE i = 0
            BY <2>2, <3>1, <3>2
        <3>3. CASE i # 0
            <4>1. i \in 1..n /\ j \in 1..n
                BY <1>1, <3>3
            <4> QED BY <2>8, <4>1
        <3> QED BY <3>2, <3>3
    <2>10. n \in 1..n /\ Len(fs) = N[n] /\ N[n] \in Nat
        BY <1>1, <1>3, <2>1, <2>2, <2>3
    <2>11. ASSUME NEW i \in 1..n, NEW k \in 1..Len(ss[i]) PROVE fs[N[i - 1] + k] = ss[i][k]
        <3> DEFINE e == N[i - 1] + k
        <3>1. f[i][e] = ss[i][k] /\ N[i - 1] \in Nat /\ N[i] = N[i - 1] + Len(ss[i]) /\ Len(ss[i]) \in Nat
            BY <1>1, <2>4
        <3>2. e \in 1..N[i]
            BY <3>1
        <3>3. i <= n
            BY <1>1
        <3>4. Kept(i, n)
            BY <2>8, <2>10, <3>3
        <3> HIDE DEF e
        <3> QED BY <2>1, <3>1, <3>2, <3>4 DEF e
    <2>12. ASSUME NEW e \in 1..Len(fs) PROVE \E i \in 1..n : N[i - 1] < e /\ e <= N[i]
        <3> DEFINE those == {i \in 1..n : e <= N[i]}
                   i == Min(those)
        <3>1. those \subseteq Nat /\ n \in those
            BY <1>1, <2>10
        <3>2. i \in those /\ \A x \in those : i <= x
            BY <3>1, MinIn
        <3> HIDE DEF i
        <3>3. i \in 1..n /\ e <= N[i]
            BY <3>2
        <3>4. N[i - 1] < e
            <4>1. N[i - 1] \in Nat /\ e \in Nat
                BY <2>4, <2>10, <3>3
            <4>2. CASE i = 1
                <5>1. N[i - 1] = 0
                    BY <2>2, <4>2
                <5> QED BY <4>1, <5>1
            <4>3. CASE i # 1
                <5>1. i - 1 \in 1..n /\ ~(i <= i - 1)
                    BY <1>1, <3>3, <4>3
                <5>2. ~(i - 1 \in those)
                    BY <3>2, <5>1
                <5> QED BY <4>1, <5>1, <5>2
            <4> QED BY <4>2, <4>3
        <3> QED BY <3>3, <3>4
    <2>13. Located(ss, N)
        <3>1. \A i \in 1..n : N[i] = N[i - 1] + Len(ss[i])
            BY <2>4
        <3> QED BY <2>2, <2>9, <2>10, <2>11, <2>12, <3>1 DEF Located, n, fs
    <2> QED BY <2>13
<1> QED BY <1>2, <1>3

\* What a set of at most two numbers is.
LEMMA TwoAtMost ==
    ASSUME NEW S, S \subseteq 1..2
    PROVE  /\ IsFiniteSet(S) /\ Cardinality(S) \in 0..2
           /\ Cardinality(S) = 2 => S = 1..2
           /\ Cardinality(S) = 0 => S = {}
<1>1. IsFiniteSet(1..2) /\ Cardinality(1..2) = 2
    <2> DEFINE two == 2
    <2>1. two \in Nat /\ 1 \in Int
        OBVIOUS
    <2> HIDE DEF two
    <2>2. IsFiniteSet(1..two) /\ Cardinality(1..two) = two
        BY <2>1, FS_Interval
    <2> QED BY <2>2 DEF two
<1>2. IsFiniteSet(S) /\ Cardinality(S) \in Nat /\ Cardinality(S) <= 2
    <2>1. IsFiniteSet(S) /\ Cardinality(S) <= Cardinality(1..2)
        BY <1>1, FS_Subset
    <2>2. Cardinality(S) \in Nat
        BY <2>1, FS_CardinalityType
    <2> QED BY <1>1, <2>1, <2>2
<1>3. Cardinality(S) = 2 => S = 1..2
    BY <1>1, FS_Subset
<1>4. Cardinality(S) = 0 => S = {}
    BY <1>2, FS_EmptySet
<1> QED BY <1>2, <1>3, <1>4

\* A list of two.
LEMMA AppendTwo ==
    ASSUME NEW a, NEW b
    PROVE  Append(<<>>, a) = <<a>> /\ Append(<<a>>, b) = <<a, b>>
<1> DEFINE S == {a, b}
           u == Append(<<a>>, b)
           v == Append(<<>>, a)
<1>1. <<>> \in Seq(S) /\ <<a>> \in Seq(S) /\ a \in S /\ b \in S
    OBVIOUS
<1> HIDE DEF S
<1>2. v \in Seq(S) /\ Len(v) = 1 /\ v[1] = a
    BY <1>1, AppendProperties
<1>3. u \in Seq(S) /\ Len(u) = 2 /\ u[1] = a /\ u[2] = b
    BY <1>1, AppendProperties
<1> HIDE DEF u, v
<1>4. v = <<a>>
    BY <1>1, <1>2
<1>5. u = <<a, b>>
    <2>1. <<a, b>> \in Seq(S) /\ Len(<<a, b>>) = 2
        BY <1>1
    <2> QED BY <1>3, <2>1
<1> QED BY <1>4, <1>5 DEF u, v
=============================================================================
