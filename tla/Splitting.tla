----------------------------- MODULE Splitting -----------------------------
(***************************************************************************)
(* How a file's markdown is cut into the sections extraction sends         *)
(* (corpusqa/splitting.py), as operators on a text t: a sequence of        *)
(* characters.  Pieces and sections are sequences of positions of t, so    *)
(* that what is kept of the text, and in which order, can be seen.         *)
(***************************************************************************)
EXTENDS Integers, FiniteSetsExt, SequencesExt

CONSTANTS
    CharsPerToken,  \* CHARS_PER_TOKEN
    TokenBudget,    \* tokens of a section, what input_token_budget allows
    Weight          \* Weight[c]: CharsPerToken-ths of a token character c takes

ASSUME SplittingAssumption ==
    /\ {CharsPerToken, TokenBudget} \subseteq Nat \ {0}
    /\ \A c \in DOMAIN Weight : Weight[c] \in Nat \ {0}

Blanks == {" ", "/"}   \* "/" is a line break

IsBlank(t, ps) == \A k \in DOMAIN ps : t[ps[k]] \in Blanks

\* The numbers of S in increasing order.
Sorted(S) ==
    CHOOSE s \in [1..Cardinality(S) -> S] : \A i, j \in DOMAIN s : i < j => s[i] < s[j]

\* What f gives for the numbers of S, in their order.
Those(f, S) == LET order == Sorted(S) IN [n \in DOMAIN order |-> f[order[n]]]

\* What the characters at ps take, in CharsPerToken-ths of a token.
Weighs(t, ps) == FoldLeft(LAMBDA n, p : n + Weight[t[p]], 0, ps)

\* count_tokens.  Weights add up; a real tokenizer also merges across the place
\* where two texts meet, so its counts of parts are not always that of the whole.
Tokens(t, ps) == (Weighs(t, ps) + CharsPerToken - 1) \div CharsPerToken

FitsTokens(t, ps) == Tokens(t, ps) <= TokenBudget

CharBudget == TokenBudget * CharsPerToken

Between(i, j) == [k \in 1..(j - i + 1) |-> i + k - 1]

\* Where in i..j a line starts with a heading of the level.
HeadingStarts(t, i, j, level) ==
    {k \in i..(j - level) :
        /\ k = i \/ t[k - 1] = "/"
        /\ \A h \in k..(k + level - 1) : t[h] = "#"
        /\ t[k + level] \in Blanks}

\* The parts of a text up to j that start at the starts, but for blank ones.
PartsAt(t, j, starts) ==
    LET part == [k \in starts |-> Between(k, Min({j} \cup {s - 1 : s \in {s \in starts : s > k}}))]
    IN Those(part, {k \in starts : ~IsBlank(t, part[k])})

\* Seeded defect: what stands before the first heading is forgotten.
PartsFromHeadings(t, i, j, level) == PartsAt(t, j, HeadingStarts(t, i, j, level))

Parts(t, i, j, level) == PartsAt(t, j, {i} \cup HeadingStarts(t, i, j, level))

\* _heading_pieces of i..j, cut being what it makes of less: cut at the
\* shallowest level that gives two parts, and those again; by the characters
\* where there is none.
CutOne(t, cut, i, j) ==
    LET levels == {l \in 1..6 : Len(Parts(t, i, j, l)) > 1}
        parts  == Parts(t, i, j, Min(levels))
        chunks == (j - i + CharBudget) \div CharBudget
    IN IF j - i + 1 <= CharBudget THEN <<Between(i, j)>>
       ELSE IF levels # {}
       THEN FlattenSeq([n \in DOMAIN parts |-> cut[<<parts[n][1], Last(parts[n])>>]])
       ELSE [n \in 1..chunks |->
               Between(i + (n - 1) * CharBudget, Min({j, i + n * CharBudget - 1}))]

HeadingPieces(t) ==
    LET cut[x \in (DOMAIN t) \X (DOMAIN t)] == CutOne(t, cut, x[1], x[2])
    IN IF t = <<>> THEN <<<<>>>> ELSE cut[<<1, Len(t)>>]

\* The end of what is sent from i on: j, or half way to it until that fits or
\* is one character.
Shrunk(t, i, j) ==
    LET shrunk[k \in i..j] ==
          IF k = i \/ FitsTokens(t, Between(i, k)) THEN k
          ELSE shrunk[i + Max({(k - i + 1) \div 2, 1}) - 1]
    IN shrunk[j]

\* Seeded defect: the characters are trusted to be a third of a token each.
HardSplitByChars(t, i, j) == <<Between(i, j)>>

\* hard_split_to_tokens of i..j.
HardSplit(t, i, j) ==
    LET rest[k \in i..(j + 1)] ==
          IF k > j THEN <<>>
          ELSE LET e == Shrunk(t, k, Min({k + CharBudget - 1, j}))
               IN <<Between(k, e)>> \o rest[e + 1]
    IN rest[i]

\* A piece, or what it is split into where it does not fit.
Fitting(t, ps) ==
    IF FitsTokens(t, ps) THEN <<ps>> ELSE HardSplit(t, ps[1], Last(ps))

\* _pack, one more piece: joined to the last while the joined text fits.
PackOne(t, out, ps) ==
    IF out # <<>> /\ FitsTokens(t, Last(out) \o ps)
    THEN Append(Front(out), Last(out) \o ps)
    ELSE Append(out, ps)

Pack(t, pieces) == FoldLeft(LAMBDA out, ps : PackOne(t, out, ps), <<>>, pieces)

\* split_within_token_budget.
Split(t) ==
    LET pieces == HeadingPieces(t)
    IN Pack(t, FlattenSeq([n \in DOMAIN pieces |-> Fitting(t, pieces[n])]))
=============================================================================
