---------------------------- MODULE Provenance ----------------------------
(***************************************************************************)
(* How a quote is found in a file's markdown, and what is then said of     *)
(* where it stands: the quote shown, its heading path and its page         *)
(* (corpusqa/query/extractor.py), and how the page marks came about        *)
(* (_build_page_map, corpusqa/ingest/converter.py).                        *)
(***************************************************************************)
EXTENDS Splitting

CONSTANTS
    Expand,        \* Expand[c]: what character c folds to, blanks aside
    Letters,       \* the characters for which isalpha() holds
    MinFragment,   \* _MIN_FRAGMENT_CHARS
    MinRun,        \* _MIN_VERIFY_RUN_CHARS
    MaxTrim,       \* _MAX_TRIM_WORDS
    MinWords,      \* fewest words of a quote whose ends are trimmed
    AnchorChars,   \* _PAGE_ANCHOR_CHARS
    Nil

ASSUME ProvenanceAssumption ==
    /\ {MinFragment, MaxTrim, MinWords} \subseteq Nat
    /\ {MinRun, AnchorChars} \subseteq Nat \ {0}
    /\ Letters \subseteq DOMAIN Expand
    /\ \A c \in DOMAIN Expand : Expand[c] \in Seq(Range(Expand[c]) \ {" "})

----------------------------------------------------------------------------
(* Folding.                                                                *)

\* "word-\n  word": the hyphen at i and the blanks after it join two words.
JoinedTo(t, i) ==
    LET solid == {j \in (i + 1)..Len(t) : t[j] \notin Blanks}
    IN IF t[i] = "-" /\ solid # {} /\ Min(solid) > i + 1 /\ t[Min(solid)] \in Letters
       THEN Min(solid) ELSE i

\* What leaves no trace: what folds to nothing, as markdown decoration does,
\* and the joined line breaks.
Vanishing(t) ==
    {i \in DOMAIN t : t[i] \notin Blanks /\ Expand[t[i]] = <<>>}
    \cup UNION {i..(JoinedTo(t, i) - 1) : i \in DOMAIN t}

\* _normalize_for_match: the folded characters, each with the position it
\* comes from; a run of blanks between two others is one space.
Folded(t) ==
    LET left  == DOMAIN t \ Vanishing(t)
        solid == {i \in left : t[i] \notin Blanks}
        Gap(i) == /\ \E s \in solid : s < i /\ \A j \in left : s < j /\ j < i => FALSE
                  /\ \E s \in solid : i < s
        Of(i) == IF i \in solid
                 THEN [k \in DOMAIN Expand[t[i]] |-> [char |-> Expand[t[i]][k], from |-> i]]
                 ELSE IF i \in left /\ Gap(i) THEN <<[char |-> " ", from |-> i]>>
                 ELSE <<>>
    IN FlattenSeq([i \in DOMAIN t |-> Of(i)])

Chars(folded) == [k \in DOMAIN folded |-> folded[k].char]

\* str.find: the first place of s in t at or after from, or 0.
Find(t, s, from) ==
    LET places == {p \in from..(Len(t) - Len(s) + 1) : SubSeq(t, p, p + Len(s) - 1) = s}
    IN IF places = {} THEN 0 ELSE Min(places)

\* Seeded defect: the end of a span is the place of its last character.
SpanShort(folded, p, length) == [from |-> folded[p].from, to |-> folded[p + length - 1].from - 1]

\* _span_at, the positions from..to of the text.
Span(folded, p, length) == [from |-> folded[p].from, to |-> folded[p + length - 1].from]

----------------------------------------------------------------------------
(* Matching.  A quote is the sequence of its parts between ellipses.       *)

\* _quote_fragments.  The quotation marks a model may put around an excerpt,
\* which the code strips, are not in the alphabet.
Fragments(quote) ==
    LET folded == [n \in DOMAIN quote |-> Chars(Folded(quote[n]))]
    IN Those(folded, {n \in DOMAIN quote : folded[n] # <<>>})

\* The fragment without left words at its start and right at its end.
Trimmed(fragment, left, right) ==
    LET breaks == Sorted({k \in DOMAIN fragment : fragment[k] = " "})
        n == Len(breaks)
    IN SubSeq(fragment, IF left = 0 THEN 1 ELSE breaks[left] + 1,
                        IF right = 0 THEN Len(fragment) ELSE breaks[n + 1 - right] - 1)

\* _find_span_with_trim: the whole fragment, or the longest rest of it that is
\* there when words are trimmed from its ends; what is trimmed least, and
\* then least at the start, comes first.
FindWithTrim(fragment, folded) ==
    LET source == Chars(folded)
        words == 1 + Cardinality({k \in DOMAIN fragment : fragment[k] = " "})
        Left(x) == x[2]
        Right(x) == x[1] - x[2]
        trims == {x \in (1..(2 * MaxTrim)) \X (0..MaxTrim) :
                    /\ Right(x) \in 0..MaxTrim /\ x[1] < words
                    /\ Len(Trimmed(fragment, Left(x), Right(x))) >= MinRun
                    /\ Find(source, Trimmed(fragment, Left(x), Right(x)), 1) # 0}
        Before(x, y) == x[1] < y[1] \/ (x[1] = y[1] /\ x[2] <= y[2])
        Hit(s) == Span(folded, Find(source, s, 1), Len(s))
    IN IF Find(source, fragment, 1) # 0 THEN <<Hit(fragment)>>
       ELSE IF words < MinWords \/ trims = {} THEN <<>>
       ELSE LET x == CHOOSE x \in trims : \A y \in trims : Before(x, y)
            IN <<Hit(Trimmed(fragment, Left(x), Right(x)))>>

\* Seeded defect: the search for a fragment starts one character too late.
FindNextWithGap(folded, acc, f) ==
    LET p == Find(Chars(folded), f, acc.next)
    IN IF ~acc.all \/ p = 0 THEN [acc EXCEPT !.all = FALSE]
       ELSE [acc EXCEPT !.spans = Append(@, Span(folded, p, Len(f))), !.next = p + Len(f) + 1]

\* The next fragment is looked for after the one before it.
FindNext(folded, acc, f) ==
    LET p == Find(Chars(folded), f, acc.next)
    IN IF ~acc.all \/ p = 0 THEN [acc EXCEPT !.all = FALSE]
       ELSE [acc EXCEPT !.spans = Append(@, Span(folded, p, Len(f))), !.next = p + Len(f)]

\* Every fragment, each after the one before it, or nothing.
InOrder(fragments, folded) ==
    LET end == FoldLeft(LAMBDA acc, f : FindNext(folded, acc, f),
                        [spans |-> <<>>, next |-> 1, all |-> TRUE], fragments)
    IN IF end.all THEN end.spans ELSE <<>>

\* _match_spans.
MatchSpans(quote, folded) ==
    LET fragments == Fragments(quote)
        substantive == Those(fragments, {n \in DOMAIN fragments : Len(fragments[n]) >= MinFragment})
        longest == fragments[Min({n \in DOMAIN fragments :
                                    \A m \in DOMAIN fragments : Len(fragments[m]) <= Len(fragments[n])})]
    IN IF fragments = <<>> THEN <<>>
       ELSE IF Len(fragments) = 1 \/ Len(substantive) < 2 THEN FindWithTrim(longest, folded)
       ELSE InOrder(substantive, folded)

----------------------------------------------------------------------------
(* Pages and headings.                                                     *)

\* Seeded defect: every item is looked for from the start.
AnchorFromStart(t, s, cursor) == Find(t, s, 1)

\* markdown.find(anchor, cursor).
Anchor(t, s, cursor) == Find(t, s, cursor)

\* _build_page_map, one more item.  It has a text, or <<>> where there is none
\* to look for, and a page, or Nil; a mark is made where the page changes.
MarkOne(t, acc, item) ==
    LET s == SubSeq(item.text, 1, Min({AnchorChars, Len(item.text)}))
        p == Anchor(t, s, acc.cursor)
    IN IF item.text = <<>> \/ item.page = Nil \/ p = 0 THEN acc
       ELSE [marks  |-> IF item.page = acc.last THEN acc.marks
                        ELSE Append(acc.marks, [at |-> p, page |-> item.page]),
             cursor |-> p + Len(s),
             last   |-> item.page]

\* _build_page_map.
PageMap(t, items) ==
    FoldLeft(LAMBDA acc, item : MarkOne(t, acc, item),
             [marks |-> <<>>, cursor |-> 1, last |-> Nil], items).marks

\* Seeded defect: a mark at the offset itself does not count.
AtOrBeforeStrict(mark, offset) == mark.at < offset

AtOrBefore(mark, offset) == mark.at <= offset

\* _page_at: binary search for the last mark at or before the offset.
PageAt(marks, offset) ==
    LET search[x \in (0..Len(marks)) \X (0..Len(marks))] ==
          LET mid == (x[1] + x[2]) \div 2
          IN IF x[1] >= x[2] THEN (IF x[1] = 0 THEN Nil ELSE marks[x[1]].page)
             ELSE IF AtOrBefore(marks[mid + 1], offset) THEN search[<<mid + 1, x[2]>>]
             ELSE search[<<x[1], mid>>]
    IN search[<<0, Len(marks)>>]

\* The level of the heading line that starts at i, or 0: up to three spaces,
\* up to six hashes, a blank.
HeadingLevel(t, i) ==
    LET Is(x) == /\ i + x[1] + x[2] <= Len(t)
                 /\ \A k \in i..(i + x[1] - 1) : t[k] = " "
                 /\ \A k \in (i + x[1])..(i + x[1] + x[2] - 1) : t[k] = "#"
                 /\ t[i + x[1] + x[2]] \in Blanks
        fits == {x \in (0..3) \X (1..6) : Is(x)}
    IN IF fits = {} THEN 0 ELSE (CHOOSE x \in fits : TRUE)[2]

LineStarts(t) == {i \in DOMAIN t : i = 1 \/ t[i - 1] = "/"}

HeadingLines(t) == {i \in LineStarts(t) : HeadingLevel(t, i) # 0}

\* The headings a heading of the level leaves open.
Under(stack, level) == Those(stack, {n \in DOMAIN stack : stack[n].level < level})

\* The stack after the heading line at i.
Enter(t, stack, i) ==
    Append(Under(stack, HeadingLevel(t, i)), [level |-> HeadingLevel(t, i), line |-> i])

\* _heading_path_at: the headings, root to leaf, of the lines that start
\* before the offset.
HeadingPathAt(t, offset) ==
    FoldLeft(LAMBDA stack, i : Enter(t, stack, i), <<>>,
             Sorted({i \in HeadingLines(t) : i < offset}))
=============================================================================
