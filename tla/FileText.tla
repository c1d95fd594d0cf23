------------------------------ MODULE FileText ------------------------------
(***************************************************************************)
(* One file's text on its way through the program: convert() exports it    *)
(* from the document and marks its pages, plan_sections() cuts it, the     *)
(* model quotes from one section, and _snap_findings() looks the quote up  *)
(* in the whole text and says where it stands.                             *)
(*                                                                         *)
(* The document is a few items, each a run of text with a page; the text   *)
(* is what they export to.  A line break is "/", "&" a ligature.           *)
(***************************************************************************)
EXTENDS Provenance

CONSTANTS
    Pieces,      \* the texts an item may export to
    MaxItems,    \* bound on the items of a document
    Pages,       \* page numbers
    MaxPart,     \* bound on the characters the model copies in one go
    Added        \* what the model may add at an end of a quote

\* The characters texts are made of.
Symbols == DOMAIN Expand \cup Blanks

ASSUME FileTextAssumption ==
    /\ {MaxItems, MaxPart} \subseteq Nat \ {0}
    /\ Pages \subseteq Nat /\ Nil \notin Pages
    /\ Pieces \subseteq Seq(Symbols) /\ Pieces \subseteq Seq(DOMAIN Weight)
    /\ Added \in Seq(Symbols)

VARIABLES
    stage,      \* "document", "text", "sections", "quoted", "snapped"
    document,   \* its items: [text, page, kept]
    text,       \* the cached markdown
    marks,      \* the page map
    sections,   \* the planned sections, as positions of the text
    read,       \* the positions the model copied, part by part
    quote,      \* what it made of them
    finding     \* [verified, spans, path, page], or Nil

vars == <<stage, document, text, marks, sections, read, quote, finding>>

Stripped(s) ==
    LET solid == {i \in DOMAIN s : s[i] \notin Blanks}
    IN IF solid = {} THEN <<>> ELSE SubSeq(s, Min(solid), Max(solid))

\* Docling's items in document order; a reflowed one is not in the text as it is.
Init ==
    /\ stage = "document"
    /\ \E n \in 1..MaxItems :
          document \in {d \in [1..n -> [text : Pieces, page : Pages, kept : BOOLEAN]] :
                          \A i \in 1..(n - 1) : d[i].page <= d[i + 1].page}
    /\ text = <<>> /\ marks = <<>> /\ sections = <<>>
    /\ read = <<>> /\ quote = <<>> /\ finding = Nil

\* convert: the text is exported, its pages marked.
Convert ==
    /\ stage = "document" /\ stage' = "text"
    /\ text' = FlattenSeq([i \in DOMAIN document |-> document[i].text])
    /\ LET Item(d) == [text |-> IF d.kept THEN Stripped(d.text) ELSE <<"?">>, page |-> d.page]
       IN marks' = PageMap(text', [i \in DOMAIN document |-> Item(document[i])])
    /\ UNCHANGED <<document, sections, read, quote, finding>>

\* plan_sections.
PlanSections ==
    /\ stage = "text" /\ stage' = "sections"
    /\ sections' = Split(text)
    /\ UNCHANGED <<document, text, marks, read, quote, finding>>

\* What may be copied from a section in one go.
Copies(ps) ==
    UNION {{SubSeq(ps, i, j) : j \in i..Min({i + MaxPart - 1, Len(ps)})} : i \in DOMAIN ps}

Chosen(ps) == [k \in DOMAIN ps |-> text[ps[k]]]

\* A reply with a finding: a passage of the section, perhaps with something
\* added at an end, or two with an ellipsis between them.
Reply ==
    /\ stage = "sections" /\ stage' = "quoted"
    /\ \E n \in DOMAIN sections : \E one \in Copies(sections[n]) :
          \/ /\ read' = <<one>>
             /\ quote' \in {<<Chosen(one)>>, <<Chosen(one) \o Added>>, <<Added \o Chosen(one)>>}
          \/ \E two \in Copies(sections[n]) :
                /\ Last(one) < two[1]
                /\ read' = <<one, two>>
                /\ quote' = <<Chosen(one), Chosen(two)>>
    /\ UNCHANGED <<document, text, marks, sections, finding>>

\* _snap_findings.
Snap ==
    /\ stage = "quoted" /\ stage' = "snapped"
    /\ LET spans == MatchSpans(quote, Folded(text))
       IN finding' = IF spans = <<>>
                     THEN [verified |-> FALSE, spans |-> <<>>, path |-> <<>>, page |-> Nil]
                     ELSE [verified |-> TRUE, spans |-> spans,
                           path |-> HeadingPathAt(text, spans[1].from),
                           page |-> PageAt(marks, spans[1].from)]
    /\ UNCHANGED <<document, text, marks, sections, read, quote>>

Next == Convert \/ PlanSections \/ Reply \/ Snap

Spec == Init /\ [][Next]_vars

----------------------------------------------------------------------------
(* Properties.                                                             *)

Planned == stage = "sections"

Snapped == stage = "snapped" /\ finding.verified

\* Cutting at headings, halving what is too dense and packing again neither
\* drops, repeats nor moves anything but blanks.
SectionsHoldTheText ==
    Planned =>
        LET all == FlattenSeq(sections)
        IN /\ \A k \in 1..(Len(all) - 1) : all[k] < all[k + 1]
           /\ \A p \in DOMAIN text \ Range(all) : text[p] \in Blanks

\* Every section fits its call, but for a single character that does not, and
\* none could have been sent with its neighbour.  The second half is for counts
\* that add up: only with those does a part that has grown still not fit with
\* its left neighbour.
SectionsFit ==
    Planned =>
        /\ \A n \in DOMAIN sections : FitsTokens(text, sections[n]) \/ Len(sections[n]) = 1
        /\ \A n \in 1..(Len(sections) - 1) :
              ~FitsTokens(text, sections[n] \o sections[n + 1])

\* The quote is what was copied, with nothing added, and no hyphen is left at
\* the end of a part that the text joins to what follows it.
Faithful ==
    /\ quote = [n \in DOMAIN read |-> Chosen(read[n])]
    /\ \A n \in DOMAIN quote :
          LET s == Stripped(quote[n]) IN s # <<>> /\ Last(s) # "-" /\ Folded(s) # <<>>

\* A model that quotes faithfully is never told its quote is not there,
\* however the text is hyphenated, decorated and cut.
FaithfulIsVerified ==
    stage = "snapped" /\ Faithful => finding.verified

\* What is shown, span by span.
Shown == [n \in DOMAIN finding.spans |->
            Stripped(SubSeq(text, finding.spans[n].from, finding.spans[n].to))]

\* What is shown is the passage that was found: looked up again it is found in
\* the same place, so that two findings of a passage count as one, unless two
\* parts of it share a ligature; and it holds every part of the quote that
\* decided.
ShownIsFound ==
    Snapped =>
        /\ \A n \in 1..(Len(finding.spans) - 1) : finding.spans[n].to <= finding.spans[n + 1].from
        /\ (\A n \in 1..(Len(finding.spans) - 1) : finding.spans[n].to < finding.spans[n + 1].from) =>
              MatchSpans(Shown, Folded(text)) = finding.spans
        /\ Faithful /\ Len(quote) = Len(Shown) =>
              \A n \in DOMAIN quote :
                  Find(Chars(Folded(Shown[n])), Chars(Folded(quote[n])), 1) # 0

\* Pages are marked in the order of the text, one mark to a change of page.
MarksInOrder ==
    \A i \in 1..(Len(marks) - 1) :
        marks[i].at < marks[i + 1].at /\ marks[i].page # marks[i + 1].page

\* The headings above a position: those no later one closes.
HeadingsAbove(p) ==
    {h \in HeadingLines(text) :
        /\ h < p
        /\ \A g \in HeadingLines(text) : h < g /\ g < p => HeadingLevel(text, h) < HeadingLevel(text, g)}

ItemStart(i) == 1 + Len(FlattenSeq([k \in 1..(i - 1) |-> document[k].text]))

\* Where an item's text starts, blanks aside.
ItemText(i) == ItemStart(i) + Min({k \in DOMAIN document[i].text : document[i].text[k] \notin Blanks}) - 1

Occurrences(s, t) == {p \in 1..(Len(t) - Len(s) + 1) : SubSeq(t, p, p + Len(s) - 1) = s}

\* Every item can be found, and in one place only.
ItemsTellApart ==
    \A i \in DOMAIN document :
        LET s == Stripped(document[i].text)
        IN /\ document[i].kept
           /\ s # <<>> /\ Cardinality(Occurrences(SubSeq(s, 1, Min({AnchorChars, Len(s)})), text)) = 1

\* A passage that stands in one place is placed there: within what was read,
\* under the headings open at that point, and on the page of its item.
PlacedWhereItStands ==
    Snapped /\ Faithful
    /\ Cardinality(Occurrences(Chars(Folded(quote[1])), Chars(Folded(text)))) = 1
    /\ (Len(quote) = 2 => Len(finding.spans) = 2) =>
        LET p == finding.spans[1].from IN
        /\ p \in Range(read[1])
        /\ {finding.path[k].line : k \in DOMAIN finding.path} = HeadingsAbove(p)
        /\ ItemsTellApart =>
              finding.page = document[Max({i \in DOMAIN document : ItemText(i) <= p})].page

\* README: "the heading from where the quote actually sits in the document".  A
\* quote copied from a section, from a letter on and long enough to be a
\* fragment, is placed under the headings it was copied from.
PlacedWhereRead ==
    /\ Snapped /\ Faithful /\ Len(quote) = 1
    /\ quote[1][1] \in Letters /\ Len(Folded(quote[1])) >= MinFragment
    =>
    \E p \in Range(read[1]) :
        {finding.path[k].line : k \in DOMAIN finding.path} = HeadingsAbove(p)
=============================================================================
