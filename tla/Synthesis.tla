----------------------------- MODULE Synthesis -----------------------------
(***************************************************************************)
(* The composed answer of a query (corpusqa/query/synthesizer.py): the     *)
(* numbered evidence is condensed, batch by batch and pass by pass, until  *)
(* it fits one call; the answer to that call is resolved against the       *)
(* evidence, repaired once and, if nothing is left, made up from the       *)
(* claims themselves.                                                      *)
(*                                                                         *)
(* A text is what it cites and its tokens, and tokens add up.  A digest    *)
(* cites numbers of its batch only: one that makes up others is an answer  *)
(* that does, and the numbers that get lost are the same.                  *)
(***************************************************************************)
EXTENDS Integers, FiniteSets, SequencesExt

CONSTANTS
    MaxEvidence,   \* bound on the pieces of evidence
    Sizes,         \* tokens of one piece of evidence in the prompt
    Budget,        \* tokens that fit beside the prompt and the answer
    MaxDigest,     \* bound on the tokens of a condensed text
    MaxDepth,      \* _MAX_REDUCE_DEPTH
    CharsPerToken, \* most characters a token of this text may have
    MaxSentences   \* bound on the sentences of an answer

ASSUME SynthesisAssumption ==
    /\ {MaxEvidence, Budget, MaxDigest, CharsPerToken, MaxSentences} \subseteq Nat \ {0}
    /\ MaxDepth \in Nat /\ Sizes \subseteq Nat \ {0}

Claims == {"blank", "sentence", "sentences"}

VARIABLES
    evidence,   \* evidence[n]: the tokens and the claim of evidence n
    stage,      \* "start", "condense", "reduce", "merged", "answer", "repair", "done", "failed"
    depth,      \* passes over digests made
    groups,     \* batches of this pass still to be condensed
    digests,    \* what this pass has condensed so far
    merged,     \* the text that goes into the answering call
    excused,    \* numbers a reply left out, or lost where a text was cut
    answer      \* the answer: sentences, sources, uncited claims

vars == <<evidence, stage, depth, groups, digests, merged, excused, answer>>

Numbers == DOMAIN evidence

Texts == [cites : SUBSET (1..MaxEvidence), size : Nat]

Blank == [cites |-> {}, size |-> 0]

Sentences == [cites : SUBSET (1..MaxEvidence + 1), claim : BOOLEAN]

NoAnswer == [text |-> <<>>, sources |-> {}, uncited |-> {}, fallback |-> FALSE]

TypeOK ==
    /\ Len(evidence) \in 0..MaxEvidence
    /\ \A n \in Numbers : evidence[n] \in [size : Sizes, claim : Claims]
    /\ stage \in {"start", "condense", "reduce", "merged", "answer", "repair", "done", "failed"}
    /\ depth \in 0..MaxDepth
    /\ \A i \in DOMAIN groups : groups[i] \in Texts
    /\ \A i \in DOMAIN digests : digests[i] \in Texts
    /\ Len(groups) + Len(digests) <= Len(evidence)
    /\ merged \in Texts
    /\ excused \subseteq Numbers
    /\ \A i \in DOMAIN answer.text : answer.text[i] \in Sentences
    /\ answer.uncited \subseteq (IF stage = "done" THEN DOMAIN answer.text ELSE 1..MaxSentences)

\* number_evidence: what unique_relevant_findings leaves is numbered from 1.
Init ==
    /\ evidence \in UNION {[1..n -> [size : Sizes, claim : Claims]] : n \in 0..MaxEvidence}
    /\ stage = "start" /\ depth = 0
    /\ groups = <<>> /\ digests = <<>> /\ merged = Blank
    /\ excused = {}
    /\ answer = NoAnswer

----------------------------------------------------------------------------
(* The reduce.                                                             *)

\* Texts put one after the other.
Join(texts) ==
    [cites |-> UNION {texts[i].cites : i \in DOMAIN texts},
     size  |-> FoldLeft(LAMBDA n, t : n + t.size, 0, texts)]

\* The next text joins the last batch if it fits it, and opens one otherwise.
PackOne(gs, t) ==
    IF gs # <<>> /\ Last(gs).size + t.size <= Budget
    THEN Front(gs) \o <<Join(<<Last(gs), t>>)>>
    ELSE Append(gs, t)

\* _pack_by_tokens: a text over the budget is a batch by itself.
Pack(texts) == FoldLeft(PackOne, <<>>, texts)

\* One piece of evidence in the prompt.
Block(n) == [cites |-> {n}, size |-> evidence[n].size]

Blocks == [n \in Numbers |-> Block(n)]

\* synthesize, up to its first call.
Start ==
    /\ stage = "start"
    /\ \/ /\ evidence = <<>>
          /\ stage' = "done"
          /\ UNCHANGED <<groups, merged>>
       \/ /\ evidence # <<>> /\ Join(Blocks).size <= Budget
          /\ stage' = "merged"
          /\ merged' = Join(Blocks)
          /\ UNCHANGED groups
       \/ /\ Join(Blocks).size > Budget
          /\ stage' = "condense"
          /\ groups' = Pack(Blocks)
          /\ UNCHANGED merged
    /\ UNCHANGED <<evidence, depth, digests, excused, answer>>

HasClaim(n) == evidence[n].claim # "blank"

\* _claims_digest: the claims that are not blank, a token each, with their
\* numbers.
ClaimsDigest(ns) ==
    LET said == {n \in ns : HasClaim(n)} IN [cites |-> said, size |-> Cardinality(said)]

\* What a condensing call may return for a batch, other than nothing.
Replies(batch) == [cites : SUBSET batch.cites, size : 1..MaxDigest]

\* _condense_evidence, one batch.
CondenseEvidence ==
    /\ stage = "condense" /\ groups # <<>>
    /\ LET batch == Head(groups) IN
          \/ \E d \in Replies(batch) :
                /\ digests' = Append(digests, d)
                /\ excused' = excused \cup (batch.cites \ d.cites)
          \/ /\ digests' = Append(digests, ClaimsDigest(batch.cites))
             /\ UNCHANGED excused
    /\ groups' = Tail(groups)
    /\ UNCHANGED <<evidence, stage, depth, merged, answer>>

\* A text no longer than four characters to a token of the budget.
Keepable(t) == t.size * CharsPerToken <= Budget * 4

\* Seeded defect: a batch that gets no digest is cut to nothing.
TruncatedToNothing(t) == {Blank}

\* joined[: budget_tokens * 4]: such a text whole, of a longer one that many
\* characters; a token has at least one, so a dense text may keep more than
\* Budget tokens.
Truncated(t) ==
    IF Keepable(t) THEN {t}
    ELSE {t} \cup [cites : SUBSET t.cites,
                    size : 1..(IF t.size < Budget * 4 THEN t.size ELSE Budget * 4)]

\* _condense_texts, one batch.
CondenseText ==
    /\ stage = "reduce" /\ groups # <<>>
    /\ LET batch == Head(groups) IN
          \/ \E d \in Replies(batch) :
                /\ digests' = Append(digests, d)
                /\ excused' = excused \cup (batch.cites \ d.cites)
          \/ \E d \in Truncated(batch) :
                /\ digests' = Append(digests, d)
                /\ excused' = IF Keepable(batch) THEN excused
                              ELSE excused \cup (batch.cites \ d.cites)
    /\ groups' = Tail(groups)
    /\ UNCHANGED <<evidence, stage, depth, merged, answer>>

\* Seeded defect: the depth is not counted.
LoopUncounted(text, d) ==
    /\ merged' = text /\ depth' = 0
    /\ IF text.size > Budget
       THEN stage' = "reduce" /\ groups' = Pack(digests) /\ digests' = <<>>
       ELSE stage' = "merged" /\ UNCHANGED groups /\ digests' = <<>>

\* Seeded defect: one pass too many.
LoopOnceMore(text, d) ==
    /\ merged' = text /\ depth' = d
    /\ IF text.size > Budget /\ d <= MaxDepth
       THEN stage' = "reduce" /\ groups' = Pack(digests) /\ digests' = <<>>
       ELSE stage' = "merged" /\ UNCHANGED groups /\ digests' = <<>>

\* The loop of _hierarchical_reduce: another pass over the digests, or the
\* answer.
Loop(text, d) ==
    /\ merged' = text /\ depth' = d
    /\ IF text.size > Budget /\ d < MaxDepth
       THEN stage' = "reduce" /\ groups' = Pack(digests) /\ digests' = <<>>
       ELSE stage' = "merged" /\ UNCHANGED groups /\ digests' = <<>>

\* A pass is over.  One that changed nothing is the last; texts that agree in
\* what is modelled of them may differ all the same.
PassEnds ==
    /\ groups = <<>>
    /\ \/ stage = "condense" /\ Loop(Join(digests), 0)
       \/ stage = "reduce" /\ Loop(Join(digests), depth + 1)
       \/ /\ stage = "reduce" /\ Join(digests) = merged
          /\ stage' = "merged" /\ digests' = <<>>
          /\ UNCHANGED <<depth, groups, merged>>
    /\ UNCHANGED <<evidence, excused, answer>>

----------------------------------------------------------------------------
(* The answer.                                                             *)

\* A sentence that ends up with an [uncited]: it cites a number there is no
\* evidence for, or claims something and cites nothing.
Marked(s) == s.cites \ Numbers # {} \/ (s.claim /\ s.cites = {})

\* sources_block.
Sources(text) == (UNION {text[i].cites : i \in DOMAIN text}) \cap Numbers

\* resolve_citations and the CitedAnswer made of it.
Resolve(text) ==
    [text     |-> text,
     sources  |-> Sources(text),
     uncited  |-> {i \in DOMAIN text : Marked(text[i])},
     fallback |-> FALSE]

\* _fallback_digest: a lead-in, then every claim with its number behind its
\* last sentence; what it marks is not reported.
FallbackDigest ==
    LET Line(n) == CASE evidence[n].claim = "blank" -> <<>>
                     [] evidence[n].claim = "sentence" -> <<[cites |-> {n}, claim |-> TRUE]>>
                     [] OTHER -> <<[cites |-> {}, claim |-> TRUE], [cites |-> {n}, claim |-> TRUE]>>
        text == <<[cites |-> {}, claim |-> FALSE]>> \o FlattenSeq([n \in Numbers |-> Line(n)])
    IN [Resolve(text) EXCEPT !.uncited = {}, !.fallback = TRUE]

\* A sentence cites a piece of evidence, a number there is none for, or both;
\* of one that cites nothing it matters whether it claims something.
ReplySentences ==
    LET wrong == Len(evidence) + 1
    IN [cites : {{}}, claim : BOOLEAN] \cup
       [cites : {{wrong}} \cup UNION {{{n}, {n, wrong}} : n \in Numbers}, claim : {TRUE}]

\* Seeded defect: a repaired answer keeps the sources of the first.
AnsweredBefore(text) ==
    answer' = IF text = <<>> THEN FallbackDigest
              ELSE IF stage = "repair" THEN [Resolve(text) EXCEPT !.sources = answer.sources]
              ELSE Resolve(text)

\* The end of synthesize: a blank answer is replaced.
Answered(text) == answer' = IF text = <<>> THEN FallbackDigest ELSE Resolve(text)

\* The call for the answer goes out with the merged text.
CallForAnswer ==
    /\ stage = "merged"
    /\ stage' = "answer"
    /\ depth' = 0 /\ merged' = Blank /\ excused' = {}   \* done with
    /\ UNCHANGED <<evidence, groups, digests, answer>>

\* _synthesize_once and the repair round trip: one, if anything is marked; the
\* first text is of no more use then.
Answer ==
    /\ stage \in {"answer", "repair"}
    /\ \E k \in 0..MaxSentences : \E text \in [1..k -> ReplySentences] :
          IF stage = "answer" /\ Resolve(text).uncited # {}
          THEN stage' = "repair" /\ answer' = [Resolve(text) EXCEPT !.text = <<>>]
          ELSE stage' = "done" /\ Answered(text)
    /\ UNCHANGED <<evidence, depth, groups, digests, merged, excused>>

\* Any call may fail, and the run with it.
CallFails ==
    /\ stage \in {"answer", "repair"} \/ groups # <<>>
    /\ stage' = "failed"
    /\ UNCHANGED <<evidence, depth, groups, digests, merged, excused, answer>>

Next == Start \/ CondenseEvidence \/ CondenseText \/ PassEnds \/ CallForAnswer \/ Answer \/ CallFails

Spec == Init /\ [][Next]_vars /\ WF_vars(Next)

----------------------------------------------------------------------------
(* Properties.                                                             *)

\* "No citation, no claim": every claim of the answer rests on evidence or is
\* marked; what is marked is reported, but for the digest of last resort; the
\* sources are those of the text shown, whichever call it came from; and an
\* answer there is.
NoCitationNoClaim ==
    stage = "done" /\ evidence # <<>> =>
        /\ answer.text # <<>>
        /\ answer.sources = (UNION {answer.text[i].cites : i \in DOMAIN answer.text}) \cap Numbers
        /\ ~answer.fallback => \A i \in DOMAIN answer.text :
              LET s == answer.text[i] IN
              /\ s.claim /\ i \notin answer.uncited => s.cites \cap Numbers # {}
              /\ s.cites \ Numbers # {} => i \in answer.uncited

\* "Evidence numbers are never lost to the merge": whatever replies are empty,
\* a number missing from what the answering call sees was left out by a reply
\* that was not, stood behind a blank claim, or was in a text too long to keep.
NothingLostToTheMerge ==
    stage = "merged" =>
        \A n \in Numbers :
            n \in merged.cites \/ n \in excused \/ ~HasClaim(n)

\* The reduce comes to an end although digests need not shrink, and so does
\* the repair.
SynthesisEnds == <>(stage \in {"done", "failed"})
=============================================================================
