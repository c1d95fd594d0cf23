---------------------------- MODULE RoutedQuery ----------------------------
(***************************************************************************)
(* One query over the catalog, from the command line to the exit code      *)
(* (corpusqa/query/pipeline.py with catalog/summarizer.py, query/router.py *)
(* and cli/main.py): the pass-1 gate, a card for every file that lacks     *)
(* one, routing by shards, the pass-2 gate, extraction of the candidates   *)
(* and the answer.  `estimate' stops before pass 2, a sweep skips pass 1.  *)
(* Cards and verdicts outlive a run, which may fail or die at any step.    *)
(*                                                                         *)
(* Files are numbered in path order.  A big file makes several calls in    *)
(* pass 1 (chunks) and in pass 2 (sections); parts counts either.          *)
(***************************************************************************)
EXTENDS Budget

CONSTANTS
    NFiles,     \* files queries can see
    MaxParts,   \* bound on the parts of a file
    CardSizes,  \* token counts of rendered cards
    Configs     \* configurations of the four tasks

Files == 1..NFiles

ASSUME RoutedAssumption ==
    NFiles \in Nat /\ MaxParts \in Nat \ {0} /\ CardSizes \subseteq Nat \ {0}

\* A card: the parts of the file it was made of, and its size.
Cards == [of : SUBSET (1..MaxParts), size : CardSizes]

ASSUME CardAssumption == Nil \notin Cards

\* What a task may be configured to be: output ceiling and prices.
Rates    == [in : Nat, out : Nat]
Settings == [maxTokens : Nat \ {0}, in : Nat \cup {Nil}, out : Nat \cup {Nil},
             map : Rates \cup {Nil}, loopback : BOOLEAN]

ASSUME ConfigAssumption == Configs \subseteq [Tasks -> Settings]

VARIABLES
    config,     \* config[t]: the configuration of task t
    parts,      \* parts[f]: how many calls f's text takes
    card,       \* card[f]: the parts its card was made of, and its size; Nil
    verdict,    \* verdict[f]: a verdict on the question is stored
    pc,         \* where the run is
    mode,       \* "sweep", "route" or "estimate"
    chunk,      \* chunk[f][i]: what became of a card call
    cardFailed, \* CardReport.failed
    shards,     \* shards still to be routed
    included,   \* files some reply included
    decided,    \* files some reply decided on
    refused,    \* files left out because the replies said so
    plan,       \* plan[f]: where f's verdict comes from
    judged,     \* judged[f]: how the sections so far went
    failures,   \* extraction failures
    shown,      \* shown[f]: what the report has of f
    done,       \* calls_done of the progress bar
    asked,      \* stages the user agreed to pay for
    entered,    \* stages entered, that is, paid for
    usd,        \* sum of the projections of the stages entered
    exit        \* exit code of the last run

store    == <<config, parts, card, verdict>>
pass1    == <<chunk, cardFailed, shards, included, decided, refused>>
pass2    == <<plan, judged, failures, shown, done>>
gates    == <<asked, entered, usd>>
vars     == <<store, pc, mode, pass1, pass2, gates, exit>>

Kinds == {"clean", "fallback", "cut", "lost"}

TypeOK ==
    /\ config \in Configs
    /\ parts \in [Files -> 1..MaxParts]
    /\ card \in [Files -> Cards \cup {Nil}]
    /\ verdict \in [Files -> BOOLEAN]
    /\ pc \in {"idle", "gate1", "cards", "route", "gate2", "extract", "synthesize"}
    /\ mode \in {"sweep", "route", "estimate"}
    /\ chunk \in [Files -> [1..MaxParts -> {"none", "open", "back", "lost"}]]
    /\ cardFailed \cup included \cup decided \cup refused \cup failures \subseteq Files
    /\ shards \in Seq(Seq(Files))
    /\ plan \in [Files -> {"out", "cached", "todo", "done"}]
    /\ judged \in [Files -> [n : 0..MaxParts, how : SUBSET Kinds]]
    /\ shown \in [Files -> {"none", "partial", "whole"}]
    /\ done \in 0..(NFiles * MaxParts)
    /\ asked \cup entered \subseteq {"pass1", "pass2"}
    /\ usd \in Nat
    /\ exit \in {"none", "ok", "error", "partial", "crash"}

NothingYet ==
    /\ chunk = [f \in Files |-> [i \in 1..MaxParts |-> "none"]]
    /\ cardFailed = {} /\ shards = <<>>
    /\ included = {} /\ decided = {} /\ refused = {}
    /\ plan = [f \in Files |-> "out"]
    /\ judged = [f \in Files |-> [n |-> 0, how |-> {}]]
    /\ failures = {} /\ shown = [f \in Files |-> "none"] /\ done = 0
    /\ asked = {} /\ entered = {} /\ usd = 0

\* A run starts with nothing of the one before.
Forget ==
    /\ chunk' = [f \in Files |-> [i \in 1..MaxParts |-> "none"]]
    /\ cardFailed' = {} /\ shards' = <<>>
    /\ included' = {} /\ decided' = {} /\ refused' = {}
    /\ plan' = [f \in Files |-> "out"]
    /\ judged' = [f \in Files |-> [n |-> 0, how |-> {}]]
    /\ failures' = {} /\ shown' = [f \in Files |-> "none"] /\ done' = 0
    /\ asked' = {} /\ entered' = {} /\ usd' = 0

Init ==
    /\ config \in Configs
    /\ parts \in [Files -> 1..MaxParts]
    /\ card = [f \in Files |-> Nil]
    /\ verdict = [f \in Files |-> FALSE]
    /\ pc = "idle" /\ mode = "sweep" /\ exit = "none"
    /\ NothingYet

End(code) == pc' = "idle" /\ exit' = code

----------------------------------------------------------------------------
(* The gates.                                                              *)

\* A set of files in path order.
InOrder(fs) ==
    CHOOSE s \in [1..Cardinality(fs) -> fs] : \A i, j \in DOMAIN s : i < j => s[i] < s[j]

\* files_needing_cards; everything queries see is parseable.
NeedCards == {f \in Files : card[f] = Nil}

\* _pass1_estimate, a part being one token long.
Pass1Estimate ==
    LET pending == InOrder(NeedCards)
    IN EstimatePass1(config, [i \in DOMAIN pending |-> parts[pending[i]]], NFiles)

ToRead == {f \in Files : plan[f] = "todo"}

\* The estimate of _plan_pass2's sections.
Pass2Estimate ==
    LET files == InOrder(ToRead)
    IN EstimateQuery(config, [i \in DOMAIN files |-> [s \in 1..parts[files[i]] |-> 1]])

\* _check_budget_gate, then the stage it guards; --yes is a user who agrees, no
\* terminal one who does not.
Gate(stage, estimate, prior) ==
    \/ /\ \/ Passes(estimate, prior) /\ UNCHANGED asked
          \/ ~Passes(estimate, prior) /\ asked' = asked \cup {stage}
       /\ entered' = entered \cup {stage}
       /\ usd' = prior + estimate.usd
       /\ UNCHANGED exit
    \/ /\ ~Passes(estimate, prior)
       /\ End("error")
       /\ UNCHANGED gates

----------------------------------------------------------------------------
(* Pass 1: cards.                                                          *)

\* `corpusqa query' or `corpusqa estimate'.  A sweep has every file for a
\* candidate and no pass 1.
Ask ==
    /\ pc = "idle"
    /\ Forget
    /\ mode' \in {"sweep", "route", "estimate"}
    /\ pc' = IF mode' = "sweep" THEN "route" ELSE "gate1"
    /\ exit' = "none"
    /\ UNCHANGED store

\* The gate of pass 1, then a call for every chunk of every file without card.
Pass1Gate ==
    /\ pc = "gate1"
    /\ Gate("pass1", Pass1Estimate, 0)
    /\ \/ /\ exit' = "none"
          /\ pc' = "cards"
          /\ chunk' = [f \in Files |-> [i \in 1..MaxParts |->
                IF f \in NeedCards /\ i <= parts[f] THEN "open" ELSE "none"]]
       \/ exit' = "error" /\ UNCHANGED chunk
    /\ UNCHANGED <<store, mode, cardFailed, shards, included, decided,
                   refused, pass2>>

Back(f) == {i \in 1..MaxParts : chunk'[f][i] = "back"}

\* _merge_cards and upsert_card, once every chunk of the file is back.
MakeCard(f) ==
    IF Back(f) = 1..parts[f]
    THEN \E s \in CardSizes : card' = [card EXCEPT ![f] = [of |-> Back(f), size |-> s]]
    ELSE UNCHANGED card

\* A chunk's call returns.  Those of a file that has failed already, which
\* gather does not cancel, go on to the end of the run.
ChunkBack ==
    /\ pc # "idle"
    /\ \E f \in Files, i \in 1..MaxParts :
          /\ chunk[f][i] = "open"
          /\ chunk' = [chunk EXCEPT ![f][i] = "back"]
          /\ MakeCard(f)
    /\ UNCHANGED <<config, parts, verdict, pc, mode, cardFailed, shards, included,
                   decided, refused, pass2, gates, exit>>

\* A chunk's call fails: no card for its file, the other files go on.
ChunkLost ==
    /\ pc # "idle"
    /\ \E f \in Files, i \in 1..MaxParts :
          /\ chunk[f][i] = "open"
          /\ chunk' = [chunk EXCEPT ![f][i] = "lost"]
          /\ cardFailed' = cardFailed \cup {f}
    /\ UNCHANGED <<store, pc, mode, shards, included, decided, refused, pass2,
                   gates, exit>>

----------------------------------------------------------------------------
(* Pass 1: routing.                                                        *)

Tokens(files) == Total([i \in DOMAIN files |-> card[files[i]].size])

\* Seeded defect: only the input is bounded.
FitsInput(shard, f) == Tokens(shard) + card[f].size <= RouteShardLimits(config).tokens

\* Whether a card may join a shard.
Fits(shard, f) ==
    /\ Tokens(shard) + card[f].size <= RouteShardLimits(config).tokens
    /\ Len(shard) < RouteShardLimits(config).cards

\* The next card joins the last shard or starts one.
ShardOne(ss, f) ==
    IF Last(ss) = <<>> \/ Fits(Last(ss), f)
    THEN Append(Front(ss), Append(Last(ss), f))
    ELSE Append(ss, <<f>>)

\* _shard_cards: greedily, in path order.
ShardCards(files) == FoldLeft(ShardOne, << <<>> >>, files)

\* Seeded defect: routing waits for a card of every file, the failed ones included.
CardsSettledLate == \A f \in Files : card[f] # Nil

\* gather over the files: each has its card, or has failed.
CardsSettled == \A f \in Files : card[f] # Nil \/ f \in cardFailed

Carded == {f \in Files : card[f] # Nil}

\* route, up to its first call.
StartRouting ==
    /\ pc = "cards" /\ CardsSettled
    /\ pc' = "route"
    /\ shards' = IF Carded = {} THEN <<>> ELSE ShardCards(InOrder(Carded))
    /\ UNCHANGED <<store, mode, chunk, cardFailed, included, decided, refused,
                   pass2, gates, exit>>

\* One routing call: the reply may decide on any card, whichever shard it was
\* of, leave cards out and contradict itself.
RouteShard ==
    /\ pc = "route" /\ shards # <<>>
    /\ \E in, out \in SUBSET Carded :
          /\ included' = included \cup in
          /\ decided' = decided \cup in \cup out
    /\ shards' = Tail(shards)
    /\ UNCHANGED <<store, pc, mode, chunk, cardFailed, refused, pass2, gates, exit>>

\* A routing call fails, and the run with it.
RouteFails ==
    /\ pc = "route" /\ shards # <<>>
    /\ End("error")
    /\ UNCHANGED <<store, mode, pass1, pass2, gates>>

\* Seeded defect: what no reply mentions is left out.
RoutedMentioned == included

\* What route returns: a card no reply decided on is included.
Routed == included \cup (Carded \ decided)

\* _include_failed_cards.
Candidates == IF mode = "sweep" THEN Files ELSE Routed \cup (cardFailed \ Carded)

\* What `estimate' does instead of pass 2: it prints the projection.
EstimateEnds == End(IF cardFailed = {} THEN "ok" ELSE "partial")

\* _plan_pass2: a stored verdict is used unless the user says not to.
PlanPass2 ==
    /\ pc = "route" /\ shards = <<>>
    /\ \E useCache \in BOOLEAN :
          plan' = [f \in Files |->
             IF f \notin Candidates THEN "out"
             ELSE IF useCache /\ verdict[f] THEN "cached" ELSE "todo"]
    /\ IF mode = "estimate"
       THEN EstimateEnds
       ELSE pc' = "gate2" /\ UNCHANGED exit
    /\ refused' = decided \ included
    /\ included' = {} /\ decided' = {}
    /\ UNCHANGED <<store, mode, chunk, cardFailed, shards, judged, failures, shown,
                   done, gates>>

----------------------------------------------------------------------------
(* Pass 2.                                                                 *)

\* The gate of pass 2; files with a stored verdict are answered from it.
Pass2Gate ==
    /\ pc = "gate2"
    /\ Gate("pass2", Pass2Estimate, usd)
    /\ \/ /\ exit' = "none"
          /\ pc' = "extract"
          /\ shown' = [f \in Files |-> IF plan[f] = "cached" THEN "whole" ELSE "none"]
       \/ exit' = "error" /\ UNCHANGED shown
    /\ UNCHANGED <<store, mode, pass1, plan, judged, failures, done>>

\* Seeded defect: all the planned calls of a file are credited at its end.
CreditAll(f, n) == parts[f]

\* What _one credits the progress bar with when a file ends after n sections.
Credit(f, n) == parts[f] - n

\* How a file whose sections went as how ends: what is shown of it, and
\* whether it is a failure, and whether its verdict is stored.
FileEnds(f, how) ==
    /\ shown' = [shown EXCEPT ![f] =
          IF how = {"lost"} THEN "none"
          ELSE IF how \subseteq {"clean", "fallback"} THEN "whole" ELSE "partial"]
    /\ failures' = IF how \cap {"cut", "lost"} = {} THEN failures ELSE failures \cup {f}
    /\ verdict' = IF how = {"clean"} THEN [verdict EXCEPT ![f] = TRUE] ELSE verdict
    /\ plan' = [plan EXCEPT ![f] = "done"]

\* The next section of a file is read: clean, by a fallback model, cut off or
\* malformed, or not at all.  Files go on side by side.
ReadSection ==
    /\ pc = "extract"
    /\ \E f \in ToRead, k \in Kinds :
          LET n   == judged[f].n + 1
              how == judged[f].how \cup {k}
          IN IF n = parts[f]
             THEN /\ FileEnds(f, how)
                  /\ judged' = [judged EXCEPT ![f] = [n |-> n, how |-> {}]]
                  /\ done' = done + 1 + Credit(f, n)
             ELSE /\ judged' = [judged EXCEPT ![f] = [n |-> n, how |-> how]]
                  /\ done' = done + 1
                  /\ UNCHANGED <<shown, failures, verdict, plan>>
    /\ UNCHANGED <<config, parts, card, pc, mode, pass1, gates, exit>>

\* The exit code of `corpusqa query'.
Report == End(IF failures = {} /\ cardFailed = {} THEN "ok" ELSE "partial")

\* Every candidate handled: the hits are shown, or an answer composed.
Pass2Ends ==
    /\ pc = "extract" /\ ToRead = {}
    /\ Report \/ (pc' = "synthesize" /\ UNCHANGED exit)
    /\ UNCHANGED <<store, mode, pass1, pass2, gates>>

\* Synthesis returns, or a call of it fails and nothing is shown.
Synthesize ==
    /\ pc = "synthesize"
    /\ Report \/ End("error")
    /\ UNCHANGED <<store, mode, pass1, pass2, gates>>

----------------------------------------------------------------------------

\* Killed or interrupted: what is committed stays.
Crash ==
    /\ pc # "idle"
    /\ End("crash")
    /\ UNCHANGED <<store, mode, pass1, pass2, gates>>

\* An index run between two queries replaces a file.
Reindex ==
    /\ pc = "idle"
    /\ \E f \in Files, n \in 1..MaxParts :
          /\ parts' = [parts EXCEPT ![f] = n]
          /\ card' = [card EXCEPT ![f] = Nil]
          /\ verdict' = [verdict EXCEPT ![f] = FALSE]
    /\ Forget
    /\ exit' = "none"
    /\ UNCHANGED <<config, pc, mode>>

RunStep ==
    \/ Pass1Gate \/ ChunkBack \/ ChunkLost
    \/ StartRouting \/ RouteShard \/ RouteFails \/ PlanPass2
    \/ Pass2Gate \/ ReadSection \/ Pass2Ends \/ Synthesize

Next == Ask \/ RunStep \/ Crash \/ Reindex

\* Model calls return or fail (they have timeouts and bounded retries) and the
\* user answers the prompt; nobody is obliged to ask.
Spec == Init /\ [][Next]_vars /\ WF_vars(RunStep)

----------------------------------------------------------------------------
(* Properties.                                                             *)

\* Every side of the price of every task of a stage comes from somewhere.
PriceKnown(stage) ==
    \A t \in IF stage = "pass1" THEN {"catalog", "route"} ELSE {"extract", "synthesize"} :
        LET src == config[t] IN
            \/ src.map # Nil \/ src.loopback
            \/ \A s \in Sides : src[s] # Nil

\* "The budgeter aborts before spend, not after" (budget.py): no call of a
\* stage before its gate, and whatever the user was not asked about is priced
\* and keeps the projections of the whole run, not of the stage, within the
\* threshold.
NothingSpentUnasked ==
    /\ (\E f \in Files, i \in 1..MaxParts : chunk[f][i] # "none") \/ shards # <<>>
          => "pass1" \in entered
    /\ (\E f \in Files : judged[f].n > 0) => "pass2" \in entered
    /\ \A s \in entered \ asked :
          /\ PriceKnown(s)
          /\ s = "pass2" \/ entered = {"pass1"} => usd <= Threshold

\* No silent exclusion, from the command line to the exit code.  A run that
\* answered has read every file whole, or says that it has not, or left it out
\* because a routing reply said so on a card made of all of the file; and the
\* exit code is 0 only if nothing went wrong with any file.
AccountedFor ==
    pc = "idle" /\ exit \in {"ok", "partial"} /\ mode # "estimate" =>
        /\ \A f \in Files :
              \/ shown[f] = "whole"
              \/ exit = "partial" /\ f \in failures
              \/ /\ mode = "route" /\ f \in refused
                 /\ card[f] # Nil /\ card[f].of = 1..parts[f]
        /\ exit = "partial" => failures \cup cardFailed # {}

\* The progress bar never passes its total and reaches it exactly when the last
\* file ends, whichever sections fail and however the files interleave.
ProgressHonest ==
    LET total == Total([f \in Files |-> IF plan[f] \in {"todo", "done"} THEN parts[f] ELSE 0])
    IN pc = "extract" => done <= total /\ (done = total <=> ToRead = {})

\* What is still to be routed is in path order, and every routing call but one
\* of a single card fits the window in both directions: the cards going in and
\* the decisions coming out.  A window that leaves less than MinRouteInput beside
\* the prompt is not what route_shard_limits is for: its floor is above it.
ShardsFit ==
    /\ IsSuffix(FlattenSeq(shards), InOrder(Carded))
    /\ \A i \in DOMAIN shards : Len(shards[i]) > 1 =>
          /\ Tokens(shards[i]) <= RouteShardLimits(config).tokens
          /\ Len(shards[i]) * DecisionTokens + OutputReserve <= config["route"].maxTokens

\* Whatever fails, a query ends: nothing waits for the calls of a file that has
\* failed already.
QueryEnds == pc # "idle" ~> pc = "idle"
=============================================================================
