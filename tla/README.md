# corpusqa in TLA+

corpusqa answers questions over a directory of documents.  `corpusqa index`
converts every file to markdown and keeps a catalog (SQLite) and a cache (plain
files) under `.corpusqa/`; `corpusqa query` reads the markdown, asks a language
model about each file and stores the verdicts beside the catalog rows.  These
modules model the parts whose correctness depends on order, interruption and
concurrency; TLC checks them on small instances, TLAPS proves most of the
results for every size.

Paths below are relative to `src/corpusqa/`.

## 1. Inventory

| component | source | state it keeps | operations | hard behaviour | what makes it correct |
|---|---|---|---|---|---|
| Discovery | `ingest/discovery.py` | none (reads disk and index) | walk, hash, classify drift | the result for one path depends on the paths before it; renames, copies, swaps | one owner per content; gone means nowhere on disk |
| Index pipeline | `ingest/pipeline.py` | run-local work list | delete, move, convert, upsert, status | crash between any two durable steps; edits during a run; files read twice | visible files have text; rows follow the disk; convergence |
| Converter, cache | `ingest/converter.py` | `<hash>.md`, `.pages.json`, `.meta.json` | convert, write | three files written one after the other, none atomically | what is derived from a text does not outlive it |
| Catalog store | `catalog/store.py` | `files`, `catalog_cards`, `evaluations`, `index_meta`, `run_costs` | upserts, lookups, prune, migrate | commit per call; cascades; no unique path | foreign key; one row per path; retention |
| Cards | `catalog/summarizer.py` | `catalog_cards` rows | backfill concurrently, chunk and merge | per-file failure, chunk calls that outlive it, resumption | a card is of the whole file; a failed file still reaches pass 2 |
| Query orchestration | `query/pipeline.py` | plan, runner counters | select, gate, plan, judge, store, prune | concurrent judging; another process; crash and resumption | nothing bought is lost; nothing stale is served |
| Budget | `query/budget.py` | none | project cost of each stage, shard limits | sums over stages; unknown prices | no unconfirmed spend over the threshold |
| Router | `query/router.py` | none | shard cards, collect decisions | replies that omit or repeat a file | omitted means included |
| Extraction | `query/extractor.py` | per-file lists | call per section, snap quotes, merge | partial failure per section | a part is never reported as the whole |
| Structured output | `llm/structured.py` | none | call, salvage, one repair, last resort | cut-off, invalid and empty replies in two calls | no repair loop; salvage given up for a repair only; right cause reported |
| Task client | `llm/tasks.py`, `llm/pricing.py` | semaphores, ledger | complete, count, price | fallback models, concurrency limit | fallback verdicts are not cached as the primary's |
| Splitting | `splitting.py` | none | recursive split under a token budget | boundaries | every section fits, nothing lost |
| Synthesizer | `query/synthesizer.py` | none | condense, compose, repair citations | reduction that may not shrink | ends; evidence numbers survive |
| Provenance | `query/extractor.py`, `ingest/converter.py` | page map | mark pages, locate a quote, heading path, page | a quote differs from the text by folding; passages repeat | what is shown was found, and stands where the finding says |
| Command line | `cli/main.py` | none | confirmation prompt, exit codes | a declined prompt; partial success | 0 only if nothing went wrong |
| Hits, config, prompts, evalkit, logging | `query/hits.py`, `config/`, `prompts/`, `evalkit.py`, ... | none | rendering, start-up validation | none | not modelled |

How they interact: the index run and the query run share nothing but the
catalog database and the cache directory, and neither takes a lock.  The index
run works from `known_files()` as it was when it started.  The query run reads
the visible rows, then each one's markdown, waits for the user to confirm the
cost, then judges all candidates concurrently and stores each clean verdict as
it arrives.  Rows are keyed by content hash, and deleting a row (which
`INSERT OR REPLACE` also does) cascades to its card and verdicts.

The hazards that follow from this are listed in `PROJECT.json`, each at its
line, with the properties that watch it.

## 2. Modules

| module | models | notes |
|---|---|---|
| `Discovery` | the drift classification, as operators without any order | a content stands for its SHA-256; paths are numbered in walk order |
| `DiscoveryWalk` | the loops of `discover()`, one step per iteration | starts from every disk and every index |
| `IndexPipeline` | `run_index`, `_delete`, `_convert_one`, `convert` and the store calls they make | one action per durable step |
| `Structured` | what `complete_structured` makes of replies, as operators | |
| `Extraction` | `extract_file` over `complete_structured`, and the decision to cache | |
| `FileVerdict` | what extracting a file promises; `Extraction` implements it | abstract |
| `EvaluationCache` | pass 2 of `run_query` over the evaluations table, several processes | retention, resumption |
| `IndexAndQuery` | `IndexPipeline` and a query process side by side | composition |
| `Budget` | rates, `estimate_pass1`, `estimate_query`, `route_shard_limits`, what passes the gate, as operators | |
| `RoutedQuery` | `run_query` and `run_estimate` from the mode to the exit code: cards, routing, both gates, judging, the answer | extends `Budget`; catalog and verdicts outlive a run |
| `Synthesis` | `synthesize`: condensing, the reduce loop, the answering call, its repair, the fallback digest | |
| `Splitting` | `split_within_token_budget`, as operators on a text | sections are sequences of positions |
| `Provenance` | folding, quote location, heading path, page, `_build_page_map`, as operators | extends `Splitting` |
| `FileText` | one text through `convert`, `plan_sections`, a model's quote and `_snap_findings` | extends `Provenance` |
| `MC...` | the sets a `.cfg` cannot write | |
| `..._proofs` | theorems about `DiscoveryWalk`, `IndexAndQuery` (with `IndexPipeline`), `Extraction`, `EvaluationCache`, `RoutedQuery`, `Synthesis`, `FileText` | section 4 |
| `FoldFacts` | lemmas about folds, recursion, least elements, sorted lists and concatenation | used by the proofs |

Some modules hold a second form of an operator (`PassesPerStage`, `FitsInput`,
`OldestRuns`, ...), commented as a seeded defect: put in the place of the
operator beside it, it breaks the property that is about it.

### Correspondence with the code

**`IndexPipeline`.**  `disk` is the corpus.  `row[c]` is the `files` row of
content `c`: its path, and whether its status lets queries see it.  `md[c]` is
*whose* text `<c>.md` holds, so that a file filed under the wrong hash can be
told.  `pages[c]` and `derived[c]` are the page map, and the card and verdicts,
by their age: absent, of the text that is there, or of a text that has been
replaced since.  `pc` is the position inside the run: the walk (hashing one file
per step), the items in order, the unlinking of the two cache files after the
row, the conversion (markdown, then page map) and the upsert.  `StartRun` reads
the index and lists the directory; `HashNext` hashes; a file that cannot be read
is `HashFails`; each branch of the item loop is an action (`Skip`, `Move`,
`Replace`, `AddNew`, `Delete`).  `Crash` loses the run's memory and nothing
else.  `Edit` is a person changing a file, `Judge` a query storing something
derived from a visible file.  `quiet` and `settled` are history: whether the
corpus was left alone, and how many complete runs have passed since it was not.

**`DiscoveryWalk`.**  `owner`, `drift`, `modified` and `deleted` are the
dictionaries and lists of `discover()`; its two loops over the files and its
loop over the index are the values of `loop`.

**`Structured` and `Extraction`.**  A reply is its body (empty, invalid,
salvageable, valid) and whether generation was cut off; a value is the whole
answer, its leading part, or one held to the eight findings the repair prompt
after a cut-off allows.  `first` holds a first reply while its repair is out.
`kept`, `failures`, `truncation`, `malformed` and `fallbacks` are
`section_results`, `section_failures`, the two lists of the callbacks and
`fallback_served`.  `calls` and `met` are history.

**`EvaluationCache`.**  `evals[q][f]` is the row of a question and a file: the
run that wrote it and the second it was stamped with.  `Ask` is `_plan_pass2`;
`JudgeClean` is `put_evaluation` up to its reading of the clock, which `stamp`
holds, and `Commit` the rest, so that rows of other processes and their pruning
may come in between; `Finish` is `prune_evaluations`, `bought` is history.
Which of two runs of the same second the SQL prefers is left open.

**`IndexAndQuery`.**  The index run is `IndexPipeline` with `Judge` replaced by
a real query: `Ask` lists the visible rows, `ReadText` reads one candidate's
markdown and `LookUp` then its stored verdict (`looked` is the candidate between
the two), `Confirm` is the budget gate, `JudgeOne` stores or drops a verdict,
`Store` meets the foreign key.  A query whose candidate lost its
markdown or its row ends as `no_text` or `no_row`: the exception is not a
`CorpusQAError` and takes the other files' answers with it.  `held[c]` is the
age of the text the query works from.  `raced`, `halfway` and `dropped` are
history: what was reconverted while a query held its text, what an index run was
reconverting when it died, and the candidates that lost their row to one.

**`Budget` and `RoutedQuery`.**  `config[t]` is what a task's price is worked
out from: the override of either side, the cost map's entry, loopback.  `card`
and `verdict` are the catalog's; everything else is the memory of one run.
`Gate` is `_check_budget_gate` with the prompt of `cli/main.py`: below the
threshold and priced, agreed to, or the end with an error.  `ChunkBack` and
`ChunkLost` are the calls of `generate_cards` in any order: the last chunk of a
file merges and stores its card, a lost one fails the file, and what `gather`
leaves running may still come back, or not, while the run goes on.  `StartRouting`
packs the cards into shards, `RouteShard` is one routing call with every reply
it may have (files left out, named twice, both), `PlanPass2` joins the
decisions with the files nobody decided on and looks up stored verdicts,
`ReadSection` is one section of one file with the progress it is credited,
`Pass2Ends` and `Synthesize` end the run with its exit code.  `Crash` loses the
run; `Reindex` replaces a file between runs.  `asked`, `entered`, `usd` and
`shown` are what the properties ask about: what the user agreed to, which
stages were paid for, their projection, what the report has of a file.

**`Synthesis`.**  `evidence[n]` is what the prompt numbers `n`.  A text is what
it cites and how long it is.  `Start` packs the evidence, `CondenseEvidence`
and `CondenseText` are one condensing call each (an empty reply leaves the
claims, or the text cut to length), `PassEnds` is the loop's test with its
depth, `CallForAnswer` / `Answer` / `CallFails` the answering call, resolved by
`Resolve` and repaired at most once.  `excused` is history: the numbers a
reply that was not empty left out, or that stood behind a cut.

**`Splitting`, `Provenance`, `FileText`.**  A text is a sequence of one-letter
strings, "/" for a line break and "&" for a ligature.  Sections, shown quotes
and headings are positions of that text, so that what is lost, doubled or
moved can be seen.  `Folded` is `_normalize_for_match` with the position every
character came from; `MatchSpans` looks the fragments up, drops words at the
ends, and decides; `PageMap` is `_build_page_map`.  `Reply` is a model that
copies positions of a section in one or two parts and may add something at an
end.

## 3. Runs

| run | question | instance |
|---|---|---|
| `MCDiscoveryWalk` | does the two-pass walk compute the order-free classification, find exactly the gone identities and give each content one owner? | all disks and indexes over 3 paths, 3 contents |
| `MCIndexPipeline` | visible text, verdicts with rows, one row per path, unchanged files undisturbed, rows that follow the disk after a complete run, no drift after two; content lost only where its path was rewritten, text misfiled only by an edit during the run | 3 paths, 2 contents, `--force` of at most one path, crashes after every durable step, unreadable files, edits before and during runs |
| `MCExtraction` | one repair per section, what was salvaged given up only for a repair, causes told apart, no part passed off as the whole, `FileVerdict` implemented | 2 sections, every reply |
| `MCEvaluationCache` | is a verdict that was bought found again? | 2 processes, 2 questions, 2 files, 4 run ids, retention of 2, 3 seconds |
| `MCIndexAndQuery` | the only two sources of stale verdicts; the only thing that makes a query lose its answers | 2 paths, 2 contents, one process of each kind, crashes of either, unreadable files |
| `MCBothEnd` | a query ends and an index run ends, whatever one removes under the other's hands (liveness) | 1 path, 2 contents, crashes of either, unreadable files |
| `MCRoutedQuery` | nothing spent unasked, no file dropped in silence, an honest progress bar, shards that fit both ways, every run ends | 2 files of up to 2 parts, 3 price settings, 3 modes, every failure |
| `MCSynthesis` | no claim without citation, evidence numbers lost only where a reply or a cut loses them, the reduce ends | up to 3 pieces of evidence |
| `MCFileText` | sections hold the text and fit, a faithful quote is found, what is shown is what was found, and stands where the finding says | documents of 2 items out of 10 |

Runs that are expected to fail each show a disagreement between the code and
what the repository says of it:

| run | property | what happens |
|---|---|---|
| `MCIndexSurvivor` | `NothingOldSurvives` | `mv b.md a.md`: the path is rewritten with content that has a row elsewhere, so it is converted again under the same hash and that hash's files were never deleted; a conversion without page map leaves the old page map beside the new text. |
| `MCExtractionLoss` | `NoSilentLoss` | an answer cut off and redone with at most eight findings counts as complete and is cached |
| `MCQuoteElsewhere` | `PlacedWhereRead` | a passage that stands twice, quoted from its second place, is given the heading and page of its first |

The comment the first one contradicts (`ingest/pipeline.py:142`) is about forced
files, whose rows are deleted before they are converted; its reason, that a new
conversion may differ under the same hash, is as true of this one.

Six properties are the positive side of a disagreement of the same kind: they
say exactly how far the code departs from the plain statement, and hold.

- `LostOnlyIfRewritten`: `a.md` is renamed to a path that sorts earlier and a
  new `a.md` is written.  The move updates the row, then the rewritten path
  deletes it by the old hash; the content is on disk and not in the index.  One
  run may do that, and only to content whose indexed path was rewritten;
  `TwoRunsConverge` says that the next quiet run mends it, which is why it
  counts two.
- `MisfiledOnlyByEdit`: an edit between hashing and conversion files the wrong
  text under a hash, for good if the edit is undone.  Nothing else does.
- `StaleOnlyByRaceOrCrash`: there are two ways to a card or verdict older than the
  markdown beside it.  A query that planned before a reconversion stores its
  verdict after it.  And the reconversion of `MCIndexSurvivor`, with a row in
  place, dies between the markdown and the upsert: the row keeps what hangs on it,
  and no later run drops it, since to it the file has moved or is unchanged.
- `DiesOnlyOfDeletion`: a verdict whose file has lost its row, or a candidate
  that has lost its markdown, ends the query with the answers of all the other
  files.  Nothing makes that happen but an index run that deletes a candidate
  between the listing of the candidates and its judgement; moves, reconversions
  and crashed index runs do not.
- `SalvagedOrSuperseded`: "Nothing fails silently" (`README.md:76`) is not
  "nothing usable is lost".  A reply that is invalid but has a complete leading
  part, and was not cut off, is held back for the repair turn; when that fails,
  is empty, or is cut off with nothing to save, the part is discarded and the section fails
  (`llm/structured.py:241-254`, `263-289`).  So is the complete part of a repair
  that stopped normally, when the first reply was cut off.  A valid reply is never
  discarded, a salvaged one never for any other reason, and the section that
  loses one counts as failed: the file is reported, as partial or failed.
- `NothingLostToTheMerge`: the synthesizer's docstring has no exceptions; blank
  claims, and the cut at four characters a token, are two.

### Further disagreements

Met while reading; no run is about them.

- `ingest/pipeline.py:5` promises that one bad file does not stop a run; an
  unreadable one raises in `discover()` and does.
- The pass-1 projection counts one output ceiling per file, although a big file
  makes several calls, and no stage counts repair turns.  The number of routing
  calls is projected as total over limit, which packing may exceed
  (`query/budget.py:20`), and `query/budget.py:149` bounds a rendered card by one
  call's output, which a merged card is not.
- `corpusqa estimate` spends on cards and routing before it prints anything
  (behind the same gate); a run that is declined or fails after pass 1 leaves no
  `run_costs` row for what it spent.
- The prompt shows the stage's projection although the gate compares the sum.
- A fallback deployment whose name equals the primary's without its provider
  prefix counts as the primary.
- The digest of last resort drops its own `[uncited]` list.
- Chunk calls of a file that has failed go on after `gather` has raised.
- A copied quote that ends in a hyphen which the text joins to the next line is
  not verified; `Faithful` leaves it out.
- Two parts of a quote may be found at one ligature, the first ending in it and
  the second beginning with it.  The ligature is then shown twice, and what is
  shown, looked up again, need not be found in the same place: `ShownIsFound`
  says so, and has its part about the same place for the other passages.

### Bounds

Two paths give a rename, a copy and a swap between two files; the third path of
`MCIndexPipeline` and `MCDiscoveryWalk` gives an uninvolved file, a chain of
renames and two copies of one content on either side of their owner.  Each
content is a file version.  The walk is checked with three contents, so that every path
can hold another one and one can be new; the pipeline with two contents, since its steps
handle one content at a time and edits may rewrite the corpus between any two of
them.  A run is asked to force one path at most: each is handled on its own.
A page map is only ever written in `MCIndexSurvivor`, whose property is the one
that reads it.  `MCBothEnd` has one path, since it checks liveness: its query still
meets every order of deletion, reconversion and crash of one file.  `settled` stops at 2, the largest number a property asks about.

Two sections let one section's trouble meet another's success; a section's own
protocol has at most two calls, so it is explored in full.

In `EvaluationCache`, four cells and retention of two runs let three runs
compete; `MaxNow` = 2 gives three different seconds and ties; a run id is used
again when neither a row nor the history remembers it, so the number of runs
is not bounded, only how many are remembered.

In `RoutedQuery`, two files let one file's failure, omission or stored verdict
meet another's success, and two parts a chunk's or a section's failure meet its
sibling's; every part is one token, cards one or two.  The three settings make
the shard limit be the cards going in, make it be the decisions coming out, and
leave a task without a price.  The threshold of 8 has corpora whose
stages each stay below it and whose sum does not.

In `Synthesis`, a budget of two tokens takes two pieces of evidence of one token
or one of two; digests are as long as the budget, so a pass need not shrink
anything; depth 2 is reached.  `CharsPerToken` = 5, above the four the cut
assumes, lets a cut lose something; a text is cut by its characters, so one that is dense
may keep up to four times the budget in tokens.

In `FileText`, the ten pieces have headings of two levels, a hyphenated break,
a ligature, decoration, a line no token budget takes at once, a passage of which
two parts can both be found at one ligature, and blank lines; two items give repeated passages, page changes and headings that end a section.
A model copies at most four characters a part.  The thresholds (`MinFragment`,
`MinRun`, `MinWords`, `MaxTrim`, `AnchorChars`) are scaled down with the texts.

Contents, processes, questions, files of `EvaluationCache` and run ids are
symmetric; paths are not (their order decides ownership), nor are the files of
`RoutedQuery` (shards are in order), and no run that checks liveness uses
symmetry.

`CHECK_DEADLOCK FALSE` is set where the system stops by design: the walk, the
extraction, the synthesis and a text's way through the program end, and the
clock of `EvaluationCache` stops at its bound.

### Fairness

`FairQuerySpec` assumes weak fairness of the index run's own steps and of the
query's: each is a process whose calls return or raise, the model client retries
a bounded number of times, and neither waits for the other.  `RoutedQuery`
assumes weak fairness of `RunStep`, the steps of one run as a whole: some call
comes back, not every one.  So `QueryEnds` does not lean on the chunk calls of a
file that has failed already: they may stay out for ever, unless the run has
nothing else to do.  (The mutant of this property waits for the *card* of every
file, which a failed one never gets.)  `Synthesis` and `Extraction` are sequential and assume weak fairness
of `Next`; `FileVerdict` of its two actions.  Starting a run, asking, edits,
crashes and re-indexing have no fairness, and there is no strong fairness.  The
user's answer to the cost prompt is taken to come.  The other specifications
state safety only.

## 4. Proofs

Forty theorems, each for every value of the constants the assumptions
admit.  They state every invariant and every action property of the passing
runs, and the safety half of the one refinement.

**Index pipeline** (`IndexAndQuery_proofs`, its first part): for every number of paths, every set
of contents, every choice of `--force` sets, with or without crashes, unreadable
files and edits during runs.

- `TypeCorrect`, with where a run stands (`Control`): an item in hand is of a
  real file.
- `TextAlwaysThere`: `VisibleHasText`.  Not inductive alone: before the upsert of
  a visible file its markdown must be there, and between the row's deletion and
  the unlinking the target must have no row.  The strengthening says both of `pc`.
- `DerivedBelongs`: `DerivedHasRow`.  Inductive beside the types: every deletion
  and every upsert empties what was derived, and a move keeps the row's visibility.
- `RowsUnique`: `OneRowPerPath`.  Nothing in the schema says so.  The argument is
  about the run's memory: every row either is as `known` gave it or has been given
  its path by an item already handled (`RowOrigin`), a rewritten path's old row is
  gone before the new one is written (`OldRowGone`), and the items that write a
  row are at most one per content because the walk gives each content one owner.
- `PaidIsKept`: `KeepsUnchanged`, and `FiledUnderItsHash`: `MisfiledOnlyByEdit`.
  Both read off `MemoryInv`: `known` gives no content two paths, the walk is the
  disk as long as nobody edits, what is left to delete was found DELETED, and the
  item being converted was classified as work.  An unchanged path owns its
  content, so no other item names it (`ChosenOwns`).
- `LosesOnlyTheRewritten`: `LostOnlyIfRewritten`.  `KeptInv` follows the rows of
  the paths that were not rewritten through the run: one is missing only while
  its own item is in hand.
- `IndexFollowsDisk`: `RowsFollowDisk`.  `HandledInv`: an item behind that owns
  its content has given it its path, and what was deleted has no row.  At the end
  a row whose path lost its content is impossible in each of three ways (`RunSettles`):
  the content is elsewhere, so its owner took the row; the path was rewritten, so
  the row was replaced; or it is gone, so the row was deleted.  `SettledInv` then
  keeps it through later runs.
- `IndexConverges`: `TwoRunsConverge`.  A run over a settled index finds nothing
  moved, rewritten or gone (`SettledDrift`), so it only adds; at its end the owner
  of every content on disk was unchanged, and kept, or new, and added (`RunFills`).

**Index and query** (`IndexAndQuery_proofs`, its second part), over the types and control above.

- `QueryTypeCorrect`: the query's variables beside the index run's.
- `ForeignKeyHolds`: `VerdictHasRow`.  Not an instance of `DerivedBelongs`: a query
  judges files that were visible when it planned.  Each step of the index run that
  removes a row removes what hangs on it; a verdict is only stored where the row
  still is.  It is proved only: what happens to the query is the question of the run.
- `StaleOnlyWhenRacedOrCut`: `StaleOnlyByRaceOrCrash`, with crashes and without.
  `StaleInv` adds what a query holds, and the moment in which the run itself is
  about to replace the row.
- `QueryDiesOnlyOfDeletion`: `DiesOnlyOfDeletion`, crashes or not.  Candidates are
  visible when they are listed, so the invariant of `TextAlwaysThere` gives them their
  markdown.  From then on only unlinking takes it away, and what is unlinked has lost
  its row, in a step that is on record (`CandidateIndex`); a file that a conversion
  makes invisible keeps both.  Beside that, between queries nobody is a candidate.

**The walk** (`DiscoveryWalk_proofs`), for every disk and every index: `TypeCorrect`,
`WalkIsDiscovery` (`WalkClassifies`), `WalkDeletesTheGone` (`WalkFindsGone`) and
`ContentHasOneOwner` (`OneOwner`).  The invariant says of each of the three loops
what the paths behind it have been given.  Its heart is `OwnerInv`: an entry of
`owner` is an unchanged path's, or that of a path already classified which owns the
content in the sense of `Discovery`.  So the classification that `IndexPipeline`
uses is the one `discover()` computes, in its theorems too.

**Extraction** (`Extraction_proofs`), for any number of sections: `TypeCorrect`,
`RepairIsBounded` (`OneSecondChance`), `SalvageGivenUpOnlyForRepair` (`SalvagedOrSuperseded`),
`ReasonsAreTrue` (`BlameIsRight`), `CleanHasNoGap` (`CleanIsWhole`) and
`CacheNamesThePrimary` (`CachedIsPrimary`).  The invariant distinguishes the sections
ahead (untouched), the one in hand (its first reply, if any, is the repairable one
that is held) and those behind, whose replies account for where they ended up
(`Behind`).  `ImplementsFileVerdict` proves the safety half of `KeepsPromise`: initial
states map to initial states and every step to a step of `FileVerdict` or a stutter.

**Evaluation cache** (`EvaluationCache_proofs`): `CacheTypeCorrect`, beside it that a
process that answers a question has a run id; `NothingBoughtIsLost`
(`ResumesWhereItDied`).  The strengthening (`BoughtInv`) says that a recorded purchase
is the verdict stored, and that every other run that has stored a verdict stamped no
earlier is on record with it.  It asks nothing of the clock: rows may be written in
another order than they were stamped in.  The record is why pruning spares
it (`PruneSpares`): the `KeepRuns` runs that would have to outrank its run are all
on record, and there the record ends.

**Routed query** (`RoutedQuery_proofs`), for every number of files and parts, every
set of configurations, every threshold.

- `TypeCorrect`, with `ProgressIsHonest`: `ProgressHonest`.  The bar is not a sum in the
  code, it is counted up by sections and topped up when a file ends; `ProgressInv`
  says that it always equals the sum of what has been read of each file, and then
  `TotalMonotone` (equal sums of smaller summands have equal summands) gives both
  halves of the property.
- `RoutingFits`: `ShardsFit`.  Packing is a left fold; the invariant of its steps
  (`ShardOne`) is that the shards so far, one after the other, are the cards so far,
  and that each fits.  Between the calls of `route`, `ShardInv` says that the shards
  left are the end of the list of cards; that needs that no card is made while
  there are shards, although calls of failed files may still come back
  (`ChunkInv`, `ChunkBackKeeps`).
- `GatedSpending`: `NothingSpentUnasked`, with which gates a run has passed at each
  `pc`.  That what passes without a question is priced rests on the rates alone
  (`PassedIsPriced`).
- `NoSilentExclusion`: `AccountedFor`.  Four parts: a stored card is made of every
  part of its file (`CardsWhole`); while routing, every file has a card or has failed
  to get one, and replies decide on cards only (`RoutingInv`); from the plan on, a
  file is left out only as refused (`LeftOutInv`); and what the plan says of a file
  is what the report shows of it (`PlannedInv`).

**Synthesis** (`Synthesis_proofs`), for any evidence, budget, replies and bound on the
passes: `TypeCorrect`, `ClaimsAreCited` (`NoCitationNoClaim`) and `NumbersSurvive`
(`NothingLostToTheMerge`).  `KeptInv` says in the middle of a pass what the property
says at its end: a number with a claim is in a batch to come, in a digest, or
excused.  `WorkInv` bounds the batches by the evidence, which is also why packing
and joining cite what they are given, no more and no less.

**File text** (`FileText_proofs`), for documents of any texts and any number of
items, every token budget and weights, every alphabet and folding, every threshold of
matching.

- `PagesInOrder`: `MarksInOrder`.  The fold keeps that the last mark is before the
  cursor and has the page of the last item found (`MarkingInv`); the next item is
  looked for from the cursor on.
- `TextIsKept`: `SectionsHoldTheText`, and `SectionsArePacked`: `SectionsFit`.  The cut
  at headings is a recursion on the length: its parts stand one after the other
  (`Chain`) and are, together, what was cut, but for blanks at its start (`GoodCut`).
  Halving ends in parts that each fit or are one character (`HardSplitKeeps`).
  Packing keeps that the parts so far may be sent and that no two neighbours fit
  together (`Packed`); a last part that has grown still does not fit with its left
  neighbour, since what fits does so without its end (`FitsMore`).
- `QuotesAreVerified`: `FaithfulIsVerified`.  The quote is folded alone and the text as
  a whole, and folding looks beyond the quote's ends: for blanks that would be dropped
  there, and for a hyphen joined to what follows.  `FoldedPart` says that a part with
  something solid at both ends and no such hyphen folds to what the text folds to
  there, every character from the same place moved along.  So a part is in the folded
  text (`QuoteFound`), a second one after the first (`HeldInOrder`); since
  the search takes the first place of each, it does not miss the next one.
- `PassagesAreShown`: `ShownIsFound`.  What is shown is a part of the text from where
  the first character that was found came from to where the last one did, so
  `FoldedPart` applies again (`ShownHeld`); no place before it holds what is shown,
  since that would hold what was looked for (`ShownFirst`).  The proof needs that the
  spans are apart: two parts that meet in one ligature are the case it cannot have, and
  without that condition TLC finds such a text in `MCFileText`'s instance (section 3).
- `PassagesArePlaced`: `PlacedWhereItStands`.  *Where*: the only place that holds the
  quote is where it was copied (`ReadInv`).  *Headings*: the stack, after any number of
  heading lines, is those of them no later one closes, with levels rising
  (`PathIsAbove`).  *Page*: the binary search finds the last mark at or before the
  offset (`PageAtIs`), which needs the marks in order.  If every item stands in one
  place then the fold finds each of them, where its text starts (`ItemPlaced`,
  `AnchorFound`): the cursor is never past the start of an item still to come.  So the page of the
  last mark is that of the last item that starts at or before the offset (`PageRight`).

**Folds** (`FoldFacts`).  Sums, packing and joining are folds over sets and sequences.
The library's induction theorems and the theorems about recursive definitions take
operators as parameters, which the installed provers cannot instantiate.  `FoldFacts`
goes around them: a property is the set of what has it, the step of a fold is a
function, well-founded induction on numbers is cited in its form for relations
(`CountingUp`, `SmallerFirst`), and from it follows that the function a fold chooses
exists (`FoldExists`, `LeftFoldExists`).  What a particular fold computes is then an
induction over its partial results.  In the same way a recursive function that
descends in some measure exists (`RecursionExists`), by `LesserFirst`, and so does the
sorted list of a finite set of numbers (`ListingExists`); `FlattenAt` says which
character of which part stands at a place of a concatenation.

What all this rests on are the named assumptions about the constants, which TLC
evaluates in the runs of the modules, and nothing else: bounds are natural numbers
and not zero where the code has them so; run ids are finitely many; a
configuration is one that `config/schema.py` accepts (`ConfigAssumption`: an output
ceiling of at least one, prices that are not negative); and `Nil` is no value
(`NilAssumption`, `RowAssumption`, `AgeAssumption`, `CardAssumption`,
`NilValueAssumption`: it is not one of the strings or records beside it;
`FileTextAssumption`: it is no page).

Only model-checked is liveness (`BothEnd`, `QueryEnds`, `SynthesisEnds`, and that an
extraction ends, the other half of `KeepsPromise`): fairness and `ENABLED` are out of
the prover's reach.

## 5. Not modelled

- Docling itself: an item exports to its text as it is, or to something else.
  Running-header demotion and the anchors of tables are left out.
- Merging the sections' reasonings, dedup of findings, caps and dedup of cards.
  A card is what it was made of and how long it is.
- The quotation marks a model puts around an excerpt, which `_quote_fragments`
  strips: the alphabet has none.
- How a real tokenizer counts: in `Splitting` the weights of characters add up.  That
  every section fits does not depend on it, since each joined text is counted again;
  that no two neighbours would have fitted together does.
- Semaphores, retries and the ledger of the task client: a call returns or fails,
  and nothing but their own counters depends on them.
- Prompts, rendering of hits and reports, configuration (its values are
  constants), command-line parsing, logging, the evaluation kit, schema
  migration, `index_meta`, `run_costs`.
- Two index runs over one catalog.  Nothing in the code locks; one run beside one
  query is as large as a run can be.
- A stored verdict that no longer validates: it happens only across versions of
  the program.

SHA-256 is taken to be collision-free.  SQLite's commits are taken to be atomic
and durable; a write to a cache file is one step.

## 6. Plan

Done: the index pipeline and discovery, extraction over structured output, the
evaluation cache, index and query side by side, the routed query with its gates,
synthesis, splitting and provenance; the theorems above.

Left: `TwoIndexRuns`, two `IndexPipeline` processes over one catalog, their memory
doubled, on one path.  Rows of one path can double; `OneRowPerPath` is theirs to lose.
