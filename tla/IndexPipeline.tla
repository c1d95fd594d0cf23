--------------------------- MODULE IndexPipeline ---------------------------
(***************************************************************************)
(* `corpusqa index': one run walks the corpus, classifies every file and   *)
(* brings the catalog and the markdown cache up to date                    *)
(* (corpusqa/ingest/pipeline.py over catalog/store.py and                  *)
(* ingest/converter.py).                                                   *)
(*                                                                         *)
(* The catalog commits once per call and the cache is plain files, so a    *)
(* run is a sequence of small durable steps, and it can stop after any of  *)
(* them.  Between runs people edit, rename, copy and delete files and ask  *)
(* questions, whose cards and verdicts are stored beside the row they were *)
(* derived from.                                                           *)
(***************************************************************************)
EXTENDS Discovery

CONSTANTS
    ForceChoices,       \* the sets of paths a run may be asked to reconvert
    PageMapChoices,     \* may a conversion yield a page map (subset of BOOLEAN)
    Unreadable,         \* may a listed file turn out to be unreadable
    Crashes,            \* may a run die between two steps
    EditsDuringRun      \* may the corpus change while a run is going on

ASSUME ForceAssumption == ForceChoices \subseteq SUBSET Paths
ASSUME ChoicesAssumption ==
    /\ PageMapChoices \in SUBSET BOOLEAN
    /\ Unreadable \in BOOLEAN
    /\ Crashes \in BOOLEAN
    /\ EditsDuringRun \in BOOLEAN

\* A row of the files table; its key is the content it is the row of.
Rows == [path : Paths, visible : BOOLEAN]

ASSUME RowAssumption == Nil \notin Rows

VARIABLES
    disk,       \* the corpus: content by path
    row,        \* files: row[c] is the row of content c, or Nil
    md,         \* md[c]: the content whose text is in <c>.md, or Nil
    pages,      \* age of <c>.pages.json with respect to <c>.md
    derived,    \* age of c's card and verdicts with respect to <c>.md
    pc,         \* where the run is
    known,      \* the run's known_files()
    seen,       \* the run's walk
    force,      \* the run's --force paths
    at,         \* path whose item is next; NPaths + 1: DELETED items
    gone,       \* DELETED items still to apply
    target,     \* content _delete is removing
    visible,    \* did the conversion end ok or partial_parse
    quiet,      \* no edit since this run started
    settled     \* complete runs, 2 at most, since the last edit or crash

catalog == <<row, derived>>
cache   == <<md, pages>>
runVars == <<pc, known, seen, force, at, gone, target, visible>>
ghosts  == <<quiet, settled>>
vars    == <<disk, catalog, cache, runVars, ghosts>>

\* A file derived from <c>.md is absent, of the text that is there now, or of
\* a text that has been replaced since.
Ages == {Nil, "current", "stale"}

ASSUME AgeAssumption == Nil \notin {"current", "stale"}

PCs == {"idle", "walk", "items", "unlink_md", "unlink_pages", "convert",
        "page_map", "upsert"}

TypeOK ==
    /\ disk \in Snapshots
    /\ row \in [Contents -> Rows \cup {Nil}]
    /\ md \in [Contents -> MaybeContent]
    /\ pages \in [Contents -> Ages]
    /\ derived \in [Contents -> Ages]
    /\ pc \in PCs
    /\ known \in Snapshots
    /\ seen \in Snapshots
    /\ force \in SUBSET Paths
    /\ at \in 1..(NPaths + 1)
    /\ gone \in SUBSET Contents
    /\ target \in MaybeContent
    /\ visible \in BOOLEAN
    /\ quiet \in BOOLEAN
    /\ settled \in 0..2

NoFiles == [p \in Paths |-> Nil]

----------------------------------------------------------------------------
(* Catalog store.                                                          *)

\* known_files(): one hash per path.  Were two rows to share a path, the last
\* one scanned would win; the scan order is not modelled.
KnownFiles ==
    {k \in Snapshots : \A p \in Paths :
        IF \E c \in Contents : row[c] # Nil /\ row[c].path = p
        THEN k[p] # Nil /\ row[k[p]] # Nil /\ row[k[p]].path = p
        ELSE k[p] = Nil}

\* Seeded defect: an upsert that updates in place, so nothing cascades.
UpsertInPlace(c, p, vis) ==
    /\ row' = [row EXCEPT ![c] = [path |-> p, visible |-> vis]]
    /\ derived' = derived

\* INSERT OR REPLACE: the old row is deleted first, and with it, by the
\* foreign keys' cascade, the card and the verdicts.
UpsertFile(c, p, vis) ==
    /\ row' = [row EXCEPT ![c] = [path |-> p, visible |-> vis]]
    /\ derived' = [derived EXCEPT ![c] = Nil]

\* Seeded defect: a move is counted and not written.
UpdateNothing(c, p) == row' = row

\* UPDATE ... WHERE file_hash: no row, no effect.
UpdateRelPath(c, p) ==
    row' = IF row[c] = Nil THEN row ELSE [row EXCEPT ![c].path = p]

\* Seeded defect: foreign keys off, so cards and verdicts outlive the row.
DeleteNoCascade(c) ==
    /\ row' = [row EXCEPT ![c] = Nil]
    /\ derived' = derived

DeleteFile(c) ==
    /\ row' = [row EXCEPT ![c] = Nil]
    /\ derived' = [derived EXCEPT ![c] = Nil]

----------------------------------------------------------------------------
(* Run control.                                                            *)

Init ==
    /\ disk = NoFiles
    /\ row = [c \in Contents |-> Nil]
    /\ md = [c \in Contents |-> Nil]
    /\ pages = [c \in Contents |-> Nil]
    /\ derived = [c \in Contents |-> Nil]
    /\ pc = "idle"
    /\ known = NoFiles
    /\ seen = NoFiles
    /\ force = {}
    /\ at = 1
    /\ gone = {}
    /\ target = Nil
    /\ visible = FALSE
    /\ quiet = TRUE
    /\ settled = 0

\* The run's memory is gone; what it committed stays.
EndRun ==
    /\ pc' = "idle"
    /\ known' = NoFiles
    /\ seen' = NoFiles
    /\ force' = {}
    /\ at' = 1
    /\ gone' = {}
    /\ target' = Nil
    /\ visible' = FALSE

\* Reads the index and lists the corpus; the listed files are hashed one by
\* one, so until its turn comes `seen' only says that a path was listed.
StartRun ==
    /\ pc = "idle"
    /\ known' \in KnownFiles
    /\ force' \in ForceChoices
    /\ seen' = disk
    /\ pc' = "walk"
    /\ at' = 1
    /\ quiet' = TRUE
    /\ UNCHANGED <<disk, catalog, cache, gone, target, visible, settled>>

\* Hashes the next listed file.  After the last one the items are known; a
\* --force path that is not among them ends the run before it changes anything.
HashNext ==
    /\ pc = "walk"
    /\ LET s == [seen EXCEPT ![at] = IF @ = Nil THEN Nil ELSE disk[at]]
       IN IF at < NPaths
          THEN /\ seen' = s
               /\ at' = at + 1
               /\ UNCHANGED <<pc, known, force, gone, target, visible>>
          ELSE IF \A p \in force : s[p] # Nil
               THEN /\ seen' = s
                    /\ pc' = "items"
                    /\ at' = 1
                    /\ gone' = Gone(s, known)
                    /\ UNCHANGED <<known, force, target, visible>>
               ELSE EndRun
    /\ UNCHANGED <<disk, catalog, cache, ghosts>>

\* hash_file cannot read the file whose turn it is and raises; nothing on the
\* way up to the command line catches it.
HashFails ==
    /\ Unreadable
    /\ pc = "walk" /\ seen[at] # Nil
    /\ EndRun
    /\ settled' = 0
    /\ UNCHANGED <<disk, catalog, cache, quiet>>

\* The item of path `at' is next.
AtItem(kinds) ==
    /\ pc = "items"
    /\ at \in Paths
    /\ seen[at] # Nil
    /\ Drift(seen, known, at) \in kinds

NextItem == pc' = "items" /\ at' = at + 1

\* No file, a duplicate, or an unchanged file nobody forced: nothing to do.
Skip ==
    /\ \/ pc = "items" /\ at \in Paths /\ seen[at] = Nil
       \/ AtItem({"duplicate"})
       \/ AtItem({"unchanged"}) /\ at \notin force
    /\ NextItem
    /\ UNCHANGED <<disk, catalog, cache, known, seen, force, gone, target,
                   visible, ghosts>>

Move ==
    /\ AtItem({"moved"})
    /\ UpdateRelPath(seen[at], at)
    /\ NextItem
    /\ UNCHANGED <<disk, derived, cache, known, seen, force, gone, target,
                   visible, ghosts>>

\* Seeded defect: the cache files go and the row waits for the upsert.
DeleteCacheOnly(c) ==
    /\ UNCHANGED catalog
    /\ target' = c
    /\ pc' = "unlink_md"

\* _delete: the row first, its cache files after (see Unlink...).
DeleteRow(c) ==
    /\ DeleteFile(c)
    /\ target' = c
    /\ pc' = "unlink_md"

\* Seeded defect: a rewritten path's old row is left alone.
NeverReplace ==
    /\ AtItem({"modified"})
    /\ pc' = "convert"
    /\ UNCHANGED <<disk, catalog, cache, known, seen, force, at, gone, target,
                   visible, ghosts>>

\* MODIFIED: the path's old row goes; forced UNCHANGED: its own row goes.
Replace ==
    /\ \/ AtItem({"modified"}) /\ DeleteRow(known[at])
       \/ AtItem({"unchanged"}) /\ at \in force /\ DeleteRow(seen[at])
    /\ UNCHANGED <<disk, cache, known, seen, force, at, gone, visible, ghosts>>

AddNew ==
    /\ AtItem({"new"})
    /\ pc' = "convert"
    /\ UNCHANGED <<disk, catalog, cache, known, seen, force, at, gone, target,
                   visible, ghosts>>

\* Seeded defect: _delete is handed the item's path in place of its hash.
DeleteByPath ==
    /\ pc = "items" /\ at = NPaths + 1
    /\ \E c \in gone, p \in Paths :
          known[p] = c /\ DeleteRow(p) /\ gone' = gone \ {c}
    /\ UNCHANGED <<disk, cache, known, seen, force, at, visible, ghosts>>

\* DELETED items come last, in no order that matters.
Delete ==
    /\ pc = "items" /\ at = NPaths + 1
    /\ \E c \in gone : DeleteRow(c) /\ gone' = gone \ {c}
    /\ UNCHANGED <<disk, cache, known, seen, force, at, visible, ghosts>>

UnlinkMd ==
    /\ pc = "unlink_md"
    /\ md' = [md EXCEPT ![target] = Nil]
    /\ pc' = "unlink_pages"
    /\ UNCHANGED <<disk, catalog, pages, known, seen, force, at, gone, target,
                   visible, ghosts>>

UnlinkPages ==
    /\ pc = "unlink_pages"
    /\ pages' = [pages EXCEPT ![target] = Nil]
    /\ target' = Nil
    /\ pc' = IF at \in Paths THEN "convert" ELSE "items"
    /\ UNCHANGED <<disk, catalog, md, known, seen, force, at, gone, visible,
                   ghosts>>

----------------------------------------------------------------------------
(* Conversion of the item at `at'.                                         *)

Age(a) == IF a = Nil THEN Nil ELSE "stale"

\* The conversion raised, or the format is not supported: nothing is written,
\* whatever was cached stays.
ConvertFails ==
    /\ pc = "convert"
    /\ pc' = "upsert"
    /\ visible' = FALSE
    /\ UNCHANGED <<disk, catalog, cache, known, seen, force, at, gone, target,
                   ghosts>>

\* Seeded defect: a rewritten file is filed under the hash it is known by.
WriteMdByPath ==
    /\ pc = "convert"
    /\ disk[at] # Nil
    /\ LET c == IF known[at] # Nil THEN known[at] ELSE seen[at] IN
          /\ md' = [md EXCEPT ![c] = disk[at]]
          /\ pages' = [pages EXCEPT ![c] = Age(@)]
          /\ derived' = [derived EXCEPT ![c] = Age(@)]
    /\ pc' = "page_map"
    /\ UNCHANGED <<disk, row, known, seen, force, at, gone, target, visible,
                   ghosts>>

\* The text is that of the bytes at the path now, filed under the hash the
\* walk computed.
WriteMd ==
    /\ pc = "convert"
    /\ disk[at] # Nil
    /\ md' = [md EXCEPT ![seen[at]] = disk[at]]
    /\ pages' = [pages EXCEPT ![seen[at]] = Age(@)]
    /\ derived' = [derived EXCEPT ![seen[at]] = Age(@)]
    /\ pc' = "page_map"
    /\ UNCHANGED <<disk, row, known, seen, force, at, gone, target, visible,
                   ghosts>>

\* A page map is written only when there is one.  The status is ok or
\* partial_parse (visible to queries), or zero_text or parse_failed (not): what
\* Docling calls a failure still has a text, and it has been written.
WritePageMap ==
    /\ pc = "page_map"
    /\ \E some \in PageMapChoices :
          pages' = IF some THEN [pages EXCEPT ![seen[at]] = "current"] ELSE pages
    /\ visible' \in BOOLEAN
    /\ pc' = "upsert"
    /\ UNCHANGED <<disk, catalog, md, known, seen, force, at, gone, target,
                   ghosts>>

Upsert ==
    /\ pc = "upsert"
    /\ UpsertFile(seen[at], at, visible)
    /\ visible' = FALSE
    /\ NextItem
    /\ UNCHANGED <<disk, cache, known, seen, force, gone, target, ghosts>>

\* Every item handled: write_meta, and the run is complete.
Finish ==
    /\ pc = "items" /\ at = NPaths + 1 /\ gone = {}
    /\ EndRun
    /\ settled' = IF ~quiet THEN 0 ELSE IF settled = 2 THEN 2 ELSE settled + 1
    /\ UNCHANGED <<disk, catalog, cache, quiet>>

\* The process dies, or an exception nothing catches ends the run, such as a
\* failed write to the cache.
Crash ==
    /\ Crashes
    /\ pc # "idle"
    /\ EndRun
    /\ settled' = 0
    /\ UNCHANGED <<disk, catalog, cache, quiet>>

----------------------------------------------------------------------------
(* The environment: people edit the corpus and ask questions.              *)

\* Writes, overwrites or removes a file; a rename or a copy is two of these.
Edit ==
    /\ EditsDuringRun \/ pc = "idle"
    /\ \E p \in Paths, c \in MaybeContent :
          disk[p] # c /\ disk' = [disk EXCEPT ![p] = c]
    /\ quiet' = FALSE
    /\ settled' = 0
    /\ UNCHANGED <<catalog, cache, runVars>>

\* A query stores a card or a verdict derived from a visible file's markdown.
Judge ==
    /\ pc = "idle"
    /\ \E c \in Contents :
          /\ row[c] # Nil /\ row[c].visible
          /\ md[c] # Nil
          /\ derived[c] = Nil
          /\ derived' = [derived EXCEPT ![c] = "current"]
    /\ UNCHANGED <<disk, row, cache, runVars, ghosts>>

RunStep ==
    \/ HashNext \/ HashFails \/ Skip \/ Move \/ Replace \/ AddNew \/ Delete
    \/ UnlinkMd \/ UnlinkPages
    \/ ConvertFails \/ WriteMd \/ WritePageMap \/ Upsert \/ Finish

Next == StartRun \/ RunStep \/ Crash \/ Edit \/ Judge

Spec == Init /\ [][Next]_vars

----------------------------------------------------------------------------
(* Safety.                                                                 *)

\* A query reads the markdown of every file the catalog calls ok or
\* partial_parse, unguarded: _plan_pass2 and _pass1_estimate fail on the whole
\* question when one is missing.  So the row goes before the markdown and
\* comes after it, wherever a run stops.
VisibleHasText ==
    \A c \in Contents : row[c] # Nil /\ row[c].visible => md[c] # Nil

\* rel_path has no UNIQUE constraint, yet known_files() builds a mapping from
\* it: a second row for a path would hide the first from discover(), which
\* could then never report it DELETED.
OneRowPerPath ==
    \A c, d \in Contents :
        row[c] # Nil /\ row[d] # Nil /\ row[c].path = row[d].path => c = d

\* Cards and verdicts exist only beside a row (their foreign key), and only of
\* a file queries can see.
DerivedHasRow ==
    \A c \in Contents : derived[c] # Nil => row[c] # Nil /\ row[c].visible

\* Nothing derived from a replaced text survives it: between runs no card or
\* verdict is older than the markdown beside it, and a page map that is there,
\* whose offsets a query attaches to its findings, is of the markdown it reads.
NothingOldSurvives ==
    pc = "idle" =>
        \A c \in Contents :
            /\ derived[c] # "stale"
            /\ row[c] # Nil /\ row[c].visible => pages[c] # "stale"

\* After one complete run over a corpus nobody touches, every row gives a
\* path that really holds its content.
RowsFollowDisk ==
    settled >= 1 =>
        \A c \in Contents : row[c] # Nil => disk[row[c].path] = c

\* Whatever crashed, moved or was overwritten before, two complete runs over a
\* corpus nobody touches leave no drift: indexing has a fixed point and
\* reaches it.
TwoRunsConverge ==
    settled = 2 /\ pc = "idle" => \A k \in KnownFiles : NoDrift(disk, k)

\* "An indexed identity is gone only when its content is absent from the whole
\* corpus", with the one exception the code makes: a file whose indexed path
\* holds another content now may be lost until the next run.
LostOnlyIfRewritten ==
    [][Finish /\ quiet =>
         \A c \in Contents :
            Holds(known, c) /\ Holds(disk, c) /\ row[c] = Nil =>
               \E p \in Paths : known[p] = c /\ seen[p] \notin {Nil, c}]_vars

\* The hash that names a cache file is the identity of the bytes it was made
\* from, unless the corpus changed under the run.
MisfiledOnlyByEdit ==
    [][\A c \in Contents : md'[c] # md[c] /\ md'[c] \notin {Nil, c} => ~quiet]_vars

\* A run never throws away a card or verdict of a file that is where the
\* index says and that nobody forced: they were paid for.
KeepsUnchanged ==
    [][\A c \in Contents :
          derived[c] # Nil /\ derived'[c] = Nil =>
             ~\E p \in Paths : /\ Unchanged(seen, known, p) /\ seen[p] = c
                               /\ p \notin force]_vars
=============================================================================
