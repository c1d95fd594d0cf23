------------------------ MODULE IndexAndQuery_proofs ------------------------
(***************************************************************************)
(* What is proved of the index pipeline for every number of paths, every   *)
(* set of contents, every choice of forced files, with crashes between any *)
(* two steps and edits at any time: its types, the three facts about the   *)
(* catalog a reader relies on at every moment, then what a whole run       *)
(* keeps, loses and leaves behind.  Last, what is proved of an index run   *)
(* and a query side by side.                                               *)
(***************************************************************************)
EXTENDS IndexAndQuery, FoldFacts

\* While an item is being converted, or a row's cache files removed, the
\* run's position and target are those of a real file.
Control ==
    /\ pc = "walk" => at \in Paths
    /\ pc \in {"convert", "page_map", "upsert"} =>
          at \in Paths /\ seen[at] \in Contents
    /\ pc \in {"unlink_md", "unlink_pages"} =>
          /\ target \in Contents
          /\ at \in Paths => seen[at] \in Contents

Typed == TypeOK /\ Control

USE NPathsAssumption, NilAssumption, RowAssumption, ForceAssumption,
    ChoicesAssumption

\* DELETED items are contents.
LEMMA GoneType ==
    ASSUME NEW s \in Snapshots, NEW k \in Snapshots
    PROVE  Gone(s, k) \subseteq Contents
BY DEF Gone, Snapshots, MaybeContent

\* A deletion keeps the types of the rows and what hangs on them.
LEMMA DeleteFileType ==
    ASSUME TypeOK, NEW c \in Contents, DeleteFile(c)
    PROVE  /\ row' \in [Contents -> Rows \cup {Nil}]
           /\ derived' \in [Contents -> Ages]
BY DEF TypeOK, DeleteFile, Ages

\* A rewritten or forced path always has a row's content to delete.
LEMMA ReplaceTarget ==
    ASSUME TypeOK, Replace
    PROVE  /\ at \in Paths /\ seen[at] \in Contents
           /\ \E c \in Contents : DeleteRow(c)
<1>1. at \in Paths /\ seen[at] \in Contents
    BY DEF TypeOK, Replace, AtItem, Snapshots, MaybeContent
<1>2. CASE AtItem({"modified"}) /\ DeleteRow(known[at])
    <2>1. known[at] # Nil
        BY <1>2 DEF AtItem, Drift
    <2> QED BY <1>1, <1>2, <2>1 DEF TypeOK, Snapshots, MaybeContent
<1> QED BY <1>1, <1>2 DEF Replace

\* An empty disk is a disk, and there is a first path.
LEMMA NoFilesType == NoFiles \in Snapshots /\ 1 \in Paths
BY DEF NoFiles, Snapshots, MaybeContent, Paths

\* A run that ends forgets everything, whatever it held.
LEMMA EndRunType ==
    ASSUME EndRun
    PROVE  /\ pc' \in PCs /\ known' \in Snapshots /\ seen' \in Snapshots
           /\ force' \in SUBSET Paths /\ at' \in 1..(NPaths + 1)
           /\ gone' \in SUBSET Contents /\ target' \in MaybeContent
           /\ visible' \in BOOLEAN
           /\ Control'
<1> USE DEF EndRun
<1>1. known' \in Snapshots /\ seen' \in Snapshots
    BY NoFilesType
<1>2. /\ pc' \in PCs /\ force' \in SUBSET Paths /\ at' \in 1..(NPaths + 1)
      /\ gone' \in SUBSET Contents /\ target' \in MaybeContent
    BY DEF PCs, MaybeContent
<1>3. visible' \in BOOLEAN
    OBVIOUS
<1>4. Control'
    BY DEF Control
<1> QED BY <1>1, <1>2, <1>3, <1>4

\* Typed is inductive.
LEMMA TypedInit == Init => Typed
<1> SUFFICES ASSUME Init PROVE Typed
    OBVIOUS
<1> USE DEF Init
<1>1. disk \in Snapshots /\ known \in Snapshots /\ seen \in Snapshots
    BY NoFilesType
<1>2. /\ row \in [Contents -> Rows \cup {Nil}]
      /\ md \in [Contents -> MaybeContent]
      /\ pages \in [Contents -> Ages]
      /\ derived \in [Contents -> Ages]
    BY DEF Ages, MaybeContent
<1>3. Control
    BY DEF Control
<1>4. /\ pc \in PCs /\ force \in SUBSET Paths /\ at \in 1..(NPaths + 1)
      /\ gone \in SUBSET Contents /\ target \in MaybeContent
    BY DEF PCs, MaybeContent
<1>5. visible \in BOOLEAN /\ quiet \in BOOLEAN
    OBVIOUS
<1>6. settled \in 0..2
    OBVIOUS
<1> QED BY <1>1, <1>2, <1>3, <1>4, <1>5, <1>6 DEF Typed, TypeOK

\* Every step keeps the types.
LEMMA TypedNext == Typed /\ [Next]_vars => Typed'
<1> SUFFICES ASSUME Typed, [Next]_vars PROVE Typed'
    OBVIOUS
<1> USE DEF Typed, TypeOK, Control
<1>1. CASE StartRun
    BY <1>1 DEF StartRun, KnownFiles, catalog, cache, Paths, PCs
<1>2. CASE HashNext
    <2> DEFINE s == [seen EXCEPT ![at] = IF @ = Nil THEN Nil ELSE disk[at]]
    <2>1. s \in Snapshots
        BY <1>2 DEF HashNext, Snapshots, MaybeContent
    <2>2. UNCHANGED <<disk, row, derived, md, pages, quiet, settled>>
        BY <1>2 DEF HashNext, catalog, cache, ghosts
    <2>3. CASE at < NPaths
        <3>1. /\ seen' = s /\ at' = at + 1
              /\ UNCHANGED <<pc, known, force, gone, target, visible>>
            BY <1>2, <2>3 DEF HashNext
        <3>2. at' \in Paths
            BY <1>2, <2>3, <3>1 DEF HashNext, Paths
        <3>3. Control'
            BY <1>2, <3>1, <3>2 DEF HashNext
        <3>4. at' \in 1..(NPaths + 1)
            BY <3>2 DEF Paths
        <3> QED BY <2>1, <2>2, <3>1, <3>3, <3>4
    <2>4. CASE ~(at < NPaths) /\ \A p \in force : s[p] # Nil
        <3>1. /\ seen' = s /\ pc' = "items" /\ at' = 1 /\ gone' = Gone(s, known)
              /\ UNCHANGED <<known, force, target, visible>>
            BY <1>2, <2>4 DEF HashNext
        <3>2. Gone(s, known) \subseteq Contents
            BY <2>1, GoneType
        <3>3. Control'
            BY <3>1
        <3>4. pc' \in PCs /\ at' \in 1..(NPaths + 1)
            BY <3>1 DEF PCs
        <3> HIDE DEF s
        <3> QED BY <2>1, <2>2, <3>1, <3>2, <3>3, <3>4
    <2>5. CASE ~(at < NPaths) /\ ~(\A p \in force : s[p] # Nil)
        <3>1. EndRun
            BY <1>2, <2>5 DEF HashNext
        <3> QED BY <2>2, <3>1, EndRunType
    <2> QED BY <2>3, <2>4, <2>5
<1>3. CASE Skip
    BY <1>3 DEF Skip, AtItem, NextItem, catalog, cache, ghosts, PCs, Paths
<1>4. CASE Move
    <2>1. row' \in [Contents -> Rows \cup {Nil}]
        BY <1>4 DEF Move, AtItem, UpdateRelPath, Rows, Snapshots, MaybeContent
    <2> QED BY <1>4, <2>1 DEF Move, AtItem, NextItem, cache, ghosts, PCs, Paths
<1>5. CASE Replace
    <2>1. at \in Paths /\ seen[at] \in Contents
        BY <1>5, ReplaceTarget
    <2>2. PICK c \in Contents : DeleteRow(c)
        BY <1>5, ReplaceTarget
    <2>3. row' \in [Contents -> Rows \cup {Nil}] /\ derived' \in [Contents -> Ages]
        BY <2>2, DeleteFileType DEF DeleteRow
    <2> QED BY <1>5, <2>1, <2>2, <2>3
            DEF Replace, DeleteRow, cache, ghosts, PCs, MaybeContent
<1>6. CASE AddNew
    BY <1>6 DEF AddNew, AtItem, catalog, cache, ghosts, PCs, Snapshots, MaybeContent
<1>7. CASE Delete
    <2>1. PICK c \in gone : DeleteRow(c) /\ gone' = gone \ {c}
        BY <1>7 DEF Delete
    <2>2. row' \in [Contents -> Rows \cup {Nil}] /\ derived' \in [Contents -> Ages]
        BY <2>1, DeleteFileType DEF DeleteRow
    <2> QED BY <1>7, <2>1, <2>2
            DEF Delete, DeleteRow, cache, ghosts, PCs, Paths, MaybeContent
<1>8. CASE UnlinkMd
    BY <1>8 DEF UnlinkMd, catalog, ghosts, PCs, MaybeContent
<1>9. CASE UnlinkPages
    BY <1>9 DEF UnlinkPages, catalog, ghosts, PCs, Ages, MaybeContent
<1>10. CASE ConvertFails
    BY <1>10 DEF ConvertFails, catalog, cache, ghosts, PCs
<1>11. CASE WriteMd
    BY <1>11 DEF WriteMd, Age, Ages, ghosts, PCs, Snapshots, MaybeContent
<1>12. CASE WritePageMap
    BY <1>12 DEF WritePageMap, Ages, catalog, ghosts, PCs
<1>13. CASE Upsert
    <2>1. at \in Paths /\ seen[at] \in Contents
        BY <1>13 DEF Upsert
    <2>2. [path |-> at, visible |-> visible] \in Rows
        BY <2>1 DEF Rows
    <2>3. row' \in [Contents -> Rows \cup {Nil}] /\ derived' \in [Contents -> Ages]
        BY <1>13, <2>1, <2>2 DEF Upsert, UpsertFile, Ages
    <2>4. pc' \in PCs /\ at' \in 1..(NPaths + 1)
        BY <1>13, <2>1 DEF Upsert, NextItem, PCs, Paths
    <2>6. visible' \in BOOLEAN
        BY <1>13 DEF Upsert
    <2>5. Control'
        BY <1>13 DEF Upsert, NextItem
    <2> QED BY <1>13, <2>3, <2>4, <2>5, <2>6 DEF Upsert, cache, ghosts
<1>14. CASE Finish
    <2>1. settled' \in 0..2
        BY <1>14 DEF Finish
    <2> QED BY <1>14, <2>1, EndRunType DEF Finish, catalog, cache
<1>15. CASE Crash \/ HashFails
    <2>1. settled' \in 0..2
        BY <1>15 DEF Crash, HashFails
    <2> QED BY <1>15, <2>1, EndRunType DEF Crash, HashFails, catalog, cache
<1>16. CASE Edit
    <2>1. /\ disk' \in Snapshots
          /\ UNCHANGED <<row, derived, md, pages, pc, known, seen, force, at, gone,
                         target, visible>>
          /\ settled' \in 0..2
        BY <1>16 DEF Edit, catalog, cache, runVars, Snapshots
    <2>2. quiet' \in BOOLEAN
        BY <1>16 DEF Edit
    <2>3. Control'
        BY <2>1
    <2> QED BY <2>1, <2>2, <2>3
<1>17. CASE Judge
    BY <1>17 DEF Judge, cache, runVars, ghosts, Ages
<1>18. CASE UNCHANGED vars
    BY <1>18 DEF vars, catalog, cache, runVars, ghosts
<1> QED
    BY <1>1, <1>2, <1>3, <1>4, <1>5, <1>6, <1>7, <1>8, <1>9, <1>10, <1>11,
       <1>12, <1>13, <1>14, <1>15, <1>16, <1>17, <1>18 DEF Next, RunStep

\* The catalog, the cache and the run's memory keep their types: the run
\* never files a conversion, or removes a row, under anything but a content.
THEOREM TypeCorrect == Spec => []TypeOK
<1>1. Spec => []Typed
    BY TypedInit, TypedNext, PTL DEF Spec
<1> QED BY <1>1, PTL DEF Typed

----------------------------------------------------------------------------
(* Every row queries may read has its markdown.                            *)

\* The strengthening: a row is gone by the time its cache files are removed,
\* and a conversion that will be upserted as visible has written its text.
TextInv ==
    /\ VisibleHasText
    /\ pc = "unlink_md" => row[target] = Nil
    /\ pc = "page_map" => md[seen[at]] # Nil
    /\ pc = "upsert" /\ visible => md[seen[at]] # Nil

\* Every step keeps the markdown of visible rows.
LEMMA TextNext == Typed /\ TextInv /\ [Next]_vars => TextInv'
<1> SUFFICES ASSUME Typed, TextInv, [Next]_vars PROVE TextInv'
    OBVIOUS
<1> USE DEF Typed, TypeOK, Control, TextInv, VisibleHasText
<1>1. CASE StartRun
    BY <1>1 DEF StartRun, catalog, cache
<1>2. CASE HashNext
    BY <1>2 DEF HashNext, EndRun, catalog, cache
<1>3. CASE Skip
    BY <1>3 DEF Skip, NextItem, catalog, cache
<1>4. CASE Move
    <2>1. \A c \in Contents : row'[c] # Nil => row[c] # Nil /\ row'[c].visible = row[c].visible
        BY <1>4 DEF Move, AtItem, UpdateRelPath, Rows, Snapshots, MaybeContent
    <2> QED BY <1>4, <2>1 DEF Move, NextItem, cache
<1>5. CASE Replace
    <2>1. PICK c \in Contents : DeleteRow(c)
        BY <1>5, ReplaceTarget
    <2> QED BY <1>5, <2>1 DEF Replace, DeleteRow, DeleteFile, cache
<1>6. CASE AddNew
    BY <1>6 DEF AddNew, catalog, cache
<1>7. CASE Delete
    BY <1>7 DEF Delete, DeleteRow, DeleteFile, cache
<1>8. CASE UnlinkMd
    BY <1>8 DEF UnlinkMd, catalog
<1>9. CASE UnlinkPages
    BY <1>9 DEF UnlinkPages, catalog
<1>10. CASE ConvertFails
    BY <1>10 DEF ConvertFails, catalog, cache
<1>11. CASE WriteMd
    BY <1>11 DEF WriteMd
<1>12. CASE WritePageMap
    BY <1>12 DEF WritePageMap, catalog
<1>13. CASE Upsert
    BY <1>13 DEF Upsert, UpsertFile, NextItem, cache
<1>14. CASE Finish
    BY <1>14 DEF Finish, EndRun, catalog, cache
<1>15. CASE Crash \/ HashFails
    BY <1>15 DEF Crash, HashFails, EndRun, catalog, cache
<1>16. CASE Edit
    BY <1>16 DEF Edit, catalog, cache, runVars
<1>17. CASE Judge
    BY <1>17 DEF Judge, cache, runVars
<1>18. CASE UNCHANGED vars
    BY <1>18 DEF vars, catalog, cache, runVars, ghosts
<1> QED
    BY <1>1, <1>2, <1>3, <1>4, <1>5, <1>6, <1>7, <1>8, <1>9, <1>10, <1>11,
       <1>12, <1>13, <1>14, <1>15, <1>16, <1>17, <1>18 DEF Next, RunStep

\* However a run is interrupted, and whatever happens to the corpus while it
\* goes on, no query finds a row called ok or partial_parse without its
\* markdown: the order row-then-files in _delete and files-then-row in
\* _convert_one is enough.
THEOREM TextAlwaysThere == Spec => []VisibleHasText
<1>1. Init => TextInv
    BY DEF Init, TextInv, VisibleHasText
<1>2. Spec => []Typed
    BY TypedInit, TypedNext, PTL DEF Spec
<1>3. Spec => []TextInv
    BY <1>1, <1>2, TextNext, PTL DEF Spec
<1> QED BY <1>3, PTL DEF TextInv

----------------------------------------------------------------------------
(* Cards and verdicts belong to a row queries can see.                     *)

\* Every step keeps cards and verdicts beside a visible row.
LEMMA DerivedNext == Typed /\ DerivedHasRow /\ [Next]_vars => DerivedHasRow'
<1> SUFFICES ASSUME Typed, DerivedHasRow, [Next]_vars PROVE DerivedHasRow'
    OBVIOUS
<1> USE DEF Typed, TypeOK, Control, DerivedHasRow
<1>1. CASE \/ StartRun \/ HashNext \/ HashFails \/ Skip \/ AddNew \/ UnlinkMd
           \/ UnlinkPages \/ ConvertFails \/ WritePageMap \/ Finish \/ Crash
           \/ Edit \/ UNCHANGED vars
    <2>1. UNCHANGED <<row, derived>>
        BY <1>1 DEF StartRun, HashNext, HashFails, Skip, AddNew, UnlinkMd,
            UnlinkPages, ConvertFails, WritePageMap, Finish, Crash, Edit, vars,
            catalog
    <2> QED BY <2>1
<1>2. CASE Move
    <2>1. \A c \in Contents : row[c] # Nil =>
             row'[c] # Nil /\ row'[c].visible = row[c].visible
        BY <1>2 DEF Move, AtItem, UpdateRelPath, Rows, Snapshots, MaybeContent
    <2> QED BY <1>2, <2>1 DEF Move
<1>3. CASE Replace
    <2>1. PICK c \in Contents : DeleteRow(c)
        BY <1>3, ReplaceTarget
    <2> QED BY <2>1 DEF DeleteRow, DeleteFile
<1>4. CASE Delete
    BY <1>4 DEF Delete, DeleteRow, DeleteFile
<1>5. CASE WriteMd
    <2>1. \A c \in Contents : derived'[c] # Nil => derived[c] # Nil
        BY <1>5 DEF WriteMd, Age
    <2> QED BY <1>5, <2>1 DEF WriteMd
<1>6. CASE Upsert
    BY <1>6 DEF Upsert, UpsertFile
<1>7. CASE Judge
    BY <1>7 DEF Judge
<1> QED
    BY <1>1, <1>2, <1>3, <1>4, <1>5, <1>6, <1>7 DEF Next, RunStep

\* No card or verdict outlives the row it is keyed by, and none is left beside
\* a row that has stopped being visible: a reconversion that fails does not
\* keep the answers of the one that did not, since the upsert is a replacement.
THEOREM DerivedBelongs == Spec => []DerivedHasRow
<1>1. Init => DerivedHasRow
    BY DEF Init, DerivedHasRow
<1>2. Spec => []Typed
    BY TypedInit, TypedNext, PTL DEF Spec
<1> QED BY <1>1, <1>2, DerivedNext, PTL DEF Spec

----------------------------------------------------------------------------
(* No two rows share a path.                                               *)

\* An item gives its content to the path it is at.
Given(p) ==
    seen[p] # Nil /\ Drift(seen, known, p) \in {"moved", "modified", "new"}

\* Where a row's path comes from: the index as the run found it, or an item
\* this run has handled.
RowOrigin ==
    \A c \in Contents : row[c] # Nil =>
        \/ known[row[c].path] = c
        \/ row[c].path < at /\ seen[row[c].path] = c /\ Given(row[c].path)

\* Once the item of a rewritten path is being handled, the path's old row no
\* longer claims it.
OldRowGone ==
    \A p \in Paths :
        /\ seen[p] # Nil /\ Drift(seen, known, p) = "modified"
        /\ p < at \/ (p = at /\ pc # "items")
        => ~(row[known[p]] # Nil /\ row[known[p]].path = p)

Working == pc \notin {"idle", "walk"}

RowInv ==
    /\ OneRowPerPath
    /\ pc = "walk" => \A c \in Contents : row[c] # Nil => known[row[c].path] = c
    /\ Working => RowOrigin /\ OldRowGone
    /\ Working /\ pc # "items" /\ at \in Paths =>
          Drift(seen, known, at) \in {"modified", "new", "unchanged"}

\* Rows of such origins, the rewritten paths' old ones gone, share no path.
LEMMA RowUnique == Typed /\ Working /\ RowOrigin /\ OldRowGone => OneRowPerPath
<1> SUFFICES ASSUME Typed, Working, RowOrigin, OldRowGone,
                    NEW c \in Contents, NEW d \in Contents,
                    row[c] # Nil, row[d] # Nil, row[c].path = row[d].path,
                    c # d
             PROVE  FALSE
    BY DEF OneRowPerPath
<1> DEFINE p == row[c].path
<1>1. p \in Paths
    BY DEF Typed, TypeOK, Rows
<1>2. ASSUME NEW x \in Contents, NEW y \in Contents, x # y,
             known[p] = x, row[x] # Nil, row[x].path = p,
             p < at, seen[p] = y, Given(p)
      PROVE  FALSE
    <2>1. Drift(seen, known, p) = "modified"
        BY <1>2 DEF Given, Drift, Unchanged
    <2> QED BY <1>1, <1>2, <2>1 DEF OldRowGone, Given
<1> QED BY <1>1, <1>2 DEF RowOrigin

\* What an item does to the rows: nothing, a removal, or giving one content
\* the path the run is at.
LEMMA RowsOnlyRemoved ==
    ASSUME Typed, RowInv, Working,
           \A c \in Contents : row'[c] \in {row[c], Nil},
           UNCHANGED <<known, seen>>, at' = at,
           \/ pc # "items"
           \/ pc' = "items"
           \/ at \in Paths => Drift(seen, known, at) # "modified"
           \/ row'[known[at]] = Nil
    PROVE  RowOrigin' /\ OldRowGone'
<1>1. RowOrigin'
    BY DEF RowInv, RowOrigin, Given
<1>2. OldRowGone'
    <2> SUFFICES ASSUME NEW p \in Paths, seen[p] # Nil,
                        Drift(seen, known, p) = "modified",
                        p < at \/ (p = at /\ pc' # "items"),
                        row'[known[p]] # Nil, row'[known[p]].path = p
                 PROVE  FALSE
        BY DEF OldRowGone
    <2>1. known[p] \in Contents
        BY DEF Drift, Typed, TypeOK, Snapshots, MaybeContent
    <2>2. row[known[p]] # Nil /\ row[known[p]].path = p
        BY <2>1
    <2> QED BY <2>1, <2>2 DEF RowInv, OldRowGone
<1> QED BY <1>1, <1>2

\* A step that gives the content at hand the path at hand, or puts it back.
LEMMA RowGiven ==
    ASSUME Typed, RowInv, Working, pc' = "items", at \in Paths, at' = at + 1,
           seen[at] \in Contents,
           \A c \in Contents \ {seen[at]} : row'[c] = row[c],
           row'[seen[at]] # Nil => row'[seen[at]].path = at,
           \/ Given(at) /\ (Drift(seen, known, at) = "modified" => pc # "items")
           \/ known[at] = seen[at],
           UNCHANGED <<known, seen>>
    PROVE  RowOrigin' /\ OldRowGone'
<1>1. RowOrigin'
    <2> SUFFICES ASSUME NEW c \in Contents, row'[c] # Nil
                 PROVE  \/ known[row'[c].path] = c
                        \/ /\ row'[c].path < at + 1
                           /\ seen[row'[c].path] = c
                           /\ Given(row'[c].path)
        BY DEF RowOrigin, Given
    <2>1. CASE c = seen[at]
        BY <2>1 DEF Paths
    <2>2. CASE c # seen[at]
        <3>1. row[c] # Nil /\ row'[c].path = row[c].path /\ row[c].path \in Paths
            BY <2>2 DEF Typed, TypeOK, Rows
        <3> QED BY <3>1 DEF RowInv, RowOrigin, Working, Paths
    <2> QED BY <2>1, <2>2
<1>2. OldRowGone'
    <2> SUFFICES ASSUME NEW p \in Paths, seen[p] # Nil,
                        Drift(seen, known, p) = "modified", p < at + 1,
                        row'[known[p]] # Nil, row'[known[p]].path = p
                 PROVE  FALSE
        BY DEF OldRowGone
    <2>1. known[p] \in Contents
        BY DEF Drift, Typed, TypeOK, Snapshots, MaybeContent
    <2>2. CASE p = at
        <3>1. known[at] # seen[at] /\ pc # "items"
            BY <2>2 DEF Drift, Unchanged
        <3>2. row[known[at]] # Nil /\ row[known[at]].path = at
            BY <2>1, <2>2, <3>1
        <3> QED BY <2>2, <3>1, <3>2 DEF RowInv, OldRowGone, Working
    <2>3. CASE p # at
        <3>1. p < at
            BY <2>3 DEF Paths
        <3>2. known[p] # seen[at]
            BY <2>3
        <3> QED BY <2>1, <3>1, <3>2 DEF RowInv, OldRowGone, Working
    <2> QED BY <2>2, <2>3
<1> QED BY <1>1, <1>2

\* Every step keeps the rows' origins.
LEMMA RowNext == Typed /\ RowInv /\ [Next]_vars => RowInv'
<1> SUFFICES ASSUME Typed, RowInv, [Next]_vars PROVE RowInv'
    OBVIOUS
<1> DEFINE Kind == Working /\ pc # "items" /\ at \in Paths =>
                      Drift(seen, known, at) \in {"modified", "new", "unchanged"}
<1>0. Typed'
    BY TypedNext
<1>u. (Typed /\ Working /\ RowOrigin /\ OldRowGone => OneRowPerPath)'
    BY RowUnique, PTL
\* Between items, and for what is no step of a run's work.
<1>a. ASSUME Working', RowOrigin', OldRowGone', Kind'
      PROVE  RowInv'
    BY <1>0, <1>u, <1>a DEF RowInv, Working
<1>b. ASSUME pc' = "idle", row' = row
      PROVE  RowInv'
    BY <1>b DEF RowInv, OneRowPerPath, Working
<1>1. CASE StartRun
    <2>1. /\ row' = row /\ pc' = "walk"
          /\ known' \in KnownFiles
        BY <1>1 DEF StartRun, catalog
    <2>2. ASSUME NEW c \in Contents, row[c] # Nil PROVE known'[row[c].path] = c
        <3>1. row[c].path \in Paths
            BY <2>2 DEF Typed, TypeOK, Rows
        <3>2. /\ known'[row[c].path] # Nil
              /\ known'[row[c].path] \in MaybeContent
              /\ row[known'[row[c].path]] # Nil
              /\ row[known'[row[c].path]].path = row[c].path
            BY <2>1, <2>2, <3>1 DEF KnownFiles, Snapshots
        <3> QED BY <2>2, <3>2 DEF RowInv, OneRowPerPath, MaybeContent
    <2> QED BY <2>1, <2>2 DEF RowInv, OneRowPerPath, Working
<1>2. CASE HashNext
    <2>1. row' = row /\ pc = "walk"
        BY <1>2 DEF HashNext, catalog
    <2>2. CASE pc' = "walk"
        <3>1. known' = known
            BY <1>2, <2>2 DEF HashNext, EndRun
        <3> QED BY <2>1, <2>2, <3>1 DEF RowInv, OneRowPerPath, Working
    <2>3. CASE pc' = "items"
        <3>1. known' = known /\ at' = 1
            BY <1>2, <2>1, <2>3 DEF HashNext, EndRun
        <3>2. RowOrigin' /\ OldRowGone'
            BY <2>1, <2>3, <3>1 DEF RowInv, RowOrigin, OldRowGone, Paths
        <3> QED BY <1>a, <2>3, <3>2 DEF Working
    <2>4. CASE pc' = "idle"
        BY <1>b, <2>1, <2>4
    <2> QED BY <1>2, <2>1, <2>2, <2>3, <2>4 DEF HashNext, EndRun
<1>3. CASE Skip
    <2>1. /\ UNCHANGED <<row, known, seen>> /\ at \in Paths /\ at' = at + 1
          /\ pc = "items" /\ pc' = "items"
          /\ seen[at] = Nil \/ Drift(seen, known, at) # "modified"
        BY <1>3 DEF Skip, AtItem, NextItem, catalog
    <2>2. RowOrigin'
        BY <2>1 DEF Typed, TypeOK, RowInv, Working, RowOrigin, Given, Paths, Rows
    <2>3. OldRowGone'
        BY <2>1 DEF RowInv, Working, OldRowGone, Paths
    <2> QED BY <1>a, <2>1, <2>2, <2>3 DEF Working
<1>4. CASE Move
    <2>1. /\ UNCHANGED <<known, seen>> /\ at \in Paths /\ at' = at + 1
          /\ pc = "items" /\ pc' = "items" /\ seen[at] \in Contents
          /\ Given(at) /\ Drift(seen, known, at) # "modified"
        BY <1>4 DEF Move, AtItem, NextItem, Given, Typed, TypeOK, Snapshots,
                    MaybeContent
    <2>2. /\ \A c \in Contents \ {seen[at]} : row'[c] = row[c]
          /\ row'[seen[at]] # Nil => row'[seen[at]].path = at
        BY <1>4, <2>1 DEF Move, UpdateRelPath, Typed, TypeOK, Rows
    <2>3. RowOrigin' /\ OldRowGone'
        BY <2>1, <2>2, RowGiven DEF Working
    <2> QED BY <1>a, <2>1, <2>3 DEF Working
<1>5. CASE Replace
    <2>1. /\ UNCHANGED <<known, seen, at>> /\ at \in Paths
          /\ pc = "items" /\ pc' = "unlink_md"
          /\ \/ Drift(seen, known, at) = "modified" /\ DeleteRow(known[at])
             \/ Drift(seen, known, at) = "unchanged" /\ DeleteRow(seen[at])
        BY <1>5 DEF Replace, AtItem, DeleteRow
    <2>2. \A c \in Contents : row'[c] \in {row[c], Nil}
        BY <2>1 DEF DeleteRow, DeleteFile, Typed, TypeOK
    <2>3. Drift(seen, known, at) = "modified" => row'[known[at]] = Nil
        <3>1. Drift(seen, known, at) = "modified" => known[at] \in Contents
            BY <2>1 DEF Drift, Typed, TypeOK, Snapshots, MaybeContent
        <3> QED BY <2>1, <3>1 DEF DeleteRow, DeleteFile, Typed, TypeOK
    <2>4. RowOrigin' /\ OldRowGone'
        BY <2>1, <2>2, <2>3, RowsOnlyRemoved DEF Working
    <2> QED BY <1>a, <2>1, <2>4 DEF Working
<1>6. CASE AddNew
    <2>1. /\ UNCHANGED <<row, known, seen, at>> /\ at \in Paths
          /\ pc = "items" /\ pc' = "convert"
          /\ Drift(seen, known, at) = "new"
        BY <1>6 DEF AddNew, AtItem, catalog
    <2>2. RowOrigin' /\ OldRowGone'
        BY <2>1, RowsOnlyRemoved DEF Working
    <2> QED BY <1>a, <2>1, <2>2 DEF Working
<1>7. CASE Delete
    <2>1. /\ UNCHANGED <<known, seen, at>> /\ at \notin Paths
          /\ pc = "items" /\ pc' = "unlink_md"
          /\ \A c \in Contents : row'[c] \in {row[c], Nil}
        BY <1>7 DEF Delete, DeleteRow, DeleteFile, Typed, TypeOK, Paths
    <2>2. RowOrigin' /\ OldRowGone'
        BY <2>1, RowsOnlyRemoved DEF Working
    <2> QED BY <1>a, <2>1, <2>2 DEF Working
<1>8. CASE UnlinkMd \/ UnlinkPages \/ ConvertFails \/ WriteMd \/ WritePageMap
    <2>1. /\ UNCHANGED <<row, known, seen, at>>
          /\ pc \notin {"idle", "walk", "items"}
          /\ pc' \notin {"idle", "walk"}
        BY <1>8 DEF UnlinkMd, UnlinkPages, ConvertFails, WriteMd, WritePageMap, catalog
    <2>2. RowOrigin' /\ OldRowGone'
        BY <2>1, RowsOnlyRemoved DEF Working
    <2>3. Kind'
        BY <2>1 DEF RowInv, Working
    <2> QED BY <1>a, <2>1, <2>2, <2>3 DEF Working
<1>9. CASE Upsert
    <2>1. /\ UNCHANGED <<known, seen>> /\ at \in Paths /\ at' = at + 1
          /\ pc = "upsert" /\ pc' = "items" /\ seen[at] \in Contents
          /\ Drift(seen, known, at) \in {"modified", "new", "unchanged"}
        BY <1>9 DEF Upsert, NextItem, Typed, Control, RowInv, Working
    <2>2. /\ \A c \in Contents \ {seen[at]} : row'[c] = row[c]
          /\ row'[seen[at]].path = at
        BY <1>9, <2>1 DEF Upsert, UpsertFile, Typed, TypeOK
    <2>3. Given(at) \/ known[at] = seen[at]
        BY <2>1 DEF Given, Drift, Unchanged
    <2>4. RowOrigin' /\ OldRowGone'
        BY <2>1, <2>2, <2>3, RowGiven DEF Working
    <2> QED BY <1>a, <2>1, <2>4 DEF Working
<1>10. CASE Finish \/ Crash \/ HashFails
    BY <1>10, <1>b DEF Finish, Crash, HashFails, EndRun, catalog
<1>11. CASE Edit \/ Judge \/ UNCHANGED vars
    <2>1. UNCHANGED <<row, pc, known, seen, at>>
        BY <1>11 DEF Edit, Judge, vars, catalog, runVars
    <2> QED BY <2>1 DEF RowInv, OneRowPerPath, Working, RowOrigin, OldRowGone, Given
<1> QED
    BY <1>1, <1>2, <1>3, <1>4, <1>5, <1>6, <1>7, <1>8, <1>9, <1>10, <1>11
    DEF Next, RunStep

\* One process indexing, the catalog never holds two rows for one path,
\* though no constraint of the schema says so: known_files() loses nothing,
\* and every row can be found again by discover().
THEOREM RowsUnique == Spec => []OneRowPerPath
<1>1. Init => RowInv
    BY DEF Init, RowInv, OneRowPerPath, Working
<1>2. Spec => []Typed
    BY TypedInit, TypedNext, PTL DEF Spec
<1>3. Spec => []RowInv
    BY <1>1, <1>2, RowNext, PTL DEF Spec
<1> QED BY <1>3, PTL DEF RowInv

----------------------------------------------------------------------------
(* What a run remembers.                                                   *)

USE AgeAssumption

\* The item being replaced or converted is one the walk classified as work.
Chosen ==
    \/ Drift(seen, known, at) \in {"modified", "new"}
    \/ Drift(seen, known, at) = "unchanged" /\ at \in force

\* The index as read gives no content two paths; the walk is the corpus as
\* long as nobody edits it; what is left to delete was found DELETED.
MemoryInv ==
    /\ Keyed(known)
    /\ pc # "idle" /\ quiet => seen = disk
    /\ settled >= 1 => quiet
    /\ Working => gone \subseteq Gone(seen, known)
    /\ (Working /\ pc # "items" /\ at \in Paths) => Chosen

\* known_files() never gives one content to two paths: a row has one path.
LEMMA KnownFilesKeyed ==
    ASSUME NEW k \in KnownFiles
    PROVE  Keyed(k)
BY DEF KnownFiles, Keyed

\* Between two steps on the same item the run's memory stands still.
LEMMA MemoryKept ==
    ASSUME MemoryInv, Working,
           UNCHANGED <<disk, known, seen, quiet, settled>>, gone' \subseteq gone,
           (pc' \notin {"idle", "walk", "items"} /\ at' \in Paths) =>
               at' = at /\ force' = force /\ Chosen,
           pc' \notin {"idle", "walk"}
    PROVE  MemoryInv'
BY DEF MemoryInv, Working, Chosen

\* Every step keeps what a run remembers true.
LEMMA MemoryNext == Typed /\ MemoryInv /\ [Next]_vars => MemoryInv'
<1> SUFFICES ASSUME Typed, MemoryInv, [Next]_vars PROVE MemoryInv'
    OBVIOUS
<1>i. ASSUME EndRun, settled' >= 1 => quiet' PROVE MemoryInv'
    BY <1>i DEF EndRun, MemoryInv, Working, Keyed, NoFiles
<1>1. CASE StartRun
    <2>1. Keyed(known')
        BY <1>1, KnownFilesKeyed DEF StartRun
    <2> QED BY <1>1, <2>1 DEF StartRun, MemoryInv, Working
<1>2. CASE HashNext
    <2> DEFINE s == [seen EXCEPT ![at] = IF @ = Nil THEN Nil ELSE disk[at]]
    <2>1. pc = "walk" /\ UNCHANGED <<disk, quiet, settled>> /\ at \in Paths
        BY <1>2 DEF HashNext, ghosts, Typed, Control
    <2>2. quiet => s = disk
        BY <2>1 DEF MemoryInv, Typed, TypeOK, Snapshots
    <2>3. CASE seen' = s /\ pc' = pc /\ known' = known
        BY <2>1, <2>2, <2>3 DEF MemoryInv, Working
    <2>4. CASE seen' = s /\ pc' = "items" /\ known' = known /\ gone' = Gone(s, known)
        BY <2>1, <2>2, <2>4 DEF MemoryInv, Working
    <2>5. CASE EndRun
        BY <1>i, <2>1, <2>5 DEF MemoryInv
    <2> QED BY <1>2, <2>3, <2>4, <2>5 DEF HashNext
<1>3. CASE Skip \/ Move \/ Upsert
    <2>1. /\ Working /\ UNCHANGED <<disk, known, seen, quiet, settled, gone>>
          /\ pc' = "items"
        BY <1>3 DEF Skip, Move, Upsert, AtItem, NextItem, ghosts, Working
    <2> QED BY <2>1, MemoryKept
<1>4. CASE Replace \/ AddNew
    <2>1. /\ Working /\ UNCHANGED <<disk, known, seen, quiet, settled, gone, at, force>>
          /\ pc' \in {"unlink_md", "convert"}
        BY <1>4 DEF Replace, AddNew, AtItem, DeleteRow, ghosts, Working
    <2>2. Chosen
        BY <1>4 DEF Replace, AddNew, AtItem, Chosen
    <2> QED BY <2>1, <2>2, MemoryKept
<1>5. CASE Delete
    <2>1. /\ Working /\ UNCHANGED <<disk, known, seen, quiet, settled, at>>
          /\ gone' \subseteq gone /\ pc' = "unlink_md" /\ at \notin Paths
        BY <1>5 DEF Delete, DeleteRow, ghosts, Working, Paths
    <2> QED BY <2>1, MemoryKept
<1>6. CASE UnlinkMd \/ UnlinkPages \/ ConvertFails \/ WriteMd \/ WritePageMap
    <2>1. /\ Working /\ pc # "items"
          /\ UNCHANGED <<disk, known, seen, quiet, settled, gone, at, force>>
          /\ pc' \notin {"idle", "walk"}
        BY <1>6 DEF UnlinkMd, UnlinkPages, ConvertFails, WriteMd, WritePageMap,
                    ghosts, Working
    <2>2. at \in Paths => Chosen
        BY <2>1 DEF MemoryInv
    <2> QED BY <2>1, <2>2, MemoryKept
<1>7. CASE Finish
    <2>1. settled' >= 1 => quiet'
        BY <1>7 DEF Finish
    <2> QED BY <1>7, <1>i, <2>1 DEF Finish
<1>8. CASE Crash \/ HashFails
    BY <1>8, <1>i DEF Crash, HashFails
<1>9. CASE Edit
    BY <1>9 DEF Edit, runVars, MemoryInv, Working, Chosen
<1>10. CASE Judge \/ UNCHANGED vars
    BY <1>10 DEF Judge, vars, runVars, ghosts, MemoryInv, Working, Chosen
<1> QED
    BY <1>1, <1>2, <1>3, <1>4, <1>5, <1>6, <1>7, <1>8, <1>9, <1>10
    DEF Next, RunStep

\* It is true in every reachable state.
LEMMA MemoryHolds == Spec => [](Typed /\ MemoryInv)
<1>1. Init => MemoryInv
    BY DEF Init, MemoryInv, Keyed, NoFiles, Working
<1>2. Spec => []Typed
    BY TypedInit, TypedNext, PTL DEF Spec
<1> QED BY <1>1, <1>2, MemoryNext, PTL DEF Spec

\* An indexed path that still holds its content owns it, so an item at another
\* path is never one that writes this content.
LEMMA ChosenOwns ==
    ASSUME Typed, MemoryInv, at \in Paths, seen[at] # Nil, Chosen,
           NEW p \in Paths, Unchanged(seen, known, p), seen[p] = seen[at]
    PROVE  p = at /\ at \in force
<1>1. CASE Drift(seen, known, at) \in {"modified", "new"}
    BY <1>1 DEF Drift, Owns
<1>2. CASE Drift(seen, known, at) = "unchanged" /\ at \in force
    BY <1>2 DEF Drift, Unchanged, MemoryInv, Keyed
<1> QED BY <1>1, <1>2 DEF Chosen

\* No run throws away the cards and verdicts of a file that is where the index
\* says and that nobody forced: an upsert, a replacement and a deletion each
\* name another content, and no other step of a run drops any.
THEOREM PaidIsKept == Spec => KeepsUnchanged
<1> DEFINE Kept ==
        \A c \in Contents :
           derived[c] # Nil /\ derived'[c] = Nil =>
              ~\E p \in Paths : /\ Unchanged(seen, known, p) /\ seen[p] = c
                                /\ p \notin force
<1>1. ASSUME Typed, MemoryInv, [Next]_vars PROVE Kept
    <2> SUFFICES ASSUME NEW c \in Contents, derived[c] # Nil, derived'[c] = Nil,
                        NEW p \in Paths, Unchanged(seen, known, p), seen[p] = c
                 PROVE  p \in force
        OBVIOUS
    <2> USE <1>1
    <2>0. derived \in [Contents -> Ages]
        BY DEF Typed, TypeOK
    <2>1. CASE \/ StartRun \/ HashNext \/ HashFails \/ Skip \/ Move \/ AddNew
               \/ UnlinkMd \/ UnlinkPages \/ ConvertFails \/ WritePageMap
               \/ Finish \/ Crash \/ Edit \/ UNCHANGED vars
        BY <2>1 DEF StartRun, HashNext, HashFails, Skip, Move, AddNew, UnlinkMd,
            UnlinkPages, ConvertFails, WritePageMap, Finish, Crash, Edit, vars,
            catalog
    <2>2. CASE WriteMd \/ Judge
        BY <2>0, <2>2 DEF WriteMd, Judge, Age
    <2>3. CASE Delete
        <3>1. c \in gone
            BY <2>0, <2>3 DEF Delete, DeleteRow, DeleteFile
        <3>2. c \in Gone(seen, known)
            BY <2>3, <3>1 DEF MemoryInv, Working, Delete
        <3> QED BY <3>2 DEF Gone, Holds
    <2>4. CASE Replace
        <3>1. CASE AtItem({"modified"}) /\ DeleteRow(known[at])
            <4>1. known[at] = c
                BY <2>0, <3>1 DEF DeleteRow, DeleteFile
            <4>2. p = at
                BY <3>1, <4>1 DEF AtItem, Unchanged, MemoryInv, Keyed
            <4> QED BY <3>1, <4>2 DEF AtItem, Drift
        <3>2. CASE AtItem({"unchanged"}) /\ at \in force /\ DeleteRow(seen[at])
            <4>1. seen[at] = c
                BY <2>0, <3>2 DEF DeleteRow, DeleteFile
            <4> QED BY <3>2, <4>1, ChosenOwns DEF AtItem, Chosen
        <3> QED BY <2>4, <3>1, <3>2 DEF Replace
    <2>5. CASE Upsert
        <3>1. seen[at] = c /\ at \in Paths /\ Chosen
            BY <2>0, <2>5 DEF Upsert, UpsertFile, MemoryInv, Working, Typed, Control
        <3> QED BY <3>1, ChosenOwns
    <2> QED BY <2>1, <2>2, <2>3, <2>4, <2>5 DEF Next, RunStep
<1>2. Typed /\ MemoryInv /\ [Next]_vars => [Kept]_vars
    BY <1>1
<1> QED BY <1>2, MemoryHolds, PTL DEF Spec, KeepsUnchanged

\* The text a run files under a hash is that of the bytes the hash is of,
\* unless somebody edits the corpus between the hashing and the conversion.
THEOREM FiledUnderItsHash == Spec => MisfiledOnlyByEdit
<1> DEFINE Filed ==
        \A c \in Contents : md'[c] # md[c] /\ md'[c] \notin {Nil, c} => ~quiet
<1>1. ASSUME Typed, MemoryInv, [Next]_vars PROVE Filed
    <2> SUFFICES ASSUME NEW c \in Contents, md'[c] # md[c], md'[c] \notin {Nil, c}
                 PROVE  ~quiet
        OBVIOUS
    <2> USE <1>1
    <2>0. md \in [Contents -> MaybeContent]
        BY DEF Typed, TypeOK
    <2>1. CASE WriteMd
        <3>1. c = seen[at] /\ md'[c] = disk[at] /\ pc = "convert"
            BY <2>0, <2>1 DEF WriteMd
        <3> QED BY <3>1 DEF MemoryInv
    <2>2. CASE UnlinkMd
        BY <2>0, <2>2 DEF UnlinkMd
    <2>3. CASE ~(WriteMd \/ UnlinkMd)
        <3>1. md' = md
            BY <2>3 DEF Next, RunStep, StartRun, HashNext, HashFails, Skip, Move,
                Replace, AddNew, Delete, UnlinkPages, ConvertFails, WritePageMap,
                Upsert, Finish, Crash, Edit, Judge, vars, cache
        <3> QED BY <3>1
    <2> QED BY <2>1, <2>2, <2>3
<1>2. Typed /\ MemoryInv /\ [Next]_vars => [Filed]_vars
    BY <1>1
<1> QED BY <1>2, MemoryHolds, PTL DEF Spec, MisfiledOnlyByEdit

----------------------------------------------------------------------------
(* What a run keeps.                                                       *)

\* Every indexed path that still holds its content, or has lost it to a path
\* that has it now, keeps its row but for the time its own item is in hand.
KeptInv ==
    /\ pc = "walk" => \A p \in Paths : known[p] # Nil => row[known[p]] # Nil
    /\ Working =>
          \A p \in Paths :
             /\ known[p] # Nil
             /\ seen[p] = known[p] \/ (seen[p] = Nil /\ Holds(seen, known[p]))
             => row[known[p]] # Nil \/ (p = at /\ pc # "items")

\* A step that takes no row away, and finishes no item without its row.
LEMMA KeptOn ==
    ASSUME Typed, KeptInv, Working, UNCHANGED <<known, seen>>,
           \A c \in Contents : row[c] # Nil => row'[c] # Nil,
           \/ pc = "items"
           \/ at' = at /\ pc' # "items"
           \/ at \notin Paths
           \/ row'[seen[at]] # Nil /\ seen[at] # Nil,
           pc' \notin {"idle", "walk"}
    PROVE  KeptInv'
<1> SUFFICES ASSUME NEW p \in Paths, known[p] # Nil,
                    seen[p] = known[p] \/ (seen[p] = Nil /\ Holds(seen, known[p])),
                    row'[known[p]] = Nil
             PROVE  p = at' /\ pc' # "items"
    BY DEF KeptInv, Holds
<1>1. known[p] \in Contents
    BY DEF Typed, TypeOK, Snapshots, MaybeContent
<1>2. p = at /\ pc # "items"
    BY <1>1 DEF KeptInv
<1> QED BY <1>2

\* Every step keeps the rows that are to be kept.
LEMMA KeptNext == Typed /\ MemoryInv /\ KeptInv /\ [Next]_vars => KeptInv'
<1> SUFFICES ASSUME Typed, MemoryInv, KeptInv, [Next]_vars PROVE KeptInv'
    OBVIOUS
<1>0. row \in [Contents -> Rows \cup {Nil}]
    BY DEF Typed, TypeOK
<1>i. ASSUME EndRun PROVE KeptInv'
    BY <1>i DEF EndRun, KeptInv, Working
<1>1. CASE StartRun
    BY <1>1 DEF StartRun, KnownFiles, catalog, KeptInv, Working
<1>2. CASE HashNext
    <2>1. pc = "walk" /\ row' = row
        BY <1>2 DEF HashNext, catalog
    <2>2. CASE known' = known /\ pc' \in {"walk", "items"}
        BY <2>1, <2>2 DEF KeptInv, Working
    <2> QED BY <1>2, <1>i, <2>1, <2>2 DEF HashNext
<1>3. CASE \/ Skip \/ AddNew \/ UnlinkMd \/ UnlinkPages \/ ConvertFails
           \/ WriteMd \/ WritePageMap
    <2>1. /\ Working /\ UNCHANGED <<row, known, seen>> /\ pc' \notin {"idle", "walk"}
          /\ pc = "items" \/ (at' = at /\ (pc' # "items" \/ at \notin Paths))
        BY <1>3 DEF Skip, AddNew, AtItem, NextItem, UnlinkMd, UnlinkPages,
            ConvertFails, WriteMd, WritePageMap, catalog, Working
    <2> QED BY <2>1, KeptOn
<1>4. CASE Move
    <2>1. /\ Working /\ UNCHANGED <<known, seen>> /\ pc = "items" /\ pc' = "items"
        BY <1>4 DEF Move, AtItem, NextItem, Working
    <2>2. \A c \in Contents : row[c] # Nil => row'[c] # Nil
        BY <1>0, <1>4 DEF Move, AtItem, UpdateRelPath, Rows
    <2> QED BY <2>1, <2>2, KeptOn
<1>5. CASE Replace
    <2>1. /\ pc = "items" /\ pc' = "unlink_md" /\ at \in Paths /\ at' = at
          /\ seen[at] # Nil /\ UNCHANGED <<known, seen>>
          /\ DeleteFile(known[at])
        BY <1>5 DEF Replace, AtItem, DeleteRow, Drift, Unchanged
    <2>2. ASSUME NEW p \in Paths, p # at, known[p] # Nil, row[known[p]] # Nil
          PROVE  row'[known[p]] # Nil
        <3>1. known[p] # known[at] /\ known[p] \in Contents
            BY <2>1, <2>2 DEF MemoryInv, Keyed, Typed, TypeOK, Snapshots, MaybeContent
        <3> QED BY <1>0, <2>1, <2>2, <3>1 DEF DeleteFile
    <2> QED BY <2>1, <2>2 DEF KeptInv, Working, Holds
<1>6. CASE Delete
    <2>1. PICK c \in gone : DeleteFile(c)
        BY <1>6 DEF Delete, DeleteRow
    <2>2. /\ pc = "items" /\ pc' = "unlink_md" /\ at \notin Paths /\ at' = at
          /\ UNCHANGED <<known, seen>>
        BY <1>6 DEF Delete, DeleteRow, Paths
    <2>3. c \in Contents /\ ~Holds(seen, c)
        BY <2>1, <2>2 DEF MemoryInv, Working, Gone, Typed, TypeOK
    <2>4. ASSUME NEW p \in Paths, known[p] # Nil, row[known[p]] # Nil,
                 seen[p] = known[p] \/ (seen[p] = Nil /\ Holds(seen, known[p]))
          PROVE  row'[known[p]] # Nil
        <3>1. known[p] # c /\ known[p] \in Contents
            BY <2>3, <2>4 DEF Holds, Typed, TypeOK, Snapshots, MaybeContent
        <3> QED BY <1>0, <2>1, <2>4, <3>1 DEF DeleteFile
    <2> QED BY <2>2, <2>4 DEF KeptInv, Working, Holds
<1>7. CASE Upsert
    <2>1. /\ Working /\ UNCHANGED <<known, seen>> /\ pc' = "items"
          /\ seen[at] \in Contents /\ at \in Paths
        BY <1>7 DEF Upsert, NextItem, Working, Typed, Control
    <2>2. /\ \A c \in Contents : row[c] # Nil => row'[c] # Nil
          /\ row'[seen[at]] # Nil
        <3>1. [path |-> at, visible |-> visible] \in Rows
            BY <2>1 DEF Rows, Typed, TypeOK
        <3> QED BY <1>0, <1>7, <2>1, <3>1 DEF Upsert, UpsertFile
    <2> QED BY <2>1, <2>2, KeptOn
<1>8. CASE Finish \/ Crash \/ HashFails
    BY <1>8, <1>i DEF Finish, Crash, HashFails
<1>9. CASE Edit \/ Judge \/ UNCHANGED vars
    <2>1. UNCHANGED <<row, pc, known, seen, at>>
        BY <1>9 DEF Edit, Judge, vars, catalog, runVars
    <2> QED BY <2>1 DEF KeptInv, Working, Holds
<1> QED
    BY <1>1, <1>2, <1>3, <1>4, <1>5, <1>6, <1>7, <1>8, <1>9 DEF Next, RunStep

\* They are kept in every reachable state.
LEMMA KeptHolds == Spec => []KeptInv
<1>1. Init => KeptInv
    BY DEF Init, KeptInv, Working
<1> QED BY <1>1, KeptNext, MemoryHolds, PTL DEF Spec

\* A complete run over a corpus nobody touches loses no indexed file that the
\* corpus still holds, save one whose own path was rewritten with something
\* else while a copy of it lives elsewhere.
THEOREM LosesOnlyTheRewritten == Spec => LostOnlyIfRewritten
<1> DEFINE Lost ==
        Finish /\ quiet =>
          \A c \in Contents :
             Holds(known, c) /\ Holds(disk, c) /\ row[c] = Nil =>
                \E p \in Paths : known[p] = c /\ seen[p] \notin {Nil, c}
<1>1. ASSUME Typed, MemoryInv, KeptInv PROVE Lost
    <2> SUFFICES ASSUME Finish, quiet, NEW c \in Contents,
                        Holds(known, c), Holds(disk, c), row[c] = Nil
                 PROVE  \E p \in Paths : known[p] = c /\ seen[p] \notin {Nil, c}
        OBVIOUS
    <2>1. PICK p \in Paths : known[p] = c
        BY DEF Holds
    <2>2. seen = disk /\ pc = "items"
        BY <1>1 DEF Finish, MemoryInv
    <2>3. seen[p] \notin {Nil, c}
        BY <1>1, <2>1, <2>2 DEF KeptInv, Working
    <2> QED BY <2>1, <2>3
<1>2. Typed /\ MemoryInv /\ KeptInv => [Lost]_vars
    BY <1>1
<1> QED BY <1>2, MemoryHolds, KeptHolds, PTL DEF LostOnlyIfRewritten

----------------------------------------------------------------------------
(* What a complete run leaves.                                             *)

\* Every content on disk has an owner: the indexed path that still holds it,
\* or the first path in walk order.
LEMMA OwnerExists ==
    ASSUME NEW s \in Snapshots, NEW k \in Snapshots, NEW c \in Contents, Holds(s, c)
    PROVE  \E q \in Paths : s[q] = c /\ Owns(s, k, q)
<1> DEFINE Copies == {q \in Paths : s[q] = c}
<1>1. CASE \E q \in Copies : Unchanged(s, k, q)
    BY <1>1 DEF Owns
<1>2. CASE \A q \in Copies : ~Unchanged(s, k, q)
    <2>1. Copies \subseteq Nat /\ Copies # {}
        BY DEF Holds, Paths
    <2>2. PICK q \in Copies : \A r \in Copies : q <= r
        BY <2>1, LeastOf
    <2> QED BY <1>2, <2>2 DEF Owns
<1> QED BY <1>1, <1>2

\* And only one.
LEMMA OwnerUnique ==
    ASSUME NEW s \in Snapshots, NEW k \in Snapshots, Keyed(k),
           NEW p \in Paths, NEW q \in Paths, s[p] # Nil, s[p] = s[q],
           Owns(s, k, p), Owns(s, k, q)
    PROVE  p = q
BY DEF Owns, Unchanged, Keyed, Paths

\* An item that was handled and owns its content has given it its path, if the
\* content still has a row; a DELETED content has none.
HandledInv ==
    Working =>
       /\ \A p \in Paths : p < at /\ Given(p) /\ row[seen[p]] # Nil =>
             row[seen[p]].path = p
       /\ \A c \in Gone(seen, known) \ gone : row[c] = Nil

\* Steps that only take rows away.
LEMMA HandledRowsGo ==
    ASSUME Typed, HandledInv, Working,
           \A c \in Contents : row'[c] \in {row[c], Nil},
           UNCHANGED <<known, seen>>, at' = at,
           \A c \in gone \ gone' : row'[c] = Nil
    PROVE  HandledInv'
<1>1. Gone(seen, known) \subseteq Contents
    BY GoneType DEF Typed, TypeOK
<1>2. ASSUME NEW p \in Paths, Given(p) PROVE seen[p] \in Contents
    BY <1>2 DEF Given, Typed, TypeOK, Snapshots, MaybeContent
<1> QED BY <1>1, <1>2 DEF HandledInv, Given

\* Steps that give the content at hand the path at hand.
LEMMA HandledRowGiven ==
    ASSUME Typed, MemoryInv, HandledInv, Working, at \in Paths, at' = at + 1,
           seen[at] \in Contents, Owns(seen, known, at),
           \A c \in Contents \ {seen[at]} : row'[c] = row[c],
           row'[seen[at]] # Nil => row'[seen[at]].path = at,
           UNCHANGED <<known, seen, gone>>
    PROVE  HandledInv'
<1> USE DEF Typed, TypeOK
<1>1. ASSUME NEW p \in Paths, p < at + 1, Given(p), row'[seen[p]] # Nil
      PROVE  row'[seen[p]].path = p
    <2>1. CASE seen[p] = seen[at]
        <3>1. Owns(seen, known, p)
            BY <1>1 DEF Given, Drift, Owns
        <3>2. p = at
            BY <2>1, <3>1, OwnerUnique DEF MemoryInv
        <3> QED BY <3>2, <1>1
    <2>2. CASE seen[p] # seen[at]
        <3>1. seen[p] \in Contents
            BY <1>1 DEF Given, Snapshots, MaybeContent
        <3>2. p < at
            BY <1>1, <2>2 DEF Paths
        <3> QED BY <1>1, <2>2, <3>1, <3>2 DEF HandledInv
    <2> QED BY <2>1, <2>2
<1>2. ASSUME NEW c \in Gone(seen, known) \ gone PROVE row'[c] = Nil
    <2>1. c \in Contents /\ ~Holds(seen, c)
        BY GoneType DEF Gone
    <2>2. c # seen[at]
        BY <2>1 DEF Holds
    <2> QED BY <2>1, <2>2 DEF HandledInv
<1> QED BY <1>1, <1>2 DEF HandledInv, Given

\* Every step keeps the effects of the items before it.
LEMMA HandledNext == Typed /\ MemoryInv /\ RowInv /\ HandledInv /\ [Next]_vars => HandledInv'
<1> SUFFICES ASSUME Typed, MemoryInv, RowInv, HandledInv, [Next]_vars PROVE HandledInv'
    OBVIOUS
<1>0. row \in [Contents -> Rows \cup {Nil}]
    BY DEF Typed, TypeOK
<1>i. ASSUME EndRun PROVE HandledInv'
    BY <1>i DEF EndRun, HandledInv, Working
<1>1. CASE StartRun
    BY <1>1 DEF StartRun, HandledInv, Working
<1>2. CASE HashNext
    <2>1. pc = "walk"
        BY <1>2 DEF HashNext
    <2>2. CASE pc' = pc
        BY <2>1, <2>2 DEF HandledInv, Working
    <2>3. CASE at' = 1 /\ gone' = Gone(seen', known) /\ known' = known
        BY <2>3 DEF HandledInv, Paths
    <2> QED BY <1>2, <1>i, <2>2, <2>3 DEF HashNext
<1>3. CASE Skip
    <2>1. /\ Working /\ UNCHANGED <<row, known, seen, gone>> /\ at' = at + 1
          /\ at \in Paths /\ ~Given(at)
        BY <1>3 DEF Skip, AtItem, NextItem, catalog, Working, Given
    <2>2. ASSUME NEW p \in Paths, p < at + 1, Given(p) PROVE p < at
        BY <2>1, <2>2 DEF Paths
    <2> QED BY <2>1, <2>2 DEF HandledInv, Given
<1>4. CASE Move
    <2>1. /\ Working /\ UNCHANGED <<known, seen, gone>> /\ at' = at + 1
          /\ at \in Paths /\ seen[at] \in Contents /\ Owns(seen, known, at)
        BY <1>4 DEF Move, AtItem, NextItem, Working, Drift, Typed, TypeOK,
            Snapshots, MaybeContent
    <2>2. /\ \A c \in Contents \ {seen[at]} : row'[c] = row[c]
          /\ row'[seen[at]] # Nil => row'[seen[at]].path = at
        BY <1>0, <1>4, <2>1 DEF Move, UpdateRelPath, Rows
    <2> QED BY <2>1, <2>2, HandledRowGiven
<1>5. CASE Replace
    <2>1. PICK c \in Contents : DeleteRow(c)
        BY <1>5, ReplaceTarget DEF Typed
    <2>2. \A d \in Contents : row'[d] \in {row[d], Nil}
        BY <1>0, <2>1 DEF DeleteRow, DeleteFile
    <2> QED BY <1>5, <2>2, HandledRowsGo DEF Replace, AtItem, Working
<1>6. CASE Delete
    <2>1. PICK c \in gone : DeleteRow(c) /\ gone' = gone \ {c}
        BY <1>6 DEF Delete
    <2>2. /\ \A d \in Contents : row'[d] \in {row[d], Nil}
          /\ row'[c] = Nil
        BY <1>0, <2>1 DEF DeleteRow, DeleteFile, Typed, TypeOK
    <2> QED BY <1>6, <2>1, <2>2, HandledRowsGo DEF Delete, Working
<1>7. CASE AddNew \/ UnlinkMd \/ UnlinkPages \/ ConvertFails \/ WriteMd \/ WritePageMap
    <2>1. Working /\ UNCHANGED <<row, known, seen, gone, at>>
        BY <1>7 DEF AddNew, AtItem, UnlinkMd, UnlinkPages, ConvertFails, WriteMd,
            WritePageMap, catalog, Working
    <2> QED BY <2>1, HandledRowsGo
<1>8. CASE Upsert
    <2>1. /\ Working /\ UNCHANGED <<known, seen, gone>> /\ at' = at + 1
          /\ at \in Paths /\ seen[at] \in Contents
        BY <1>8 DEF Upsert, NextItem, Working, Typed, Control
    <2>2. Owns(seen, known, at)
        BY <1>8 DEF Upsert, RowInv, Working, Typed, Control, Drift, Owns
    <2>3. /\ \A c \in Contents \ {seen[at]} : row'[c] = row[c]
          /\ row'[seen[at]].path = at
        BY <1>0, <1>8, <2>1 DEF Upsert, UpsertFile
    <2> QED BY <2>1, <2>2, <2>3, HandledRowGiven
<1>9. CASE Finish \/ Crash \/ HashFails
    BY <1>9, <1>i DEF Finish, Crash, HashFails
<1>10. CASE Edit \/ Judge \/ UNCHANGED vars
    <2>1. UNCHANGED <<row, pc, known, seen, gone, at>>
        BY <1>10 DEF Edit, Judge, vars, catalog, runVars
    <2> QED BY <2>1 DEF HandledInv, Working, Given
<1> QED
    BY <1>1, <1>2, <1>3, <1>4, <1>5, <1>6, <1>7, <1>8, <1>9, <1>10 DEF Next, RunStep

\* When the last item is done every row stands for a file that is there: an
\* indexed path that lost its content was rewritten (and its row replaced), or
\* is gone (and deleted), or the content was moved or kept by its new owner.
LEMMA RunSettles ==
    ASSUME Typed, MemoryInv, RowInv, HandledInv, pc = "items", at = NPaths + 1,
           gone = {}, NEW c \in Contents, row[c] # Nil
    PROVE  seen[row[c].path] = c
<1> DEFINE p == row[c].path
<1> SUFFICES ASSUME seen[p] # c PROVE FALSE
    OBVIOUS
<1>0. /\ seen \in Snapshots /\ known \in Snapshots /\ NPaths \in Nat
      /\ p \in Paths /\ Keyed(known) /\ Working
    BY DEF Typed, TypeOK, Rows, MemoryInv, Working
<1>1. \A q \in Paths : q < at
    BY DEF Paths
<1>2. known[p] = c
    BY <1>0 DEF RowInv, RowOrigin
<1>3. CASE Holds(seen, c)
    <2>1. PICK q \in Paths : seen[q] = c /\ Owns(seen, known, q)
        BY <1>0, <1>3, OwnerExists
    <2>2. ~Unchanged(seen, known, q)
        BY <1>0, <1>2, <2>1 DEF Unchanged, Keyed
    <2>3. Given(q)
        BY <1>0, <1>2, <2>1, <2>2 DEF Given, Drift, Holds
    <2>4. row[c].path = q
        BY <1>0, <1>1, <2>1, <2>3 DEF HandledInv
    <2> QED BY <2>1, <2>4
<1>4. CASE ~Holds(seen, c)
    <2>1. CASE p \in ModifiedPaths(seen, known)
        BY <1>0, <1>1, <1>2, <2>1 DEF ModifiedPaths, RowInv, OldRowGone
    <2>2. CASE p \notin ModifiedPaths(seen, known)
        <3>1. c \in Gone(seen, known)
            BY <1>0, <1>2, <1>4, <2>2 DEF Gone
        <3> QED BY <1>0, <3>1 DEF HandledInv
    <2> QED BY <2>1, <2>2
<1> QED BY <1>3, <1>4

\* After one complete quiet run, and as long as nobody edits: every row gives
\* a path that holds its content, and what the next run reads as indexed is
\* where it reads it.
SettledInv ==
    settled >= 1 =>
       /\ \A c \in Contents : row[c] # Nil => disk[row[c].path] = c
       /\ pc # "idle" => \A p \in Paths : known[p] \in {Nil, seen[p]}

\* Steps that take rows away, or give the content at hand the path at hand.
LEMMA SettledOn ==
    ASSUME Typed, SettledInv, UNCHANGED <<disk, known, seen>>, pc # "idle",
           settled' >= 1 => settled >= 1,
           \A c \in Contents : \/ row'[c] \in {row[c], Nil}
                               \/ row'[c] # Nil /\ disk[row'[c].path] = c
    PROVE  SettledInv'
BY DEF SettledInv

\* Every step keeps a settled index settled, or says it is not.
LEMMA SettledNext ==
    Typed /\ MemoryInv /\ RowInv /\ HandledInv /\ SettledInv /\ [Next]_vars => SettledInv'
<1> SUFFICES ASSUME Typed, MemoryInv, RowInv, HandledInv, SettledInv, [Next]_vars
             PROVE  SettledInv'
    OBVIOUS
<1>0. row \in [Contents -> Rows \cup {Nil}]
    BY DEF Typed, TypeOK
<1>i. ASSUME EndRun, UNCHANGED <<disk, row>>, settled' >= 1 => settled >= 1
      PROVE  SettledInv'
    BY <1>i DEF EndRun, SettledInv
<1>1. CASE StartRun
    <2> SUFFICES ASSUME settled >= 1, NEW p \in Paths, known'[p] # Nil
                 PROVE  known'[p] = disk[p]
        BY <1>1 DEF StartRun, catalog, SettledInv
    <2>1. /\ known'[p] \in Contents /\ row[known'[p]] # Nil
          /\ row[known'[p]].path = p
        BY <1>1 DEF StartRun, KnownFiles, Snapshots, MaybeContent
    <2> QED BY <2>1 DEF SettledInv
<1>2. CASE HashNext
    <2> DEFINE s == [seen EXCEPT ![at] = IF @ = Nil THEN Nil ELSE disk[at]]
    <2>1. pc = "walk" /\ at \in Paths /\ UNCHANGED <<disk, row, quiet, settled>>
        BY <1>2 DEF HashNext, catalog, ghosts, Typed, Control
    <2>2. settled >= 1 => s = seen
        BY <2>1 DEF MemoryInv, Typed, TypeOK, Snapshots
    <2>3. CASE seen' = s /\ known' = known
        BY <2>1, <2>2, <2>3 DEF SettledInv
    <2> QED BY <1>2, <1>i, <2>1, <2>3 DEF HashNext
<1>3. CASE \/ Skip \/ AddNew \/ UnlinkMd \/ UnlinkPages \/ ConvertFails
           \/ WriteMd \/ WritePageMap
    <2>1. UNCHANGED <<disk, row, known, seen, settled>> /\ pc # "idle"
        BY <1>3 DEF Skip, AddNew, AtItem, UnlinkMd, UnlinkPages, ConvertFails,
            WriteMd, WritePageMap, catalog, ghosts
    <2> QED BY <2>1, SettledOn
<1>4. CASE Replace \/ Delete
    <2>1. \E c \in Contents : DeleteRow(c)
        BY <1>4, ReplaceTarget DEF Typed, TypeOK, Delete
    <2>2. \A c \in Contents : row'[c] \in {row[c], Nil}
        BY <1>0, <2>1 DEF DeleteRow, DeleteFile
    <2>3. UNCHANGED <<disk, known, seen, settled>> /\ pc # "idle"
        BY <1>4 DEF Replace, Delete, AtItem, ghosts
    <2> QED BY <2>2, <2>3, SettledOn
<1>5. CASE Move \/ Upsert
    <2>1. /\ UNCHANGED <<disk, known, seen, quiet, settled>> /\ pc # "idle"
          /\ at \in Paths /\ seen[at] \in Contents
        BY <1>5 DEF Move, AtItem, Upsert, ghosts, Typed, TypeOK, Control,
            Snapshots, MaybeContent
    <2>2. /\ \A c \in Contents \ {seen[at]} : row'[c] = row[c]
          /\ row'[seen[at]] # Nil => row'[seen[at]].path = at
        BY <1>0, <1>5, <2>1 DEF Move, UpdateRelPath, Upsert, UpsertFile, Rows
    <2>3. settled >= 1 => disk[at] = seen[at]
        BY <2>1 DEF MemoryInv
    <2> QED BY <2>1, <2>2, <2>3 DEF SettledInv
<1>6. CASE Finish
    <2>1. EndRun /\ UNCHANGED <<disk, row>>
        BY <1>6 DEF Finish, catalog
    <2>2. CASE quiet
        <3>1. seen = disk
            BY <1>6, <2>2 DEF MemoryInv, Finish
        <3>2. \A c \in Contents : row[c] # Nil => disk[row[c].path] = c
            BY <1>6, <3>1, RunSettles DEF Finish
        <3> QED BY <2>1, <3>2 DEF SettledInv, EndRun
    <2>3. CASE ~quiet
        BY <1>6, <2>1, <2>3 DEF Finish, SettledInv
    <2> QED BY <2>2, <2>3
<1>7. CASE Crash \/ HashFails \/ Edit
    <2>1. settled' = 0
        BY <1>7 DEF Crash, HashFails, Edit
    <2> QED BY <2>1 DEF SettledInv
<1>8. CASE Judge \/ UNCHANGED vars
    BY <1>8 DEF Judge, vars, catalog, runVars, ghosts, SettledInv
<1> QED
    BY <1>1, <1>2, <1>3, <1>4, <1>5, <1>6, <1>7, <1>8 DEF Next, RunStep

\* A run over a settled corpus finds nothing moved, rewritten or gone.
LEMMA SettledDrift ==
    ASSUME NEW s \in Snapshots, NEW k \in Snapshots,
           \A p \in Paths : k[p] \in {Nil, s[p]}
    PROVE  /\ \A p \in Paths : s[p] # Nil =>
                 Drift(s, k, p) \in {"unchanged", "duplicate", "new"}
           /\ Gone(s, k) = {}
<1>1. ASSUME NEW p \in Paths, s[p] # Nil, ~Unchanged(s, k, p), Owns(s, k, p)
      PROVE  k[p] = Nil /\ ~Holds(k, s[p])
    BY <1>1 DEF Unchanged, Owns, Holds
<1>2. Gone(s, k) = {}
    BY DEF Gone, Holds
<1> QED BY <1>1, <1>2 DEF Drift

\* In a run over a settled corpus the new contents handled so far have rows,
\* and after it every content on disk has one.
FullInv ==
    /\ settled >= 1 /\ Working =>
          \A p \in Paths :
             p < at /\ seen[p] # Nil /\ Drift(seen, known, p) = "new" => row[seen[p]] # Nil
    /\ settled = 2 /\ pc \in {"idle", "walk"} =>
          \A c \in Contents : Holds(disk, c) => row[c] # Nil

RunInv == MemoryInv /\ RowInv /\ KeptInv /\ HandledInv /\ SettledInv

\* At the end of such a run every content on disk has a row: its owner was
\* unchanged and kept, or new and added.
LEMMA RunFills ==
    ASSUME Typed, RunInv, FullInv, settled >= 1, pc = "items", at = NPaths + 1,
           NEW c \in Contents, Holds(disk, c)
    PROVE  row[c] # Nil
<1>0. /\ seen \in Snapshots /\ known \in Snapshots /\ Working /\ seen = disk
      /\ \A p \in Paths : known[p] \in {Nil, seen[p]}
    BY DEF Typed, TypeOK, RunInv, MemoryInv, SettledInv, Working
<1>1. PICK q \in Paths : seen[q] = c /\ Owns(seen, known, q)
    BY <1>0, OwnerExists
<1>2. Drift(seen, known, q) \in {"unchanged", "new"}
    BY <1>0, <1>1, SettledDrift DEF Drift
<1>3. CASE Drift(seen, known, q) = "new"
    BY <1>0, <1>1, <1>3 DEF FullInv, Paths
<1>4. CASE Drift(seen, known, q) = "unchanged"
    <2>1. known[q] = c
        BY <1>0, <1>1, <1>4 DEF Drift, Unchanged
    <2> QED BY <1>0, <1>1, <2>1 DEF RunInv, KeptInv
<1> QED BY <1>2, <1>3, <1>4

\* A step of a run that takes no row of a handled new item away.
LEMMA FullOn ==
    ASSUME Typed, FullInv, Working, UNCHANGED <<known, seen, settled>>,
           pc' \notin {"idle", "walk"},
           \/ at' = at
           \/ /\ at' = at + 1 /\ at \in Paths
              /\ seen[at] # Nil /\ Drift(seen, known, at) = "new" => row'[seen[at]] # Nil,
           settled >= 1 =>
              \A p \in Paths :
                 /\ p < at /\ seen[p] # Nil /\ Drift(seen, known, p) = "new"
                 /\ row[seen[p]] # Nil
                 => row'[seen[p]] # Nil
    PROVE  FullInv'
<1> SUFFICES ASSUME settled >= 1, NEW p \in Paths, p < at', seen[p] # Nil,
                    Drift(seen, known, p) = "new"
             PROVE  row'[seen[p]] # Nil
    BY DEF FullInv, Working
<1>1. CASE p < at
    BY <1>1 DEF FullInv
<1>2. CASE ~(p < at)
    <2>1. p = at /\ at' = at + 1
        BY <1>2 DEF Paths
    <2>2. at' # at
        BY <2>1 DEF Paths
    <2>3. row'[seen[at]] # Nil
        BY <2>1, <2>2
    <2> QED BY <2>1, <2>3
<1> QED BY <1>1, <1>2

\* Every step keeps a full index full, or says it is not.
LEMMA FullNext == Typed /\ RunInv /\ FullInv /\ [Next]_vars => FullInv'
<1> SUFFICES ASSUME Typed, RunInv, FullInv, [Next]_vars PROVE FullInv'
    OBVIOUS
<1>0. /\ row \in [Contents -> Rows \cup {Nil}]
      /\ seen \in Snapshots /\ known \in Snapshots
    BY DEF Typed, TypeOK
<1>s. ASSUME settled >= 1, pc # "idle"
      PROVE  /\ seen = disk
             /\ \A p \in Paths : seen[p] # Nil =>
                   Drift(seen, known, p) \in {"unchanged", "duplicate", "new"}
             /\ Gone(seen, known) = {}
    <2>1. \A p \in Paths : known[p] \in {Nil, seen[p]}
        BY <1>s DEF RunInv, SettledInv
    <2>2. seen = disk
        BY <1>s DEF RunInv, MemoryInv
    <2> QED BY <1>0, <2>1, <2>2, SettledDrift
<1>1. CASE StartRun
    BY <1>1 DEF StartRun, catalog, FullInv, Working
<1>2. CASE HashNext
    <2>1. pc = "walk" /\ UNCHANGED <<disk, row, settled>>
        BY <1>2 DEF HashNext, catalog, ghosts
    <2>2. CASE pc' \in {"walk", "idle"}
        BY <2>1, <2>2 DEF FullInv, Working
    <2>3. CASE pc' = "items" /\ at' = 1
        BY <2>1, <2>3 DEF FullInv, Working, Paths
    <2> QED BY <1>2, <2>1, <2>2, <2>3 DEF HashNext, EndRun
<1>3. CASE AddNew \/ UnlinkMd \/ UnlinkPages \/ ConvertFails \/ WriteMd \/ WritePageMap
    <2>1. /\ Working /\ UNCHANGED <<row, known, seen, settled, at>>
          /\ pc' \notin {"idle", "walk"}
        BY <1>3 DEF AddNew, AtItem, UnlinkMd, UnlinkPages, ConvertFails, WriteMd,
            WritePageMap, catalog, ghosts, Working
    <2> QED BY <2>1, FullOn
<1>4. CASE Skip
    <2>1. /\ Working /\ UNCHANGED <<row, known, seen, settled>> /\ pc' = "items"
          /\ at' = at + 1 /\ at \in Paths
          /\ ~(seen[at] # Nil /\ Drift(seen, known, at) = "new")
        BY <1>4 DEF Skip, AtItem, NextItem, catalog, ghosts, Working
    <2> QED BY <2>1, FullOn
<1>5. CASE Move
    <2>1. /\ Working /\ UNCHANGED <<known, seen, settled>> /\ pc' = "items"
          /\ at' = at + 1 /\ at \in Paths
          /\ ~(seen[at] # Nil /\ Drift(seen, known, at) = "new")
        BY <1>5 DEF Move, AtItem, NextItem, ghosts, Working
    <2>2. \A c \in Contents : row[c] # Nil => row'[c] # Nil
        BY <1>0, <1>5 DEF Move, AtItem, UpdateRelPath, Rows
    <2>3. \A p \in Paths : seen[p] # Nil => seen[p] \in Contents
        BY <1>0 DEF Snapshots, MaybeContent
    <2> QED BY <2>1, <2>2, <2>3, FullOn
<1>6. CASE Replace
    <2>1. /\ Working /\ UNCHANGED <<known, seen, settled, at>> /\ pc' = "unlink_md"
          /\ at \in Paths /\ seen[at] # Nil
        BY <1>6 DEF Replace, AtItem, DeleteRow, ghosts, Working
    <2>2. ASSUME settled >= 1, NEW p \in Paths, p < at, seen[p] # Nil,
                 Drift(seen, known, p) = "new", row[seen[p]] # Nil
          PROVE  row'[seen[p]] # Nil
        <3>1. Drift(seen, known, at) = "unchanged" /\ DeleteFile(seen[at])
            BY <1>6, <1>s, <2>2 DEF Replace, AtItem, DeleteRow
        <3>2. seen[p] # seen[at]
            <4>1. Owns(seen, known, p) /\ Owns(seen, known, at)
                BY <2>2, <3>1 DEF Drift, Owns
            <4>2. p # at
                BY <2>1, <2>2 DEF Paths
            <4> QED BY <1>0, <2>1, <2>2, <4>1, <4>2, OwnerUnique DEF RunInv, MemoryInv
        <3>3. seen[p] \in Contents
            BY <1>0, <2>2 DEF Snapshots, MaybeContent
        <3> QED BY <1>0, <2>2, <3>1, <3>2, <3>3 DEF DeleteFile
    <2> QED BY <2>1, <2>2, FullOn
<1>7. CASE Delete
    <2>1. /\ Working /\ UNCHANGED <<known, seen, settled, at>> /\ pc' = "unlink_md"
          /\ pc # "idle" /\ gone # {}
        BY <1>7 DEF Delete, DeleteRow, ghosts, Working
    <2>2. ~(settled >= 1)
        BY <1>s, <2>1 DEF RunInv, MemoryInv
    <2> QED BY <2>1, <2>2, FullOn
<1>8. CASE Upsert
    <2>1. /\ Working /\ UNCHANGED <<known, seen, settled>> /\ pc' = "items"
          /\ at' = at + 1 /\ at \in Paths /\ seen[at] \in Contents
        BY <1>8 DEF Upsert, NextItem, ghosts, Working, Typed, Control
    <2>2. /\ \A c \in Contents : row[c] # Nil => row'[c] # Nil
          /\ row'[seen[at]] # Nil
        <3>1. [path |-> at, visible |-> visible] \in Rows
            BY <2>1 DEF Rows, Typed, TypeOK
        <3> QED BY <1>0, <1>8, <2>1, <3>1 DEF Upsert, UpsertFile
    <2>3. \A p \in Paths : seen[p] # Nil => seen[p] \in Contents
        BY <1>0 DEF Snapshots, MaybeContent
    <2> QED BY <2>1, <2>2, <2>3, FullOn
<1>9. CASE Finish
    <2>1. pc' = "idle" /\ UNCHANGED <<disk, row>>
        BY <1>9 DEF Finish, EndRun, catalog
    <2>2. settled' = 2 => settled >= 1
        BY <1>9 DEF Finish, Typed, TypeOK
    <2>3. settled >= 1 => \A c \in Contents : Holds(disk, c) => row[c] # Nil
        BY <1>9, RunFills DEF Finish
    <2> QED BY <2>1, <2>2, <2>3 DEF FullInv, Working
<1>10. CASE Crash \/ HashFails
    BY <1>10 DEF Crash, HashFails, EndRun, FullInv, Working
<1>11. CASE Edit
    BY <1>11 DEF Edit, FullInv
<1>12. CASE Judge \/ UNCHANGED vars
    BY <1>12 DEF Judge, vars, catalog, runVars, ghosts, FullInv, Working
<1> QED
    BY <1>1, <1>2, <1>3, <1>4, <1>5, <1>6, <1>7, <1>8, <1>9, <1>10, <1>11, <1>12
    DEF Next, RunStep

\* All of it holds in every reachable state.
LEMMA RunHolds == Spec => [](Typed /\ RunInv /\ FullInv)
<1>1. Init => RowInv /\ HandledInv /\ SettledInv /\ FullInv
    BY DEF Init, RowInv, OneRowPerPath, HandledInv, SettledInv, FullInv, Working
<1>3. Spec => []RowInv
    BY <1>1, RowNext, MemoryHolds, PTL DEF Spec
<1>4. Spec => []HandledInv
    BY <1>1, <1>3, HandledNext, MemoryHolds, PTL DEF Spec
<1>5. Spec => []SettledInv
    BY <1>1, <1>3, <1>4, SettledNext, MemoryHolds, PTL DEF Spec
<1>6. Spec => [](Typed /\ RunInv)
    BY <1>3, <1>4, <1>5, MemoryHolds, KeptHolds, PTL DEF RunInv
<1> QED BY <1>1, <1>6, FullNext, PTL DEF Spec

\* After one complete run over a corpus nobody touches, whatever crashes and
\* edits went before, no row gives a path that does not hold its content, and
\* later runs keep it so until the next edit or crash.
THEOREM IndexFollowsDisk == Spec => []RowsFollowDisk
<1>1. RunInv => RowsFollowDisk
    BY DEF RunInv, SettledInv, RowsFollowDisk
<1> QED BY <1>1, RunHolds, PTL

\* After two, `corpusqa status' reports no drift, nor ever again until the
\* corpus is edited or a run dies: indexing has a fixed point and two runs
\* always reach it.
THEOREM IndexConverges == Spec => []TwoRunsConverge
<1>1. ASSUME Typed, RunInv, FullInv PROVE TwoRunsConverge
    <2> SUFFICES ASSUME settled = 2, pc = "idle", NEW k \in KnownFiles
                 PROVE  NoDrift(disk, k)
        BY DEF TwoRunsConverge
    <2> USE <1>1
    <2>1. disk \in Snapshots /\ k \in Snapshots
        BY DEF Typed, TypeOK, KnownFiles
    <2>2. \A c \in Contents : /\ row[c] # Nil => disk[row[c].path] = c
                              /\ Holds(disk, c) => row[c] # Nil
        BY DEF RunInv, SettledInv, FullInv
    <2>3. \A p \in Paths : k[p] # Nil =>
             k[p] \in Contents /\ row[k[p]] # Nil /\ row[k[p]].path = p
        BY DEF KnownFiles, Snapshots, MaybeContent
    <2>4. \A p \in Paths : k[p] \in {Nil, disk[p]}
        BY <2>2, <2>3
    <2>5. ASSUME NEW p \in Paths, disk[p] # Nil, Drift(disk, k, p) = "new"
          PROVE  FALSE
        <3>1. disk[p] \in Contents /\ row[disk[p]] # Nil
            BY <2>1, <2>2, <2>5 DEF Holds, Snapshots, MaybeContent
        <3>2. row[disk[p]].path \in Paths
            BY <3>1 DEF Typed, TypeOK, Rows
        <3>3. k[row[disk[p]].path] = disk[p]
            BY <2>2, <2>4, <3>1, <3>2 DEF KnownFiles
        <3> QED BY <2>5, <3>2, <3>3 DEF Drift, Holds
    <2> QED BY <2>1, <2>4, <2>5, SettledDrift DEF NoDrift
<1>2. Typed /\ RunInv /\ FullInv => TwoRunsConverge
    BY <1>1
<1> QED BY <1>2, RunHolds, PTL

----------------------------------------------------------------------------
(* An index run and a query side by side: the foreign key of the verdicts  *)
(* is never violated, and a verdict outlives its text in two ways only.    *)

\* The query's own variables keep their types, the index run's beside them.
QueryTyped == QueryTypeOK /\ Typed

\* A query that holds nothing is well typed.
LEMMA HoldsNothingType == HoldsNothing \in [Contents -> Ages]
BY DEF HoldsNothing, Ages

\* However a query ends, its variables keep their types.
LEMMA EndQueryType ==
    ASSUME QueryTyped, NEW how \in Endings, EndQuery(how)
    PROVE  /\ stage' \in {"none", "plan", "judge"} /\ pending' \in SUBSET Contents
           /\ looked' \in MaybeContent
           /\ held' \in [Contents -> Ages] /\ ended' \in Endings
           /\ raced' \in SUBSET Contents /\ halfway' \in SUBSET Contents
           /\ dropped' \in SUBSET Contents
BY HoldsNothingType DEF EndQuery, QueryTyped, QueryTypeOK, MaybeContent

\* The types hold at the start.
LEMMA QueryTypedInit == QueryInit => QueryTyped
BY TypedInit, HoldsNothingType
   DEF QueryInit, QueryTyped, QueryTypeOK, Typed, Endings, MaybeContent

\* What an index run does to what a query holds.
LEMMA IndexRunType ==
    ASSUME QueryTyped, IndexRun
    PROVE  /\ held' \in [Contents -> Ages] /\ raced' \in SUBSET Contents
           /\ halfway' \in SUBSET Contents /\ dropped' \in SUBSET Contents
<1>1. Reconverted \subseteq Contents
    BY DEF Reconverted, QueryTyped, Typed, Control
<1>2. held' \in [Contents -> Ages]
    BY DEF IndexRun, QueryTyped, QueryTypeOK, Age, Ages
<1> QED BY <1>1, <1>2 DEF IndexRun, QueryTyped, QueryTypeOK

\* A verdict stored or dropped: of the index's variables only derived changes.
LEMMA JudgeOneType ==
    ASSUME QueryTyped, JudgeOne
    PROVE  /\ UNCHANGED <<disk, row, cache, runVars, ghosts>>
           /\ derived' \in [Contents -> Ages]
           /\ \A c \in Contents : derived'[c] # Nil => derived[c] # Nil \/ row[c] # Nil
           /\ stage' \in {"none", "plan", "judge"} /\ pending' \in SUBSET Contents
           /\ looked' \in MaybeContent /\ dropped' \in SUBSET Contents
           /\ held' \in [Contents -> Ages] /\ ended' \in Endings
           /\ raced' \in SUBSET Contents /\ halfway' \in SUBSET Contents
<1>0. /\ derived \in [Contents -> Ages] /\ held \in [Contents -> Ages]
      /\ stage \in {"none", "plan", "judge"} /\ pending \in SUBSET Contents
      /\ ended \in Endings /\ raced \in SUBSET Contents
      /\ looked \in MaybeContent /\ halfway \in SUBSET Contents /\ dropped \in SUBSET Contents
    BY DEF QueryTyped, QueryTypeOK, TypeOK
<1>1. PICK c \in Contents :
         \/ Store(c)
         \/ /\ held' = [held EXCEPT ![c] = Nil]
            /\ UNCHANGED <<derived, stage, pending, looked, ended, raced, halfway, dropped>>
    BY DEF JudgeOne
<1>2. UNCHANGED <<disk, row, cache, runVars, ghosts>>
    BY DEF JudgeOne
<1>3. CASE /\ row[c] # Nil
           /\ derived' = [derived EXCEPT ![c] = held[c]]
           /\ held' = [held EXCEPT ![c] = Nil]
           /\ UNCHANGED <<stage, pending, looked, ended, raced, halfway, dropped>>
    BY <1>0, <1>2, <1>3 DEF Ages
<1>4. CASE EndQuery("no_row") /\ UNCHANGED derived
    <2>1. "no_row" \in Endings
        BY DEF Endings
    <2> QED BY <1>0, <1>2, <1>4, <2>1, EndQueryType
<1>5. CASE /\ held' = [held EXCEPT ![c] = Nil]
           /\ UNCHANGED <<derived, stage, pending, looked, ended, raced, halfway, dropped>>
    BY <1>0, <1>2, <1>5 DEF Ages
<1> QED BY <1>1, <1>3, <1>4, <1>5 DEF Store

\* Every step of either process keeps the types.
LEMMA QueryTypedNext == QueryTyped /\ [QueryNext]_allVars => QueryTyped'
<1> SUFFICES ASSUME QueryTyped, [QueryNext]_allVars PROVE QueryTyped'
    OBVIOUS
<1> USE DEF QueryTyped
<1>1. CASE IndexRun
    <2>1. Typed'
        BY <1>1, TypedNext DEF IndexRun, Next
    <2>2. /\ held' \in [Contents -> Ages] /\ raced' \in SUBSET Contents
          /\ halfway' \in SUBSET Contents /\ dropped' \in SUBSET Contents
        BY <1>1, IndexRunType
    <2> QED BY <1>1, <2>1, <2>2 DEF IndexRun, QueryTypeOK, Typed
<1>2. CASE IndexElse
    <2>1. Typed'
        BY <1>2, TypedNext DEF IndexElse, Next
    <2> QED BY <1>2, <2>1 DEF IndexElse, QueryTypeOK, Typed, queryVars
<1>5. CASE IndexCrash
    <2>1. Typed'
        BY <1>5, TypedNext DEF IndexCrash, Next
    <2> QED BY <1>5, <2>1 DEF IndexCrash, QueryTypeOK, Typed
<1>3. CASE JudgeOne
    <2>1. Typed'
        BY <1>3, JudgeOneType DEF Typed, TypeOK, Control, cache, runVars, ghosts
    <2> QED BY <1>3, <2>1, JudgeOneType DEF QueryTypeOK, Typed
<1>4. CASE Ask \/ ReadText \/ LookUp \/ PlanFails \/ Confirm \/ Answer \/ QueryCrash
           \/ UNCHANGED allVars
    <2>1. UNCHANGED vars
        BY <1>4 DEF Ask, ReadText, LookUp, PlanFails, Confirm, Answer, QueryCrash, allVars
    <2>2. Typed'
        BY <2>1, TypedNext
    <2>3. CASE Ask \/ ReadText \/ LookUp \/ UNCHANGED allVars
        BY <2>2, <2>3 DEF Ask, ReadText, LookUp, allVars, queryVars, QueryTypeOK, Typed,
            Ages, Endings, MaybeContent
    <2>4. CASE PlanFails \/ Answer \/ QueryCrash
        <3>1. \E how \in Endings : EndQuery(how)
            BY <2>4 DEF PlanFails, Answer, QueryCrash, Endings
        <3> QED BY <2>2, <3>1, EndQueryType DEF QueryTypeOK, Typed
    <2>5. CASE Confirm
        <3>1. CASE EndQuery("declined")
            <4>1. "declined" \in Endings
                BY DEF Endings
            <4> QED BY <2>2, <3>1, <4>1, EndQueryType DEF QueryTypeOK, Typed
        <3>2. CASE stage' = "judge" /\ UNCHANGED <<pending, looked, held, ended, raced, halfway, dropped>>
            BY <2>2, <3>2 DEF QueryTypeOK, Typed
        <3> QED BY <2>5, <3>1, <3>2 DEF Confirm
    <2> QED BY <1>4, <2>3, <2>4, <2>5
<1> QED
    BY <1>1, <1>2, <1>3, <1>4, <1>5 DEF QueryNext, QueryStep

\* Beside each other the two processes leave the catalog, the cache and both
\* memories well typed.
THEOREM QueryTypeCorrect == QuerySpec => []QueryTypeOK
<1>1. QuerySpec => []QueryTyped
    BY QueryTypedInit, QueryTypedNext, PTL DEF QuerySpec
<1> QED BY <1>1, PTL DEF QueryTyped

\* Every step of an index run that removes a row removes its verdict with it.
LEMMA VerdictIndex ==
    ASSUME Typed, VerdictHasRow, RunStep
    PROVE  VerdictHasRow'
<1> USE DEF Typed, TypeOK, Control, VerdictHasRow
<1>1. CASE \/ HashNext \/ HashFails \/ Skip \/ AddNew \/ UnlinkMd
           \/ UnlinkPages \/ ConvertFails \/ WritePageMap \/ Finish
    <2>1. UNCHANGED <<row, derived>>
        BY <1>1 DEF HashNext, HashFails, Skip, AddNew, UnlinkMd,
            UnlinkPages, ConvertFails, WritePageMap, Finish, catalog
    <2> QED BY <2>1
<1>2. CASE Move
    <2>1. \A c \in Contents : row[c] # Nil => row'[c] # Nil
        BY <1>2 DEF Move, AtItem, UpdateRelPath, Rows, Snapshots, MaybeContent
    <2> QED BY <1>2, <2>1 DEF Move
<1>3. CASE Replace
    <2>1. PICK c \in Contents : DeleteRow(c)
        BY <1>3, ReplaceTarget
    <2> QED BY <2>1 DEF DeleteRow, DeleteFile
<1>4. CASE Delete
    BY <1>4 DEF Delete, DeleteRow, DeleteFile
<1>5. CASE WriteMd
    <2>1. \A c \in Contents : derived'[c] # Nil => derived[c] # Nil
        BY <1>5 DEF WriteMd, Age
    <2> QED BY <1>5, <2>1 DEF WriteMd
<1>6. CASE Upsert
    BY <1>6 DEF Upsert, UpsertFile
<1> QED BY <1>1, <1>2, <1>3, <1>4, <1>5, <1>6 DEF RunStep

\* No step of either process stores a verdict without its row.
LEMMA VerdictNext ==
    QueryTyped /\ VerdictHasRow /\ [QueryNext]_allVars => VerdictHasRow'
<1> SUFFICES ASSUME QueryTyped, VerdictHasRow, [QueryNext]_allVars
             PROVE  VerdictHasRow'
    OBVIOUS
<1>1. CASE IndexRun
    BY <1>1, VerdictIndex DEF IndexRun, QueryTyped
<1>2. CASE JudgeOne
    BY <1>2, JudgeOneType DEF VerdictHasRow
<1>3. CASE IndexCrash \/ IndexElse \/ Ask \/ ReadText \/ LookUp \/ PlanFails \/ Confirm
           \/ Answer \/ QueryCrash \/ UNCHANGED allVars
    <2>1. UNCHANGED <<row, derived>>
        BY <1>3 DEF IndexCrash, IndexElse, StartRun, Crash, Edit, Ask, ReadText, LookUp,
            PlanFails, Confirm, Answer, QueryCrash, allVars, vars, catalog
    <2> QED BY <2>1 DEF VerdictHasRow
<1> QED BY <1>1, <1>2, <1>3 DEF QueryNext, QueryStep

\* Whatever an index run removes between a query's plan and its verdicts, no
\* verdict is left of a file without a row: put_evaluation meets the foreign
\* key, and every deletion cascades.
THEOREM ForeignKeyHolds == QuerySpec => []VerdictHasRow
<1>1. QueryInit => VerdictHasRow
    BY DEF QueryInit, Init, VerdictHasRow
<1>2. QuerySpec => []QueryTyped
    BY QueryTypedInit, QueryTypedNext, PTL DEF QuerySpec
<1> QED BY <1>1, <1>2, VerdictNext, PTL DEF QuerySpec

----------------------------------------------------------------------------
(* A query loses a candidate only to an index run that deleted it.         *)

\* Every step of either process keeps the markdown of visible rows, and that a
\* deleted row stays away until its markdown is gone too.
LEMMA QueryTextNext == QueryTyped /\ TextInv /\ [QueryNext]_allVars => TextInv'
<1> SUFFICES ASSUME QueryTyped, TextInv, [QueryNext]_allVars PROVE TextInv'
    OBVIOUS
<1>1. CASE IndexRun \/ IndexCrash \/ IndexElse
    <2>1. Next
        BY <1>1 DEF IndexRun, IndexCrash, IndexElse, Next
    <2> QED BY <2>1, TextNext DEF QueryTyped
<1>2. CASE ~(IndexRun \/ IndexCrash \/ IndexElse)
    <2>1. UNCHANGED <<row, md, pc, seen, at, target, visible>>
        BY <1>2 DEF QueryNext, QueryStep, Ask, ReadText, LookUp, PlanFails, Confirm,
            JudgeOne, Answer, QueryCrash, allVars, vars, catalog, cache, runVars
    <2> QED BY <2>1 DEF TextInv, VisibleHasText
<1> QED BY <1>1, <1>2

\* The strengthening: between queries nobody is a candidate.
CandidateInv ==
    /\ DiesOnlyOfDeletion
    /\ stage = "none" => \A c \in Contents : ~Candidate(c)

\* What an index run takes from a candidate is on record: the row in the step
\* that deletes it, the markdown only when the row has gone.
LEMMA CandidateIndex ==
    ASSUME QueryTyped, TextInv, CandidateInv, IndexRun
    PROVE  CandidateInv'
<1>1. \A c \in Contents : Candidate(c)' => Candidate(c)
    BY DEF IndexRun, Candidate, Age
<1>2. UNCHANGED <<stage, ended>>
    BY DEF IndexRun
<1>3. CASE stage = "none"
    <2>1. dropped' = dropped
        BY <1>3 DEF IndexRun, CandidateInv, QueryTyped, QueryTypeOK
    <2> QED BY <1>1, <1>2, <1>3, <2>1 DEF CandidateInv, DiesOnlyOfDeletion
<1>4. CASE stage # "none"
    <2> SUFFICES ASSUME NEW c \in Contents \ dropped', Candidate(c)
                 PROVE  row'[c] # Nil /\ md'[c] # Nil
        BY <1>1, <1>2, <1>4 DEF CandidateInv, DiesOnlyOfDeletion
    <2>1. c \notin dropped /\ (row[c] # Nil => row'[c] # Nil)
        BY DEF IndexRun
    <2>2. row[c] # Nil /\ md[c] # Nil
        BY <2>1 DEF CandidateInv, DiesOnlyOfDeletion
    <2>3. CASE UnlinkMd
        <3>1. target # c
            BY <2>2, <2>3 DEF UnlinkMd, TextInv
        <3> QED BY <2>1, <2>2, <2>3, <3>1 DEF UnlinkMd, QueryTyped, Typed, TypeOK
    <2>4. CASE WriteMd
        BY <2>1, <2>2, <2>4 DEF WriteMd, QueryTyped, Typed, TypeOK
    <2>5. CASE ~UnlinkMd /\ ~WriteMd
        <3>1. md' = md
            BY <2>5 DEF IndexRun, RunStep, HashNext, HashFails, Skip, Move, Replace,
                AddNew, Delete, UnlinkPages, ConvertFails, WritePageMap, Upsert, Finish,
                cache
        <3> QED BY <2>1, <2>2, <3>1
    <2> QED BY <2>3, <2>4, <2>5
<1> QED BY <1>3, <1>4

\* A query ends, whatever the reason, with no candidates.
LEMMA CandidatesEnd ==
    ASSUME NEW how, EndQuery(how)
    PROVE  stage' = "none" /\ \A c \in Contents : ~Candidate(c)'
BY DEF EndQuery, Candidate, HoldsNothing

\* A query dies only over a candidate an index run has deleted.
LEMMA CandidateQuery ==
    ASSUME QueryTyped, TextInv, CandidateInv, Ask \/ QueryStep \/ QueryCrash
    PROVE  CandidateInv'
<1> USE DEF CandidateInv, DiesOnlyOfDeletion
<1>1. UNCHANGED <<row, md>>
    BY DEF Ask, QueryStep, ReadText, LookUp, PlanFails, Confirm, JudgeOne, Answer,
        QueryCrash, vars, catalog, cache
<1>2. CASE Ask
    <2>1. \A c \in Contents : Candidate(c)' => row[c] # Nil /\ row[c].visible
        BY <1>2 DEF Ask, Candidate
    <2> QED BY <1>1, <1>2, <2>1 DEF Ask, TextInv, VisibleHasText
<1>3. CASE ReadText
    <2>1. \A c \in Contents : Candidate(c)' => Candidate(c)
        BY <1>3 DEF ReadText, Candidate, QueryTyped, QueryTypeOK
    <2> QED BY <1>1, <1>3, <2>1 DEF ReadText
<1>4. CASE LookUp
    <2>1. \A c \in Contents : Candidate(c)' => Candidate(c)
        BY <1>4 DEF LookUp, Candidate, QueryTyped, QueryTypeOK
    <2> QED BY <1>1, <1>4, <2>1 DEF LookUp
<1>5. CASE PlanFails
    <2>1. PICK c \in pending : md[c] = Nil
        BY <1>5 DEF PlanFails
    <2>2. c \in Contents /\ Candidate(c)
        BY <2>1 DEF QueryTyped, QueryTypeOK, Candidate
    <2>3. c \in dropped /\ dropped' = dropped
        BY <1>5, <2>1, <2>2 DEF PlanFails, EndQuery
    <2>4. stage' = "none" /\ \A d \in Contents : ~Candidate(d)'
        BY <1>5, CandidatesEnd DEF PlanFails
    <2> QED BY <2>3, <2>4
<1>6. CASE Confirm \/ Answer \/ QueryCrash
    <2>1. CASE \E how \in {"declined", "answered", "crashed"} : EndQuery(how)
        <3>1. ended' \in {"declined", "answered", "crashed"}
            BY <2>1 DEF EndQuery
        <3>2. stage' = "none" /\ \A d \in Contents : ~Candidate(d)'
            BY <2>1, CandidatesEnd
        <3> QED BY <3>1, <3>2
    <2>2. CASE stage' = "judge" /\ UNCHANGED <<pending, looked, held, ended, raced, halfway, dropped>>
        BY <1>1, <2>2 DEF Candidate
    <2> QED BY <1>6, <2>1, <2>2 DEF Confirm, Answer, QueryCrash
<1>7. CASE JudgeOne
    <2>1. PICK c \in Contents :
             /\ held[c] # Nil
             /\ \/ row[c] = Nil /\ EndQuery("no_row")
                \/ /\ held' = [held EXCEPT ![c] = Nil]
                   /\ UNCHANGED <<stage, pending, looked, ended, raced, halfway, dropped>>
        BY <1>7 DEF JudgeOne, Store
    <2>2. CASE row[c] = Nil /\ EndQuery("no_row")
        <3>1. c \in dropped /\ dropped' = dropped
            BY <2>1, <2>2 DEF Candidate, EndQuery
        <3>2. stage' = "none" /\ \A d \in Contents : ~Candidate(d)'
            BY <2>2, CandidatesEnd
        <3> QED BY <3>1, <3>2
    <2>3. CASE /\ held' = [held EXCEPT ![c] = Nil]
               /\ UNCHANGED <<stage, pending, looked, ended, raced, halfway, dropped>>
        <3>1. \A d \in Contents : Candidate(d)' => Candidate(d)
            BY <2>3 DEF Candidate, QueryTyped, QueryTypeOK
        <3>2. stage = "judge"
            BY <1>7 DEF JudgeOne
        <3> QED BY <1>1, <2>3, <3>1, <3>2
    <2> QED BY <2>1, <2>2, <2>3
<1> QED BY <1>2, <1>3, <1>4, <1>5, <1>6, <1>7 DEF QueryStep

\* Every step of either process keeps the candidates but for the deleted.
LEMMA CandidateNext ==
    QueryTyped /\ TextInv /\ CandidateInv /\ [QueryNext]_allVars => CandidateInv'
<1> SUFFICES ASSUME QueryTyped, TextInv, CandidateInv, [QueryNext]_allVars
             PROVE  CandidateInv'
    OBVIOUS
<1>1. CASE IndexCrash \/ IndexElse \/ UNCHANGED allVars
    <2>1. UNCHANGED <<row, md, stage, pending, held, ended, dropped>>
        BY <1>1 DEF IndexCrash, IndexElse, StartRun, Crash, Edit, queryVars, allVars, vars,
            catalog, cache
    <2> QED BY <2>1 DEF CandidateInv, DiesOnlyOfDeletion, Candidate
<1> QED BY <1>1, CandidateIndex, CandidateQuery DEF QueryNext

\* However an index run moves, reconverts, fails or dies beside it, a query that
\* fails for want of a candidate's markdown or row fails because the run has
\* deleted the row of a candidate; every other candidate still has both.
THEOREM QueryDiesOnlyOfDeletion == QuerySpec => []DiesOnlyOfDeletion
<1>1. QueryInit => CandidateInv /\ TextInv
    BY DEF QueryInit, Init, CandidateInv, DiesOnlyOfDeletion, Candidate, HoldsNothing,
        TextInv, VisibleHasText
<1>2. QuerySpec => []QueryTyped
    BY QueryTypedInit, QueryTypedNext, PTL DEF QuerySpec
<1>3. QuerySpec => []TextInv
    BY <1>1, <1>2, QueryTextNext, PTL DEF QuerySpec
<1>4. CandidateInv => DiesOnlyOfDeletion
    BY DEF CandidateInv
<1> QED BY <1>1, <1>2, <1>3, <1>4, CandidateNext, PTL DEF QuerySpec

----------------------------------------------------------------------------
(* The two ways to a verdict older than its markdown.                      *)

\* What is stale was reconverted under a query's hands, or by a run that died,
\* or is about to be replaced together with its row; what a query holds ages with the text.
StaleInv ==
    \A c \in Contents :
        /\ derived[c] = "stale" =>
              c \in raced \cup halfway \/ (pc \in {"page_map", "upsert"} /\ seen[at] = c)
        /\ held[c] = "stale" => c \in raced

\* An index run that gives no card or verdict a new value but Nil.
LEMMA StaleNoNewer ==
    ASSUME StaleInv, held' = held,
           \A c \in raced : held[c] # Nil \/ derived'[c] # Nil => c \in raced',
           \A c \in halfway : derived'[c] # Nil => c \in halfway',
           \A c \in Contents : derived'[c] \in {derived[c], Nil},
           \/ pc \notin {"page_map", "upsert"}
           \/ pc' \in {"page_map", "upsert"} /\ UNCHANGED <<seen, at>>
           \/ derived'[seen[at]] = Nil
    PROVE  StaleInv'
<1> SUFFICES ASSUME NEW c \in Contents
             PROVE  /\ derived'[c] = "stale" =>
                          \/ c \in raced' \cup halfway'
                          \/ pc' \in {"page_map", "upsert"} /\ seen'[at'] = c
                    /\ held'[c] = "stale" => c \in raced'
    BY DEF StaleInv
<1> QED BY DEF StaleInv

\* An index run makes a verdict stale only where it is held or raced.
LEMMA StaleIndex ==
    ASSUME QueryTyped, StaleInv, IndexRun
    PROVE  StaleInv'
<1>0. /\ derived \in [Contents -> Ages] /\ held \in [Contents -> Ages]
      /\ gone \subseteq Contents /\ Typed /\ TypeOK
    BY DEF QueryTyped, QueryTypeOK, TypeOK
<1>1. CASE WriteMd
    <2>1. /\ seen[at] \in Contents /\ pc = "convert" /\ pc' = "page_map"
          /\ UNCHANGED <<seen, at>>
          /\ derived' = [derived EXCEPT ![seen[at]] = Age(@)]
        BY <1>0, <1>1 DEF WriteMd, Typed, Control
    <2>2. Reconverted = {seen[at]}
        BY <2>1 DEF Reconverted
    <2> SUFFICES ASSUME NEW c \in Contents
                 PROVE  /\ derived'[c] = "stale" => c \in raced' \cup halfway' \/ seen[at] = c
                        /\ held'[c] = "stale" => c \in raced'
        BY <2>1 DEF StaleInv
    <2>3. CASE c = seen[at]
        BY <1>0, <2>2, <2>3 DEF IndexRun, Age
    <2>4. CASE c # seen[at]
        <3>1. derived'[c] = derived[c] /\ held'[c] = held[c]
            BY <1>0, <2>1, <2>2, <2>4 DEF IndexRun
        <3> QED BY <2>4, <3>1 DEF StaleInv, IndexRun
    <2> QED BY <2>3, <2>4
<1>2. CASE ~WriteMd
    <2>0. Reconverted = {}
        <3>1. ~(pc = "convert" /\ pc' = "page_map")
            BY <1>2 DEF IndexRun, RunStep, HashNext, HashFails, Skip, Move, Replace,
                AddNew, Delete, AtItem, NextItem, UnlinkMd, UnlinkPages, ConvertFails,
                WritePageMap, Upsert, Finish, EndRun
        <3> QED BY <3>1 DEF Reconverted
    <2>1. /\ held' = held
          /\ \A c \in raced : held[c] # Nil \/ derived'[c] # Nil => c \in raced'
          /\ \A c \in halfway : derived'[c] # Nil => c \in halfway'
        BY <1>0, <2>0 DEF IndexRun
    <2>2. CASE \/ HashNext \/ HashFails \/ Skip \/ Move \/ AddNew \/ UnlinkMd
               \/ UnlinkPages \/ ConvertFails \/ Finish
        <3>1. derived' = derived /\ pc \notin {"page_map", "upsert"}
            BY <2>2 DEF HashNext, HashFails, Skip, Move, AddNew, AtItem, UnlinkMd,
                UnlinkPages, ConvertFails, Finish, catalog
        <3> QED BY <2>1, <3>1, StaleNoNewer
    <2>3. CASE Replace \/ Delete
        <3>1. PICK c \in Contents : DeleteRow(c)
            BY <1>0, <2>3, ReplaceTarget DEF Delete
        <3>2. \A d \in Contents : derived'[d] \in {derived[d], Nil}
            BY <1>0, <3>1 DEF DeleteRow, DeleteFile
        <3>3. pc = "items"
            BY <2>3 DEF Replace, Delete, AtItem
        <3> QED BY <2>1, <3>2, <3>3, StaleNoNewer
    <2>4. CASE WritePageMap
        <3>1. derived' = derived /\ pc' = "upsert" /\ UNCHANGED <<seen, at>>
            BY <2>4 DEF WritePageMap, catalog
        <3> QED BY <2>1, <3>1, StaleNoNewer
    <2>5. CASE Upsert
        <3>1. seen[at] \in Contents /\ derived' = [derived EXCEPT ![seen[at]] = Nil]
            BY <1>0, <2>5 DEF Upsert, UpsertFile, Typed, Control
        <3> QED BY <1>0, <2>1, <3>1, StaleNoNewer
    <2> QED BY <1>2, <2>2, <2>3, <2>4, <2>5 DEF IndexRun, RunStep
<1> QED BY <1>1, <1>2

\* A query stores what it holds, so what it stores is stale only if it raced.
LEMMA StaleJudge ==
    ASSUME QueryTyped, StaleInv, JudgeOne
    PROVE  StaleInv'
<1>1. PICK c \in Contents :
         \/ Store(c)
         \/ /\ held' = [held EXCEPT ![c] = Nil]
            /\ UNCHANGED <<derived, stage, pending, looked, ended, raced, halfway, dropped>>
    BY DEF JudgeOne
<1>2. /\ UNCHANGED <<pc, seen, at, raced, halfway>>
      /\ \A d \in Contents : derived'[d] \in {derived[d], held[d]}
      /\ \A d \in Contents : held'[d] \in {held[d], Nil}
    <2>1. UNCHANGED <<pc, seen, at>>
        BY DEF JudgeOne, runVars
    <2>2. UNCHANGED <<raced, halfway>>
        BY <1>1 DEF Store, EndQuery
    <2>3. \A d \in Contents : derived'[d] \in {derived[d], held[d]}
        BY <1>1 DEF Store, QueryTyped, QueryTypeOK, TypeOK
    <2>4. \A d \in Contents : held'[d] \in {held[d], Nil}
        BY <1>1 DEF Store, EndQuery, HoldsNothing, QueryTyped, QueryTypeOK
    <2> QED BY <2>1, <2>2, <2>3, <2>4
<1> QED BY <1>2 DEF StaleInv

\* Every step of either process keeps stale verdicts to the race.
LEMMA StaleNext == QueryTyped /\ StaleInv /\ [QueryNext]_allVars => StaleInv'
<1> SUFFICES ASSUME QueryTyped, StaleInv, [QueryNext]_allVars PROVE StaleInv'
    OBVIOUS
<1>1. CASE IndexElse
    <2>1. UNCHANGED <<derived, held, raced, halfway>>
        BY <1>1 DEF IndexElse, StartRun, Edit, queryVars, catalog
    <2>2. pc \notin {"page_map", "upsert"} \/ UNCHANGED <<pc, seen, at>>
        BY <1>1 DEF IndexElse, StartRun, Edit, runVars
    <2> QED BY <2>1, <2>2 DEF StaleInv
<1>3. CASE IndexCrash
    <2>1. UNCHANGED <<derived, held, raced>>
        BY <1>3 DEF IndexCrash, Crash, catalog
    <2>2. \A c \in Contents :
             c \in halfway \/ (pc \in {"page_map", "upsert"} /\ seen[at] = c /\ derived[c] # Nil)
             => c \in halfway'
        BY <1>3 DEF IndexCrash
    <2> QED BY <2>1, <2>2 DEF StaleInv
<1>2. CASE Ask \/ ReadText \/ LookUp \/ PlanFails \/ Confirm \/ Answer \/ QueryCrash
           \/ UNCHANGED allVars
    <2>1. UNCHANGED <<derived, pc, seen, at, raced, halfway>>
        BY <1>2 DEF Ask, ReadText, LookUp, PlanFails, Confirm, Answer, QueryCrash, EndQuery,
            allVars, queryVars, vars, catalog, runVars
    <2>2. \A c \in Contents : held'[c] = "stale" => held[c] = "stale"
        BY <1>2 DEF Ask, ReadText, LookUp, PlanFails, Confirm, Answer, QueryCrash, EndQuery,
            HoldsNothing, allVars, queryVars, QueryTyped, QueryTypeOK
    <2> QED BY <2>1, <2>2 DEF StaleInv
<1> QED BY <1>1, <1>2, <1>3, StaleIndex, StaleJudge DEF QueryNext, QueryStep

\* A verdict older than the markdown beside it comes from one of two places: the
\* file was reconverted after the query had read it and before it was judged, or
\* the index run that was reconverting it died before it replaced the row.
THEOREM StaleOnlyWhenRacedOrCut == QuerySpec => []StaleOnlyByRaceOrCrash
<1>1. QueryInit => StaleInv
    BY DEF QueryInit, Init, StaleInv, HoldsNothing
<1>2. QuerySpec => []QueryTyped
    BY QueryTypedInit, QueryTypedNext, PTL DEF QuerySpec
<1>3. QueryTyped /\ StaleInv /\ [QueryNext]_allVars => StaleInv'
    BY StaleNext
<1>4. StaleInv => StaleOnlyByRaceOrCrash
    BY DEF StaleInv, StaleOnlyByRaceOrCrash
<1> QED BY <1>1, <1>2, <1>3, <1>4, PTL DEF QuerySpec
=============================================================================
