----------------------------- MODULE Discovery -----------------------------
(***************************************************************************)
(* Drift classification of the files on disk against the index             *)
(* (corpusqa/ingest/discovery.py).                                         *)
(*                                                                         *)
(* A file's content stands for its SHA-256 digest: the identity key of the *)
(* whole program, assumed collision-free.  Paths are 1..NPaths, numbered   *)
(* in the order the walk sorts them, because that order decides who owns a *)
(* content that several paths hold.                                        *)
(*                                                                         *)
(* `seen' is what the walk hashed (Nil: no such file) and `known' what the *)
(* index holds, both total functions on Paths.  The index keys its rows by *)
(* content, so `known' never gives one content to two paths.  The module   *)
(* says what the classification IS; DiscoveryWalk is the loop that         *)
(* computes it with its `owner' dictionary.                                *)
(***************************************************************************)
EXTENDS Naturals, FiniteSets

CONSTANTS
    NPaths,     \* number of paths a corpus file can have
    Contents,   \* file contents, one per SHA-256 digest
    Nil         \* no file, no row

ASSUME NPathsAssumption == NPaths \in Nat \ {0}
ASSUME NilAssumption == Nil \notin Contents /\ Nil \notin Nat

Paths == 1..NPaths

MaybeContent == Contents \cup {Nil}

\* What a disk, and what an index, can look like.
Snapshots == [Paths -> MaybeContent]
Keyed(m)  == \A p, q \in Paths : m[p] # Nil /\ m[p] = m[q] => p = q
Indexes   == {k \in Snapshots : Keyed(k)}

DriftKinds == {"new", "modified", "moved", "duplicate", "unchanged"}

Holds(m, c) == \E p \in Paths : m[p] = c

----------------------------------------------------------------------------
(* Ownership and drift.                                                    *)

Unchanged(seen, known, p) == seen[p] # Nil /\ known[p] = seen[p]

\* Seeded defect: no first pass, so whichever copy sorts first claims the
\* content even when an indexed path still holds it.
OwnsFirstSorted(seen, known, p) ==
    \A q \in Paths : seen[q] = seen[p] => p <= q

\* One path owns each content: the indexed path that still holds it, else
\* the first in sorted order that does.
Owns(seen, known, p) ==
    \/ Unchanged(seen, known, p)
    \/ \A q \in Paths : seen[q] = seen[p] =>
          p <= q /\ ~Unchanged(seen, known, q)

\* The drift of a path on disk, in the order the code tests it.
Drift(seen, known, p) ==
    IF Unchanged(seen, known, p)       THEN "unchanged"
    ELSE IF ~Owns(seen, known, p)      THEN "duplicate"
    ELSE IF known[p] # Nil             THEN "modified"
    ELSE IF Holds(known, seen[p])      THEN "moved"
    ELSE "new"

ModifiedPaths(seen, known) ==
    {p \in Paths : seen[p] # Nil /\ Drift(seen, known, p) = "modified"}

\* Seeded defect: deletion keyed by path instead of by hash.
GoneByPath(seen, known) ==
    {known[p] : p \in {q \in Paths : known[q] # Nil /\ seen[q] = Nil}}

\* The DELETED entries: indexed contents found nowhere on disk, except those
\* whose path is rewritten, which the pipeline replaces itself.
Gone(seen, known) ==
    {known[p] : p \in {q \in Paths : /\ known[q] # Nil
                                     /\ ~Holds(seen, known[q])
                                     /\ q \notin ModifiedPaths(seen, known)}}

\* What `corpusqa status' reports as drift: nothing an index run would act on.
NoDrift(seen, known) ==
    /\ \A p \in Paths : seen[p] # Nil =>
          Drift(seen, known, p) \in {"unchanged", "duplicate"}
    /\ Gone(seen, known) = {}
=============================================================================
