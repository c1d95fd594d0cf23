--------------------------- MODULE DiscoveryWalk ---------------------------
(***************************************************************************)
(* The loops of discover(), one step per iteration, over an arbitrary disk *)
(* and an arbitrary index.  They build the `owner' dictionary as they go,  *)
(* so how a path classifies depends on the paths before it; Discovery says *)
(* what the outcome is without any order.                                  *)
(***************************************************************************)
EXTENDS Discovery

VARIABLES
    seen,       \* on_disk: the hash of every file of the walk
    known,      \* the indexed state, rel_path -> hash
    loop,       \* "claim" (first pass), "classify", "gone" or "done"
    at,         \* the loop's position
    owner,      \* owner[c]: the path that owns content c so far
    drift,      \* results so far, by path
    modified,   \* modified_paths
    deleted     \* contents of the DELETED results

vars == <<seen, known, loop, at, owner, drift, modified, deleted>>

TypeOK ==
    /\ seen \in Snapshots
    /\ known \in Indexes
    /\ loop \in {"claim", "classify", "gone", "done"}
    /\ at \in Paths
    /\ owner \in [Contents -> Paths \cup {Nil}]
    /\ drift \in [Paths -> DriftKinds \cup {Nil}]
    /\ modified \in SUBSET Paths
    /\ deleted \in SUBSET Contents

Init ==
    /\ seen \in Snapshots
    /\ known \in Indexes
    /\ loop = "claim"
    /\ at = 1
    /\ owner = [c \in Contents |-> Nil]
    /\ drift = [p \in Paths |-> Nil]
    /\ modified = {}
    /\ deleted = {}

\* Seeded defect: the loop runs one path too far.
AdvanceTooFar(next) ==
    IF at <= NPaths THEN /\ at' = at + 1
                         /\ loop' = loop
                    ELSE /\ at' = 1
                         /\ loop' = next

\* Ends an iteration: on to the next path, or to the next loop.
Advance(next) ==
    IF at < NPaths THEN /\ at' = at + 1
                        /\ loop' = loop
                   ELSE /\ at' = 1
                        /\ loop' = next

\* Seeded defect: the first pass records nothing.
ClaimNothing ==
    /\ loop = "claim"
    /\ Advance("classify")
    /\ UNCHANGED <<seen, known, owner, drift, modified, deleted>>

\* First pass: an indexed path still on disk unchanged claims its content.
\* setdefault keeps a claim already made.
Claim ==
    /\ loop = "claim"
    /\ owner' = IF Unchanged(seen, known, at) /\ owner[seen[at]] = Nil
                THEN [owner EXCEPT ![seen[at]] = at]
                ELSE owner
    /\ Advance("classify")
    /\ UNCHANGED <<seen, known, drift, modified, deleted>>

Absent ==
    /\ loop = "classify" /\ seen[at] = Nil
    /\ Advance("gone")
    /\ UNCHANGED <<seen, known, owner, drift, modified, deleted>>

\* Neither of these two branches touches the owner dictionary.
Keep ==
    /\ loop = "classify" /\ seen[at] # Nil
    /\ \/ /\ Unchanged(seen, known, at)
          /\ drift' = [drift EXCEPT ![at] = "unchanged"]
       \/ /\ ~Unchanged(seen, known, at) /\ owner[seen[at]] # Nil
          /\ drift' = [drift EXCEPT ![at] = "duplicate"]
    /\ Advance("gone")
    /\ UNCHANGED <<seen, known, owner, modified, deleted>>

\* Seeded defect: a rewritten path does not take ownership of its content.
ClaimByModifiedForgotten ==
    /\ loop = "classify" /\ seen[at] # Nil
    /\ ~Unchanged(seen, known, at) /\ owner[seen[at]] = Nil
    /\ known[at] # Nil
    /\ drift' = [drift EXCEPT ![at] = "modified"]
    /\ modified' = modified \cup {at}
    /\ Advance("gone")
    /\ UNCHANGED <<seen, known, owner, deleted>>

ClaimByModified ==
    /\ loop = "classify" /\ seen[at] # Nil
    /\ ~Unchanged(seen, known, at) /\ owner[seen[at]] = Nil
    /\ known[at] # Nil
    /\ drift' = [drift EXCEPT ![at] = "modified"]
    /\ modified' = modified \cup {at}
    /\ owner' = [owner EXCEPT ![seen[at]] = at]
    /\ Advance("gone")
    /\ UNCHANGED <<seen, known, deleted>>

ClaimByMovedOrNew ==
    /\ loop = "classify" /\ seen[at] # Nil
    /\ ~Unchanged(seen, known, at) /\ owner[seen[at]] = Nil
    /\ known[at] = Nil
    /\ drift' = [drift EXCEPT ![at] =
                    IF Holds(known, seen[at]) THEN "moved" ELSE "new"]
    /\ owner' = [owner EXCEPT ![seen[at]] = at]
    /\ Advance("gone")
    /\ UNCHANGED <<seen, known, modified, deleted>>

\* Seeded defect: a rewritten path's old content is reported DELETED too.
DeleteModifiedToo ==
    /\ loop = "gone"
    /\ deleted' = IF known[at] # Nil /\ ~Holds(seen, known[at])
                  THEN deleted \cup {known[at]} ELSE deleted
    /\ Advance("done")
    /\ UNCHANGED <<seen, known, owner, drift, modified>>

Delete ==
    /\ loop = "gone"
    /\ deleted' = IF /\ known[at] # Nil /\ ~Holds(seen, known[at])
                     /\ at \notin modified
                  THEN deleted \cup {known[at]} ELSE deleted
    /\ Advance("done")
    /\ UNCHANGED <<seen, known, owner, drift, modified>>

Next == \/ Claim \/ Absent \/ Keep \/ ClaimByModified \/ ClaimByMovedOrNew
        \/ Delete

Spec == Init /\ [][Next]_vars

----------------------------------------------------------------------------
(* Properties.                                                             *)

\* The loop, whatever the order of the paths, classifies every file as
\* Discovery does: the copy of an unchanged file is a duplicate even when it
\* sorts before the path that owns it (the two passes of discover()).
WalkClassifies ==
    \A p \in Paths : drift[p] # Nil => drift[p] = Drift(seen, known, p)

\* The identities discover() reports as DELETED are exactly those Discovery
\* calls gone: not on disk, and not replaced by a rewrite of their path.
WalkFindsGone == loop = "done" => deleted = Gone(seen, known)

\* Identity is the content: when the walk ends each content on disk was
\* given to exactly one path, every other copy being a DUPLICATE, so an
\* index run converts no content twice.
OneOwner ==
    loop = "done" =>
        \A p \in Paths : seen[p] # Nil =>
            \E o \in Paths : /\ owner[seen[p]] = o /\ seen[o] = seen[p]
                             /\ {q \in Paths : /\ seen[q] = seen[p]
                                               /\ drift[q] # "duplicate"} = {o}
=============================================================================
