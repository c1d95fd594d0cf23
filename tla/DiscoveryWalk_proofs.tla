------------------------ MODULE DiscoveryWalk_proofs ------------------------
(***************************************************************************)
(* The loops of discover() compute the classification Discovery defines,   *)
(* for any number of paths and contents, any disk and any index that keys  *)
(* its rows by content.                                                    *)
(***************************************************************************)
EXTENDS DiscoveryWalk, TLAPS

USE NPathsAssumption, NilAssumption

----------------------------------------------------------------------------
(* Ownership.                                                              *)

\* An indexed path that still holds its content is the only one that does.
LEMMA UnchangedIsUnique ==
    ASSUME NEW s, NEW k \in Indexes, NEW p \in Paths, NEW q \in Paths,
           Unchanged(s, k, p), Unchanged(s, k, q), s[p] = s[q]
    PROVE  p = q
BY DEF Indexes, Keyed, Unchanged

\* Two paths cannot own the same content.
LEMMA OwnerIsUnique ==
    ASSUME NEW s, NEW k \in Indexes, NEW p \in Paths, NEW q \in Paths,
           Owns(s, k, p), Owns(s, k, q), s[p] = s[q]
    PROVE  p = q
<1>1. CASE Unchanged(s, k, p) /\ Unchanged(s, k, q)
    BY <1>1, UnchangedIsUnique
<1>2. CASE ~Unchanged(s, k, p) /\ ~Unchanged(s, k, q)
    BY <1>2 DEF Owns, Paths
<1> QED BY <1>1, <1>2 DEF Owns

\* Every copy but the owner's is a duplicate, and the owner's is not.
LEMMA OthersAreDuplicates ==
    ASSUME NEW s, NEW k \in Indexes, NEW p \in Paths, NEW o \in Paths,
           Owns(s, k, o), s[p] = s[o], s[o] # Nil
    PROVE  Drift(s, k, p) = "duplicate" <=> p # o
<1>1. CASE p = o
    BY <1>1 DEF Drift
<1>2. CASE p # o
    <2>1. ~Owns(s, k, p)
        BY <1>2, OwnerIsUnique
    <2> QED BY <1>2, <2>1 DEF Drift, Owns
<1> QED BY <1>1, <1>2

----------------------------------------------------------------------------
(* The inductive invariant: what the passes have done so far.              *)

\* Paths the first pass, the second pass and the deletions have been through.
Claimed    == IF loop = "claim" THEN 1..(at - 1) ELSE Paths
Classified == IF loop = "claim" THEN {}
              ELSE IF loop = "classify" THEN 1..(at - 1) ELSE Paths
Swept      == IF loop \in {"claim", "classify"} THEN {}
              ELSE IF loop = "gone" THEN 1..(at - 1) ELSE Paths

\* Every unchanged path gone through owns its content.
ClaimInv == \A p \in Claimed : Unchanged(seen, known, p) => owner[seen[p]] = p

\* No path owns a content it should not, or before its turn.
OwnerInv ==
    \A c \in Contents : owner[c] # Nil =>
        /\ owner[c] \in Paths /\ seen[owner[c]] = c
        /\ \/ Unchanged(seen, known, owner[c])
           \/ owner[c] \in Classified /\ Owns(seen, known, owner[c])

\* A content met in the second pass has an owner.
MetInv == \A p \in Classified : seen[p] # Nil => owner[seen[p]] # Nil

DriftInv ==
    \A p \in Paths :
        drift[p] = IF p \in Classified /\ seen[p] # Nil
                   THEN Drift(seen, known, p) ELSE Nil

ModifiedInv ==
    modified = {p \in Classified : seen[p] # Nil /\ Drift(seen, known, p) = "modified"}

DeletedInv ==
    deleted = {known[p] : p \in {q \in Swept : /\ known[q] # Nil
                                               /\ ~Holds(seen, known[q])
                                               /\ q \notin ModifiedPaths(seen, known)}}

IInv == TypeOK /\ ClaimInv /\ OwnerInv /\ MetInv /\ DriftInv /\ ModifiedInv /\ DeletedInv

\* The inductive invariant holds before the first loop.
LEMMA IInvInit == Init => IInv
<1> SUFFICES ASSUME Init PROVE IInv
    OBVIOUS
<1>1. Claimed = {} /\ Classified = {} /\ Swept = {}
    BY DEF Init, Claimed, Classified, Swept
<1>2. TypeOK
    BY DEF Init, TypeOK, Paths
<1>3. ClaimInv /\ OwnerInv /\ MetInv /\ DriftInv
    BY <1>1 DEF Init, ClaimInv, OwnerInv, MetInv, DriftInv
<1>4. ModifiedInv /\ DeletedInv
    BY <1>1 DEF Init, ModifiedInv, DeletedInv
<1> QED BY <1>2, <1>3, <1>4 DEF IInv

----------------------------------------------------------------------------
(* An iteration adds its path to those its loop has been through.          *)

\* Where an iteration of the first loop leaves the three loops' progress.
LEMMA ClaimAdvances ==
    ASSUME TypeOK, loop = "claim", Advance("classify")
    PROVE  /\ at' \in Paths /\ loop' \in {"claim", "classify"}
           /\ Claimed' = Claimed \cup {at}
           /\ Classified = {} /\ Classified' = {} /\ Swept = {} /\ Swept' = {}
BY DEF TypeOK, Advance, Claimed, Classified, Swept, Paths

\* The same of the second loop.
LEMMA ClassifyAdvances ==
    ASSUME TypeOK, loop = "classify", Advance("gone")
    PROVE  /\ at' \in Paths /\ loop' \in {"classify", "gone"}
           /\ Claimed = Paths /\ Claimed' = Paths
           /\ Classified = 1..(at - 1) /\ Classified' = Classified \cup {at}
           /\ Swept = {} /\ Swept' = {}
BY DEF TypeOK, Advance, Claimed, Classified, Swept, Paths

\* The same of the third.
LEMMA SweepAdvances ==
    ASSUME TypeOK, loop = "gone", Advance("done")
    PROVE  /\ at' \in Paths /\ loop' \in {"gone", "done"}
           /\ Claimed = Paths /\ Claimed' = Paths
           /\ Classified = Paths /\ Classified' = Paths
           /\ Swept' = Swept \cup {at}
BY DEF TypeOK, Advance, Claimed, Classified, Swept, Paths

----------------------------------------------------------------------------
(* The first pass.                                                         *)

\* A path that still holds its content claims it.
LEMMA ClaimKeeps == IInv /\ Claim => IInv'
<1> SUFFICES ASSUME IInv, Claim PROVE IInv'
    OBVIOUS
<1>1. TypeOK /\ UNCHANGED <<seen, known, drift, modified, deleted>>
    BY DEF IInv, Claim
<1>2. /\ at \in Paths /\ at' \in Paths /\ loop' \in {"claim", "classify"}
      /\ Claimed' = Claimed \cup {at}
      /\ Classified = {} /\ Classified' = {} /\ Swept = {} /\ Swept' = {}
    BY <1>1, ClaimAdvances DEF Claim, TypeOK
<1>3. CASE Unchanged(seen, known, at) /\ owner[seen[at]] = Nil
    <2>1. owner' = [owner EXCEPT ![seen[at]] = at] /\ seen[at] \in Contents
        BY <1>1, <1>2, <1>3 DEF Claim, TypeOK, Snapshots, MaybeContent, Unchanged
    <2>2. TypeOK'
        BY <1>1, <1>2, <2>1 DEF TypeOK
    <2>3. OwnerInv'
        <3> SUFFICES ASSUME NEW c \in Contents, owner'[c] # Nil
                     PROVE  /\ owner'[c] \in Paths /\ seen[owner'[c]] = c
                            /\ Unchanged(seen, known, owner'[c])
            BY <1>1 DEF OwnerInv
        <3>1. CASE c = seen[at]
            BY <1>1, <1>2, <1>3, <2>1, <3>1 DEF TypeOK
        <3>2. CASE c # seen[at]
            BY <1>1, <1>2, <2>1, <3>2 DEF IInv, OwnerInv, TypeOK
        <3> QED BY <3>1, <3>2
    <2>4. ClaimInv'
        <3> SUFFICES ASSUME NEW p \in Claimed', Unchanged(seen, known, p)
                     PROVE  owner'[seen[p]] = p
            BY <1>1 DEF ClaimInv
        <3>1. p \in Paths /\ seen[p] \in Contents
            BY <1>1, <1>2 DEF Claimed, Paths, Unchanged, TypeOK, Snapshots, MaybeContent
        <3>2. CASE p = at
            BY <1>1, <2>1, <3>2 DEF TypeOK
        <3>3. CASE p # at
            <4>1. owner[seen[p]] = p
                BY <1>2, <3>3 DEF IInv, ClaimInv
            <4>2. seen[p] # seen[at]
                BY <1>3, <3>1, <4>1, NilAssumption DEF Paths
            <4> QED BY <1>1, <2>1, <3>1, <4>1, <4>2 DEF TypeOK
        <3> QED BY <3>2, <3>3
    <2> QED BY <1>1, <1>2, <2>2, <2>3, <2>4
            DEF IInv, MetInv, DriftInv, ModifiedInv, DeletedInv
<1>4. CASE ~(Unchanged(seen, known, at) /\ owner[seen[at]] = Nil)
    <2>1. owner' = owner
        BY <1>4 DEF Claim
    <2>2. TypeOK'
        BY <1>1, <1>2, <2>1 DEF TypeOK
    <2>3. OwnerInv'
        BY <1>1, <1>2, <2>1 DEF IInv, OwnerInv
    <2>4. ClaimInv'
        <3> SUFFICES ASSUME NEW p \in Claimed', Unchanged(seen, known, p)
                     PROVE  owner[seen[p]] = p
            BY <1>1, <2>1 DEF ClaimInv
        <3>1. CASE p = at
            <4>1. seen[at] \in Contents /\ owner[seen[at]] # Nil
                BY <1>1, <1>2, <1>4, <3>1 DEF Unchanged, TypeOK, Snapshots, MaybeContent
            <4>2. LET o == owner[seen[at]]
                  IN o \in Paths /\ seen[o] = seen[at] /\ Unchanged(seen, known, o)
                BY <1>2, <4>1 DEF IInv, OwnerInv
            <4> QED BY <1>1, <1>2, <3>1, <4>2, UnchangedIsUnique DEF TypeOK
        <3>2. CASE p # at
            BY <1>2, <3>2 DEF IInv, ClaimInv
        <3> QED BY <3>1, <3>2
    <2> QED BY <1>1, <1>2, <2>1, <2>2, <2>3, <2>4
            DEF IInv, MetInv, DriftInv, ModifiedInv, DeletedInv
<1> QED BY <1>3, <1>4

----------------------------------------------------------------------------
(* The second pass.                                                        *)

\* The owner dictionary decides ownership: a content that has an owner and
\* is not the path's own unchanged one belongs to another path; one that has
\* none belongs to the path.
LEMMA OwnerDecides ==
    ASSUME IInv, loop = "classify", seen[at] # Nil, ~Unchanged(seen, known, at)
    PROVE  Owns(seen, known, at) <=> owner[seen[at]] = Nil
<1>1. /\ at \in Paths /\ seen[at] \in Contents /\ TypeOK
      /\ Classified = 1..(at - 1) /\ Claimed = Paths
    BY DEF IInv, TypeOK, Snapshots, MaybeContent, Classified, Claimed
<1>2. ASSUME owner[seen[at]] # Nil PROVE ~Owns(seen, known, at)
    <2> DEFINE o == owner[seen[at]]
    <2>1. /\ o \in Paths /\ seen[o] = seen[at]
          /\ Unchanged(seen, known, o) \/ o \in 1..(at - 1)
        BY <1>1, <1>2 DEF IInv, OwnerInv
    <2> QED BY <1>1, <2>1 DEF Owns, Paths
<1>3. ASSUME owner[seen[at]] = Nil PROVE Owns(seen, known, at)
    <2> SUFFICES ASSUME NEW q \in Paths, seen[q] = seen[at]
                 PROVE  at <= q /\ ~Unchanged(seen, known, q)
        BY DEF Owns
    <2>1. ~Unchanged(seen, known, q)
        BY <1>1, <1>3, NilAssumption DEF IInv, ClaimInv, Paths
    <2>2. q \notin 1..(at - 1)
        BY <1>1, <1>3 DEF IInv, MetInv
    <2> QED BY <1>1, <2>1, <2>2 DEF Paths
<1> QED BY <1>2, <1>3

\* What classifying a path does, whichever branch it takes.
LEMMA ClassifyKeeps ==
    ASSUME IInv, loop = "classify", Advance("gone"), UNCHANGED <<seen, known, deleted>>,
           \/ owner' = owner /\ (seen[at] = Nil \/ owner[seen[at]] # Nil)
           \/ /\ seen[at] # Nil /\ owner[seen[at]] = Nil /\ Owns(seen, known, at)
              /\ owner' = [owner EXCEPT ![seen[at]] = at],
           drift' = [drift EXCEPT ![at] = IF seen[at] = Nil THEN Nil
                                          ELSE Drift(seen, known, at)],
           modified' = IF seen[at] # Nil /\ Drift(seen, known, at) = "modified"
                       THEN modified \cup {at} ELSE modified
    PROVE  IInv'
<1>1. TypeOK /\ at \in Paths /\ (seen[at] # Nil => seen[at] \in Contents)
    BY DEF IInv, TypeOK, Snapshots, MaybeContent
<1>2. /\ at' \in Paths /\ loop' \in {"classify", "gone"}
      /\ Claimed = Paths /\ Claimed' = Paths
      /\ Classified = 1..(at - 1) /\ Classified' = Classified \cup {at}
      /\ Swept = {} /\ Swept' = {}
    BY <1>1, ClassifyAdvances
<1>3. Drift(seen, known, at) \in DriftKinds
    BY DEF Drift, DriftKinds
<1>4. TypeOK'
    <2>1. owner' \in [Contents -> Paths \cup {Nil}]
        BY <1>1 DEF TypeOK
    <2>2. drift' \in [Paths -> DriftKinds \cup {Nil}]
        BY <1>1, <1>3 DEF TypeOK
    <2>3. modified' \in SUBSET Paths
        BY <1>1 DEF TypeOK
    <2> QED BY <1>1, <1>2, <2>1, <2>2, <2>3 DEF TypeOK
\* A claim never displaces one.
<1>5. \A c \in Contents : owner[c] # Nil => owner'[c] = owner[c]
    BY <1>1 DEF TypeOK
<1>6. ClaimInv'
    <2> SUFFICES ASSUME NEW p \in Paths, Unchanged(seen, known, p)
                 PROVE  owner'[seen[p]] = p
        BY <1>2 DEF ClaimInv
    <2>1. seen[p] \in Contents /\ owner[seen[p]] = p
        BY <1>1, <1>2 DEF Unchanged, IInv, ClaimInv, TypeOK, Snapshots, MaybeContent
    <2> QED BY <1>5, <2>1, NilAssumption DEF Paths
<1>7. OwnerInv'
    <2> SUFFICES ASSUME NEW c \in Contents, owner'[c] # Nil
                 PROVE  /\ owner'[c] \in Paths /\ seen[owner'[c]] = c
                        /\ \/ Unchanged(seen, known, owner'[c])
                           \/ owner'[c] \in Classified' /\ Owns(seen, known, owner'[c])
        BY DEF OwnerInv
    <2>1. CASE owner[c] # Nil
        BY <1>2, <1>5, <2>1 DEF IInv, OwnerInv
    <2>2. CASE owner[c] = Nil
        <3>1. c = seen[at] /\ owner'[c] = at /\ Owns(seen, known, at)
            BY <1>1, <2>2 DEF TypeOK
        <3> QED BY <1>1, <1>2, <3>1
    <2> QED BY <2>1, <2>2
<1>8. MetInv'
    <2> SUFFICES ASSUME NEW p \in Classified', seen[p] # Nil
                 PROVE  owner'[seen[p]] # Nil
        BY DEF MetInv
    <2>1. p \in Paths /\ seen[p] \in Contents
        BY <1>1, <1>2 DEF TypeOK, Snapshots, MaybeContent, Paths
    <2>2. CASE p = at
        BY <1>1, <2>2, NilAssumption DEF TypeOK, Paths
    <2>3. CASE p # at
        BY <1>2, <1>5, <2>1, <2>3 DEF IInv, MetInv
    <2> QED BY <2>2, <2>3
<1>9. DriftInv'
    <2> SUFFICES ASSUME NEW p \in Paths
                 PROVE  drift'[p] = IF p \in Classified' /\ seen[p] # Nil
                                    THEN Drift(seen, known, p) ELSE Nil
        BY DEF DriftInv
    <2>1. CASE p = at
        BY <1>1, <1>2, <2>1 DEF TypeOK
    <2>2. CASE p # at
        BY <1>1, <1>2, <2>2 DEF TypeOK, IInv, DriftInv
    <2> QED BY <2>1, <2>2
<1>10. ModifiedInv'
    BY <1>2 DEF IInv, ModifiedInv
<1>11. DeletedInv'
    BY <1>2 DEF IInv, DeletedInv
<1> QED BY <1>4, <1>6, <1>7, <1>8, <1>9, <1>10, <1>11 DEF IInv

\* A path without a file is passed over.
LEMMA AbsentKeeps == IInv /\ Absent => IInv'
<1> SUFFICES ASSUME IInv, Absent PROVE IInv'
    OBVIOUS
<1>1. drift[at] = Nil /\ at \in Paths
    BY DEF Absent, IInv, DriftInv, TypeOK
<1>2. drift' = [drift EXCEPT ![at] = Nil]
    BY <1>1 DEF Absent, IInv, TypeOK
<1> QED BY <1>2, ClassifyKeeps DEF Absent

\* Unchanged files and duplicates are recorded.
LEMMA KeepKeeps == IInv /\ Keep => IInv'
<1> SUFFICES ASSUME IInv, Keep PROVE IInv'
    OBVIOUS
<1>1. owner[seen[at]] # Nil
    <2>1. CASE Unchanged(seen, known, at)
        <3>1. owner[seen[at]] = at
            BY <2>1 DEF Keep, IInv, ClaimInv, Claimed, TypeOK
        <3> QED BY <3>1, NilAssumption DEF IInv, TypeOK, Paths
    <2> QED BY <2>1 DEF Keep
<1>2. drift' = [drift EXCEPT ![at] = Drift(seen, known, at)]
      /\ Drift(seen, known, at) # "modified"
    BY OwnerDecides DEF Keep, Drift
<1> QED BY <1>1, <1>2, ClassifyKeeps DEF Keep

\* A rewritten path claims a content nobody owns.
LEMMA ClaimByModifiedKeeps == IInv /\ ClaimByModified => IInv'
<1> SUFFICES ASSUME IInv, ClaimByModified PROVE IInv'
    OBVIOUS
<1>1. Owns(seen, known, at) /\ Drift(seen, known, at) = "modified"
    BY OwnerDecides DEF ClaimByModified, Drift
<1> QED BY <1>1, ClassifyKeeps DEF ClaimByModified

\* So does a path the index does not know.
LEMMA ClaimByMovedOrNewKeeps == IInv /\ ClaimByMovedOrNew => IInv'
<1> SUFFICES ASSUME IInv, ClaimByMovedOrNew PROVE IInv'
    OBVIOUS
<1>1. /\ Owns(seen, known, at)
      /\ Drift(seen, known, at) = IF Holds(known, seen[at]) THEN "moved" ELSE "new"
    BY OwnerDecides DEF ClaimByMovedOrNew, Drift
<1> QED BY <1>1, ClassifyKeeps DEF ClaimByMovedOrNew

----------------------------------------------------------------------------
(* The deletions.                                                          *)

\* The third loop reports what is found nowhere.
LEMMA DeleteKeeps == IInv /\ Delete => IInv'
<1> SUFFICES ASSUME IInv, Delete PROVE IInv'
    OBVIOUS
<1>1. TypeOK /\ at \in Paths /\ UNCHANGED <<seen, known, owner, drift, modified>>
    BY DEF IInv, TypeOK, Delete
<1>2. /\ at' \in Paths /\ loop' \in {"gone", "done"}
      /\ Claimed = Paths /\ Claimed' = Paths
      /\ Classified = Paths /\ Classified' = Paths
      /\ Swept' = Swept \cup {at}
    BY <1>1, SweepAdvances DEF Delete
<1>3. modified = ModifiedPaths(seen, known)
    BY <1>2 DEF IInv, ModifiedInv, ModifiedPaths
<1>4. deleted' \subseteq Contents
    BY <1>1 DEF Delete, TypeOK, Indexes, Snapshots, MaybeContent
<1>5. TypeOK'
    BY <1>1, <1>2, <1>4 DEF TypeOK
<1>6. DeletedInv'
    BY <1>1, <1>2, <1>3 DEF Delete, IInv, DeletedInv
<1> QED BY <1>1, <1>2, <1>5, <1>6
        DEF IInv, ClaimInv, OwnerInv, MetInv, DriftInv, ModifiedInv

\* Every step keeps the inductive invariant.
LEMMA IInvNext == IInv /\ [Next]_vars => IInv'
<1>1. IInv /\ UNCHANGED vars => IInv'
    BY DEF vars, IInv, TypeOK, ClaimInv, OwnerInv, MetInv, DriftInv, ModifiedInv,
           DeletedInv, Claimed, Classified, Swept
<1> QED BY <1>1, ClaimKeeps, AbsentKeeps, KeepKeeps, ClaimByModifiedKeeps,
           ClaimByMovedOrNewKeeps, DeleteKeeps DEF Next

\* It holds in every reachable state.
LEMMA Invariant == Spec => []IInv
BY IInvInit, IInvNext, PTL DEF Spec

----------------------------------------------------------------------------
(* What follows from it.                                                   *)

\* The walk hands on one of DriftKinds per path, owners that are paths and
\* deletions that are contents.
THEOREM TypeCorrect == Spec => []TypeOK
<1>1. IInv => TypeOK
    BY DEF IInv
<1> QED BY <1>1, Invariant, PTL

\* The two passes of discover(), with the owner dictionary they share, give
\* every path the drift Discovery defines without any order.
THEOREM WalkIsDiscovery == Spec => []WalkClassifies
<1>1. IInv => WalkClassifies
    BY DEF IInv, DriftInv, WalkClassifies
<1> QED BY <1>1, Invariant, PTL

\* The DELETED entries are the contents Discovery calls gone, no more and no
\* fewer.
THEOREM WalkDeletesTheGone == Spec => []WalkFindsGone
<1>1. IInv => WalkFindsGone
    <2> SUFFICES ASSUME IInv, loop = "done" PROVE deleted = Gone(seen, known)
        BY DEF WalkFindsGone
    <2>1. Swept = Paths
        BY DEF Swept
    <2> QED BY <2>1 DEF IInv, DeletedInv, Gone
<1> QED BY <1>1, Invariant, PTL

\* When discover() returns, each content on disk is left to exactly one path.
THEOREM ContentHasOneOwner == Spec => []OneOwner
<1>1. IInv => OneOwner
    <2> SUFFICES ASSUME IInv, loop = "done", NEW p \in Paths, seen[p] # Nil
                 PROVE  \E o \in Paths :
                           /\ owner[seen[p]] = o /\ seen[o] = seen[p]
                           /\ {q \in Paths : /\ seen[q] = seen[p]
                                             /\ drift[q] # "duplicate"} = {o}
        BY DEF OneOwner
    <2> DEFINE o == owner[seen[p]]
    <2>1. Classified = Paths /\ seen[p] \in Contents /\ known \in Indexes
        BY DEF Classified, IInv, TypeOK, Snapshots, MaybeContent
    <2>2. o \in Paths /\ seen[o] = seen[p] /\ Owns(seen, known, o)
        BY <2>1 DEF IInv, OwnerInv, MetInv, Owns
    <2>3. \A q \in Paths : seen[q] = seen[p] => (drift[q] = "duplicate" <=> q # o)
        BY <2>1, <2>2, OthersAreDuplicates DEF IInv, DriftInv
    <2> QED BY <2>2, <2>3
<1> QED BY <1>1, Invariant, PTL
=============================================================================
