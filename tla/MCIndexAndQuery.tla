-------------------------- MODULE MCIndexAndQuery --------------------------
(* IndexAndQuery for TLC: the sets a .cfg cannot write.                    *)
EXTENDS IndexAndQuery, TLC

AnyForce  == SUBSET Paths
NoForce   == {{}}
OneForced == {{}, {1}}

ContentSymmetry == Permutations(Contents)
=============================================================================
