-------------------------- MODULE MCIndexPipeline --------------------------
(* IndexPipeline for TLC: the sets a .cfg cannot write.                    *)
EXTENDS IndexPipeline, TLC

AnyForce  == SUBSET Paths
NoForce   == {{}}
OneForced == {{}, {1}}

ContentSymmetry == Permutations(Contents)
=============================================================================
