------------------------- MODULE MCEvaluationCache -------------------------
(* EvaluationCache for TLC: the symmetric sets.                            *)
EXTENDS EvaluationCache, TLC

Symmetry == Permutations(Procs) \cup Permutations(Questions)
            \cup Permutations(Files) \cup Permutations(Runs)
=============================================================================
