CONSTANTS
    Procs = {p1, p2}
    Questions = {q1, q2}
    Files = {f1, f2}
    Runs = {r1, r2, r3, r4}
    KeepRuns = 2
    MaxNow = 2
    Nil = Nil
SPECIFICATION Spec
SYMMETRY Symmetry
CHECK_DEADLOCK FALSE
INVARIANTS
    ResumesWhereItDied
