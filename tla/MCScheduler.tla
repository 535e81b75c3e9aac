----------------------------- MODULE MCScheduler -----------------------------
(* Instances of Scheduler for TLC.                                         *)
EXTENDS Scheduler, TLC

CONSTANTS s1, s2, p1, p2, r1, r2, r3

OneSchedule == {s1}
OneProc     == {p1}
TwoProcs    == {p1, p2}
TwoRuns     == {r1, r2}
ThreeRuns   == {r1, r2, r3}

RunSymmetry  == Permutations(Runs)
FullSymmetry == Permutations(Runs) \cup Permutations(Procs)
=============================================================================
