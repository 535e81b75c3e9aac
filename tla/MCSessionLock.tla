---------------------------- MODULE MCSessionLock ----------------------------
(* Instances of SessionLock for TLC.                                       *)
EXTENDS SessionLock, TLC

CONSTANTS t1, t2, t3, p1, p2

ThreeTasks == {t1, t2, t3}
TwoProcs   == {p1, p2}
OneProc    == {p1}

LockSymmetry == Permutations(Tasks) \cup Permutations(Procs)
=============================================================================
