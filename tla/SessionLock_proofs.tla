------------------------- MODULE SessionLock_proofs -------------------------
(***************************************************************************)
(* Theorems about SessionLock, for any number of tasks and processes.      *)
(***************************************************************************)
EXTENDS SessionLock, TLAPS

\* A task that has had the lock row of the session.
Held(u) == pc[u] \in {"create", "run", "resumed", "release", "off"}

\* The row in the table, and the row an acquire has read, name such a task; if
\* the row is old, the task is past its creation.
LockOK == lock # NoTask => Held(lock) /\ (old => pc[lock] # "create")

SeenOK == \A t \in Tasks : pc[t] \in {"judge", "clear"} =>
             /\ seen[t].task \in Tasks
             /\ Held(seen[t].task)
             /\ seen[t].old => pc[seen[t].task] # "create"

\* The verdict of shouldClearLock never expires: a task that has ended, or died
\* before it had a row, does not come back.
ClearOK == \A t \in Tasks : pc[t] = "clear" => ~Unfinished(seen[t].task)

IInv == TypeOK /\ HolderKeepsLock /\ LockOK /\ SeenOK /\ ClearOK

\* In an empty table nobody holds, reads or clears anything.
LEMMA InitIInv == Init => IInv
<1> SUFFICES ASSUME Init PROVE IInv
  OBVIOUS
<1> USE TaskAssumption DEF Init
<1>1. TypeOK
  BY DEF TypeOK, RowOfPc, PcValue, RowStatus, Acquiring, Executing, NothingSeen
<1>2. HolderKeepsLock
  BY DEF HolderKeepsLock, Unfinished, Executing
<1>3. LockOK /\ SeenOK /\ ClearOK
  BY DEF LockOK, SeenOK, ClearOK
<1>4. QED
  BY <1>1, <1>2, <1>3 DEF IInv

\* The types alone.
LEMMA TypeStep == TypeOK /\ [Next]_vars => TypeOK'
<1> SUFFICES ASSUME TypeOK, [Next]_vars PROVE TypeOK'
  OBVIOUS
<1> USE TaskAssumption DEF TypeOK, RowOfPc, PcValue, RowStatus, Acquiring, Executing
<1>1. ASSUME NEW t \in Tasks, NEW p \in Procs, TryAcquire(t, p) PROVE TypeOK'
  <2>1. CASE Insert(t)
    BY <1>1, <2>1 DEF TryAcquire, Insert
  <2>2. CASE pc' = [pc EXCEPT ![t] = "look"] /\ UNCHANGED <<lock, old>>
    BY <1>1, <2>2 DEF TryAcquire
  <2>3. QED
    BY <1>1, <2>1, <2>2 DEF TryAcquire
<1>2. ASSUME NEW t \in Tasks, FindExistingLock(t) PROVE TypeOK'
  BY <1>2 DEF FindExistingLock, Refuse
<1>3. ASSUME NEW t \in Tasks, JudgeLock(t) PROVE TypeOK'
  BY <1>3 DEF JudgeLock, Refuse
<1>4. ASSUME NEW t \in Tasks, DeleteLock(t) PROVE TypeOK'
  BY <1>4 DEF DeleteLock
<1>5. ASSUME NEW t \in Tasks, TryAgain(t) PROVE TypeOK'
  <2>1. CASE Insert(t)
    BY <1>5, <2>1 DEF TryAgain, Insert
  <2>2. CASE Refuse(t) /\ UNCHANGED <<lock, old>>
    BY <1>5, <2>2 DEF TryAgain, Refuse
  <2>3. QED
    BY <1>5, <2>1, <2>2 DEF TryAgain
<1>6. ASSUME NEW t \in Tasks, CreateTask(t) PROVE TypeOK'
  BY <1>6 DEF CreateTask
<1>7. ASSUME NEW t \in Tasks, Park(t) PROVE TypeOK'
  BY <1>7 DEF Park
<1>8. ASSUME NEW t \in Tasks, End(t) PROVE TypeOK'
  BY <1>8 DEF End
<1>9. ASSUME NEW t \in Tasks, Release(t) PROVE TypeOK'
  BY <1>9 DEF Release, AfterRelease
<1>10. ASSUME NEW t \in Tasks, NEW p \in Procs, Resume(t, p) PROVE TypeOK'
  BY <1>10 DEF Resume, Waiting
<1>11. ASSUME NEW t \in Tasks, NEW p \in Procs, FailWaiting(t, p) PROVE TypeOK'
  BY <1>11 DEF FailWaiting, Waiting
<1>12. ASSUME NEW t \in Tasks, Retire(t) PROVE TypeOK'
  BY <1>12 DEF Retire, NothingSeen
<1>13. CASE LockAges
  BY <1>13 DEF LockAges
<1>14. ASSUME NEW p \in Procs, Crash(p) PROVE TypeOK'
  BY <1>14 DEF Crash
<1>15. CASE UNCHANGED vars
  BY <1>15 DEF vars
<1>16. QED
  BY <1>1, <1>2, <1>3, <1>4, <1>5, <1>6, <1>7, <1>8, <1>9, <1>10, <1>11, <1>12, <1>13,
     <1>14, <1>15 DEF Next, AcquireStep, TaskStep

\* Only DeleteLock can take the lock from a task that has not ended, and ClearOK
\* says that such a task is not the one it judged.
LEMMA HolderStep == IInv /\ [Next]_vars => HolderKeepsLock'
<1> SUFFICES ASSUME IInv, [Next]_vars PROVE HolderKeepsLock'
  OBVIOUS
<1>0. TypeOK /\ HolderKeepsLock /\ LockOK /\ SeenOK /\ ClearOK
  BY DEF IInv
<1> USE TaskAssumption DEF TypeOK, RowOfPc, RowStatus, PcValue, Acquiring, Executing,
                           HolderKeepsLock, Unfinished
<1>1. ASSUME NEW t \in Tasks, NEW p \in Procs, TryAcquire(t, p) PROVE HolderKeepsLock'
  BY <1>0, <1>1 DEF TryAcquire, Insert
<1>2. ASSUME NEW t \in Tasks, FindExistingLock(t) PROVE HolderKeepsLock'
  BY <1>0, <1>2 DEF FindExistingLock, Refuse
<1>3. ASSUME NEW t \in Tasks, JudgeLock(t) PROVE HolderKeepsLock'
  BY <1>0, <1>3 DEF JudgeLock, Refuse, ShouldClear
<1>4. ASSUME NEW t \in Tasks, DeleteLock(t) PROVE HolderKeepsLock'
  BY <1>0, <1>4 DEF DeleteLock, ClearOK
<1>5. ASSUME NEW t \in Tasks, TryAgain(t) PROVE HolderKeepsLock'
  BY <1>0, <1>5 DEF TryAgain, Insert, Refuse
<1>6. ASSUME NEW t \in Tasks, CreateTask(t) PROVE HolderKeepsLock'
  BY <1>0, <1>6 DEF CreateTask
<1>7. ASSUME NEW t \in Tasks, Park(t) PROVE HolderKeepsLock'
  BY <1>0, <1>7 DEF Park
<1>8. ASSUME NEW t \in Tasks, End(t) PROVE HolderKeepsLock'
  BY <1>0, <1>8 DEF End
<1>9. ASSUME NEW t \in Tasks, Release(t) PROVE HolderKeepsLock'
  BY <1>0, <1>9 DEF Release, AfterRelease
<1>10. ASSUME NEW t \in Tasks, NEW p \in Procs, Resume(t, p) PROVE HolderKeepsLock'
  BY <1>0, <1>10 DEF Resume, Waiting
<1>11. ASSUME NEW t \in Tasks, NEW p \in Procs, FailWaiting(t, p) PROVE HolderKeepsLock'
  BY <1>0, <1>11 DEF FailWaiting, Waiting
<1>12. ASSUME NEW t \in Tasks, Retire(t) PROVE HolderKeepsLock'
  BY <1>0, <1>12 DEF Retire
<1>13. ASSUME LockAges PROVE HolderKeepsLock'
  BY <1>0, <1>13 DEF LockAges
<1>14. ASSUME NEW p \in Procs, Crash(p) PROVE HolderKeepsLock'
  BY <1>0, <1>14 DEF Crash
<1>15. CASE UNCHANGED vars
  BY <1>0, <1>15 DEF vars
<1>16. QED
  BY <1>1, <1>2, <1>3, <1>4, <1>5, <1>6, <1>7, <1>8, <1>9,
     <1>10, <1>11, <1>12, <1>13, <1>14, <1>15 DEF Next, AcquireStep, TaskStep

\* The tables of held locks.
LEMMA LockRowStep == IInv /\ [Next]_vars => LockOK'
<1> SUFFICES ASSUME IInv, [Next]_vars PROVE LockOK'
  OBVIOUS
<1>0. TypeOK /\ HolderKeepsLock /\ LockOK /\ SeenOK /\ ClearOK
  BY DEF IInv
<1> USE TaskAssumption DEF TypeOK, RowOfPc, RowStatus, PcValue, Acquiring, Executing,
                           LockOK, Held
<1>1. ASSUME NEW t \in Tasks, NEW p \in Procs, TryAcquire(t, p) PROVE LockOK'
  BY <1>0, <1>1 DEF TryAcquire, Insert
<1>2. ASSUME NEW t \in Tasks, FindExistingLock(t) PROVE LockOK'
  BY <1>0, <1>2 DEF FindExistingLock, Refuse
<1>3. ASSUME NEW t \in Tasks, JudgeLock(t) PROVE LockOK'
  BY <1>0, <1>3 DEF JudgeLock, Refuse, ShouldClear
<1>4. ASSUME NEW t \in Tasks, DeleteLock(t) PROVE LockOK'
  BY <1>0, <1>4 DEF DeleteLock
<1>5. ASSUME NEW t \in Tasks, TryAgain(t) PROVE LockOK'
  BY <1>0, <1>5 DEF TryAgain, Insert, Refuse
<1>6. ASSUME NEW t \in Tasks, CreateTask(t) PROVE LockOK'
  BY <1>0, <1>6 DEF CreateTask
<1>7. ASSUME NEW t \in Tasks, Park(t) PROVE LockOK'
  BY <1>0, <1>7 DEF Park
<1>8. ASSUME NEW t \in Tasks, End(t) PROVE LockOK'
  BY <1>0, <1>8 DEF End
<1>9. ASSUME NEW t \in Tasks, Release(t) PROVE LockOK'
  BY <1>0, <1>9 DEF Release, AfterRelease
<1>10. ASSUME NEW t \in Tasks, NEW p \in Procs, Resume(t, p) PROVE LockOK'
  BY <1>0, <1>10 DEF Resume, Waiting
<1>11. ASSUME NEW t \in Tasks, NEW p \in Procs, FailWaiting(t, p) PROVE LockOK'
  BY <1>0, <1>11 DEF FailWaiting, Waiting
<1>12. ASSUME NEW t \in Tasks, Retire(t) PROVE LockOK'
  BY <1>0, <1>12 DEF Retire
<1>13. ASSUME LockAges PROVE LockOK'
  BY <1>0, <1>13 DEF LockAges
<1>14. ASSUME NEW p \in Procs, Crash(p) PROVE LockOK'
  BY <1>0, <1>14 DEF Crash
<1>15. CASE UNCHANGED vars
  BY <1>0, <1>15 DEF vars
<1>16. QED
  BY <1>1, <1>2, <1>3, <1>4, <1>5, <1>6, <1>7, <1>8, <1>9,
     <1>10, <1>11, <1>12, <1>13, <1>14, <1>15 DEF Next, AcquireStep, TaskStep

\* What findExistingLock reads is a row that LockOK speaks of, and a task it has
\* read is not retired.
LEMMA SeenStep == IInv /\ [Next]_vars => SeenOK'
<1> SUFFICES ASSUME IInv, [Next]_vars PROVE SeenOK'
  OBVIOUS
<1>0. TypeOK /\ HolderKeepsLock /\ LockOK /\ SeenOK /\ ClearOK
  BY DEF IInv
<1> USE TaskAssumption DEF TypeOK, RowOfPc, RowStatus, PcValue, Acquiring, Executing,
                           SeenOK, Held
<1>1. ASSUME NEW t \in Tasks, NEW p \in Procs, TryAcquire(t, p) PROVE SeenOK'
  BY <1>0, <1>1 DEF TryAcquire, Insert
<1>2. ASSUME NEW t \in Tasks, FindExistingLock(t) PROVE SeenOK'
  BY <1>0, <1>2 DEF FindExistingLock, Refuse, LockOK
<1>3. ASSUME NEW t \in Tasks, JudgeLock(t) PROVE SeenOK'
  BY <1>0, <1>3 DEF JudgeLock, Refuse, ShouldClear
<1>4. ASSUME NEW t \in Tasks, DeleteLock(t) PROVE SeenOK'
  BY <1>0, <1>4 DEF DeleteLock
<1>5. ASSUME NEW t \in Tasks, TryAgain(t) PROVE SeenOK'
  BY <1>0, <1>5 DEF TryAgain, Insert, Refuse
<1>6. ASSUME NEW t \in Tasks, CreateTask(t) PROVE SeenOK'
  BY <1>0, <1>6 DEF CreateTask
<1>7. ASSUME NEW t \in Tasks, Park(t) PROVE SeenOK'
  BY <1>0, <1>7 DEF Park
<1>8. ASSUME NEW t \in Tasks, End(t) PROVE SeenOK'
  BY <1>0, <1>8 DEF End
<1>9. ASSUME NEW t \in Tasks, Release(t) PROVE SeenOK'
  BY <1>0, <1>9 DEF Release, AfterRelease
<1>10. ASSUME NEW t \in Tasks, NEW p \in Procs, Resume(t, p) PROVE SeenOK'
  BY <1>0, <1>10 DEF Resume, Waiting
<1>11. ASSUME NEW t \in Tasks, NEW p \in Procs, FailWaiting(t, p) PROVE SeenOK'
  BY <1>0, <1>11 DEF FailWaiting, Waiting
<1>12. ASSUME NEW t \in Tasks, Retire(t) PROVE SeenOK'
  BY <1>0, <1>12 DEF Retire
<1>13. ASSUME LockAges PROVE SeenOK'
  BY <1>0, <1>13 DEF LockAges
<1>14. ASSUME NEW p \in Procs, Crash(p) PROVE SeenOK'
  BY <1>0, <1>14 DEF Crash
<1>15. CASE UNCHANGED vars
  BY <1>0, <1>15 DEF vars
<1>16. QED
  BY <1>1, <1>2, <1>3, <1>4, <1>5, <1>6, <1>7, <1>8, <1>9,
     <1>10, <1>11, <1>12, <1>13, <1>14, <1>15 DEF Next, AcquireStep, TaskStep

\* A task judged to be over has ended, or has died before it had a row.
LEMMA ClearStep == IInv /\ [Next]_vars => ClearOK'
<1> SUFFICES ASSUME IInv, [Next]_vars PROVE ClearOK'
  OBVIOUS
<1>0. TypeOK /\ HolderKeepsLock /\ LockOK /\ SeenOK /\ ClearOK
  BY DEF IInv
<1> USE TaskAssumption DEF TypeOK, RowOfPc, RowStatus, PcValue, Acquiring, Executing,
                           ClearOK, SeenOK, Held, Unfinished
<1>1. ASSUME NEW t \in Tasks, NEW p \in Procs, TryAcquire(t, p) PROVE ClearOK'
  BY <1>0, <1>1 DEF TryAcquire, Insert
<1>2. ASSUME NEW t \in Tasks, FindExistingLock(t) PROVE ClearOK'
  BY <1>0, <1>2 DEF FindExistingLock, Refuse
<1>3. ASSUME NEW t \in Tasks, JudgeLock(t) PROVE ClearOK'
  BY <1>0, <1>3 DEF JudgeLock, Refuse, ShouldClear
<1>4. ASSUME NEW t \in Tasks, DeleteLock(t) PROVE ClearOK'
  BY <1>0, <1>4 DEF DeleteLock
<1>5. ASSUME NEW t \in Tasks, TryAgain(t) PROVE ClearOK'
  BY <1>0, <1>5 DEF TryAgain, Insert, Refuse
<1>6. ASSUME NEW t \in Tasks, CreateTask(t) PROVE ClearOK'
  BY <1>0, <1>6 DEF CreateTask
<1>7. ASSUME NEW t \in Tasks, Park(t) PROVE ClearOK'
  BY <1>0, <1>7 DEF Park
<1>8. ASSUME NEW t \in Tasks, End(t) PROVE ClearOK'
  BY <1>0, <1>8 DEF End
<1>9. ASSUME NEW t \in Tasks, Release(t) PROVE ClearOK'
  BY <1>0, <1>9 DEF Release, AfterRelease
<1>10. ASSUME NEW t \in Tasks, NEW p \in Procs, Resume(t, p) PROVE ClearOK'
  BY <1>0, <1>10 DEF Resume, Waiting
<1>11. ASSUME NEW t \in Tasks, NEW p \in Procs, FailWaiting(t, p) PROVE ClearOK'
  BY <1>0, <1>11 DEF FailWaiting, Waiting
<1>12. ASSUME NEW t \in Tasks, Retire(t) PROVE ClearOK'
  BY <1>0, <1>12 DEF Retire
<1>13. ASSUME LockAges PROVE ClearOK'
  BY <1>0, <1>13 DEF LockAges
<1>14. ASSUME NEW p \in Procs, Crash(p) PROVE ClearOK'
  BY <1>0, <1>14 DEF Crash
<1>15. CASE UNCHANGED vars
  BY <1>0, <1>15 DEF vars
<1>16. QED
  BY <1>1, <1>2, <1>3, <1>4, <1>5, <1>6, <1>7, <1>8, <1>9,
     <1>10, <1>11, <1>12, <1>13, <1>14, <1>15 DEF Next, AcquireStep, TaskStep

\* LockInvariant: the inductive invariant behind the theorems below.
THEOREM LockInvariant == Spec => []IInv
<1>1. IInv /\ [Next]_vars => IInv'
  BY TypeStep, HolderStep, LockRowStep, SeenStep, ClearStep DEF IInv
<1>2. QED
  BY InitIInv, <1>1, PTL DEF Spec

\* TypeCorrect: rows, program counters and the lock keep their types, and the
\* row of a task agrees with what is done to it.
THEOREM TypeCorrect == Spec => []TypeOK
<1>1. IInv => TypeOK
  BY DEF IInv
<1>2. QED
  BY LockInvariant, <1>1, PTL

\* LockHeldThroughout: a task keeps the lock of its session until it ends, over
\* every park, resumption and crash, in any number of processes (acquire,
\* release).
THEOREM LockHeldThroughout == Spec => []HolderKeepsLock
<1>1. IInv => HolderKeepsLock
  BY DEF IInv
<1>2. QED
  BY LockInvariant, <1>1, PTL

\* SessionExclusive: so no two tasks of a session are executed together.
THEOREM SessionExclusive == Spec => []OneTaskPerSession
<1>1. IInv => OneTaskPerSession
  BY DEF IInv, HolderKeepsLock, OneTaskPerSession, Unfinished
<1>2. QED
  BY LockInvariant, <1>1, PTL

-----------------------------------------------------------------------------
(* One process                                                             *)

OneAcquires == \A t, u \in Tasks : pc[t] \in Acquiring /\ pc[u] \in Acquiring => t = u

SeenIsLock == \A t \in Tasks : pc[t] \in {"judge", "clear"} => lock = seen[t].task

Alone == OneAcquires /\ SeenIsLock /\ usurped = {}

\* While its process acquires, nobody else touches the lock.
LEMMA AloneStep ==
  ASSUME \A p, q \in Procs : p = q
  PROVE  TypeOK /\ Alone /\ [Next]_vars => Alone'
<1> SUFFICES ASSUME TypeOK, Alone, [Next]_vars PROVE Alone'
  OBVIOUS
<1> USE TaskAssumption DEF TypeOK, Alone, OneAcquires, SeenIsLock, Acquiring, Executing
<1>0. \A t, u \in Tasks : by[t] = by[u]
  OBVIOUS
<1>01. ASSUME NEW p \in Procs, Free(p) PROVE \A t \in Tasks : pc[t] \notin Acquiring
  BY <1>01 DEF Free
<1>1. ASSUME NEW t \in Tasks, NEW p \in Procs, TryAcquire(t, p) PROVE Alone'
  BY <1>1, <1>01 DEF TryAcquire, Insert
<1>2. ASSUME NEW t \in Tasks, FindExistingLock(t) PROVE Alone'
  BY <1>2 DEF FindExistingLock, Refuse
<1>3. ASSUME NEW t \in Tasks, JudgeLock(t) PROVE Alone'
  BY <1>3 DEF JudgeLock, Refuse, ShouldClear
<1>4. ASSUME NEW t \in Tasks, DeleteLock(t) PROVE Alone'
  BY <1>4 DEF DeleteLock
<1>5. ASSUME NEW t \in Tasks, TryAgain(t) PROVE Alone'
  BY <1>5 DEF TryAgain, Insert, Refuse
<1>6. ASSUME NEW t \in Tasks, CreateTask(t) PROVE Alone'
  BY <1>6 DEF CreateTask
<1>7. ASSUME NEW t \in Tasks, Park(t) PROVE Alone'
  BY <1>7, <1>01 DEF Park
<1>8. ASSUME NEW t \in Tasks, End(t) PROVE Alone'
  BY <1>8, <1>01 DEF End
<1>9. ASSUME NEW t \in Tasks, Release(t) PROVE Alone'
  BY <1>9, <1>01 DEF Release, AfterRelease
<1>10. ASSUME NEW t \in Tasks, NEW p \in Procs, Resume(t, p) PROVE Alone'
  BY <1>10, <1>01 DEF Resume, Waiting
<1>11. ASSUME NEW t \in Tasks, NEW p \in Procs, FailWaiting(t, p) PROVE Alone'
  BY <1>11, <1>01 DEF FailWaiting, Waiting
<1>12. ASSUME NEW t \in Tasks, Retire(t) PROVE Alone'
  BY <1>12 DEF Retire
<1>13. ASSUME LockAges PROVE Alone'
  BY <1>13 DEF LockAges
<1>14. ASSUME NEW p \in Procs, Crash(p) PROVE Alone'
  BY <1>14, <1>0 DEF Crash
<1>15. CASE UNCHANGED vars
  BY <1>15 DEF vars
<1>16. QED
  BY <1>1, <1>2, <1>3, <1>4, <1>5, <1>6, <1>7, <1>8, <1>9, <1>10, <1>11, <1>12, <1>13,
     <1>14, <1>15 DEF Next, AcquireStep, TaskStep

\* LoneProcessExclusive: with one process no lock is ever taken from a task that
\* has not ended, so the exceptions of the theorems above never arise.
THEOREM LoneProcessExclusive == Spec => []NeverUsurped
<1>1. CASE \A p, q \in Procs : p = q
  <2>1. Init => Alone
    BY DEF Init, Alone, OneAcquires, SeenIsLock, Acquiring
  <2>2. TypeOK /\ Alone /\ [Next]_vars => Alone'
    BY <1>1, AloneStep
  <2>3. Spec => []Alone
    BY <2>1, <2>2, TypeCorrect, PTL DEF Spec
  <2>4. Alone => NeverUsurped
    BY DEF Alone, NeverUsurped
  <2>5. QED
    BY <2>3, <2>4, PTL
<1>2. CASE ~(\A p, q \in Procs : p = q)
  <2>1. NeverUsurped
    BY <1>2 DEF NeverUsurped
  <2>2. QED
    BY <2>1, PTL
<1>3. QED
  BY <1>1, <1>2
=============================================================================
