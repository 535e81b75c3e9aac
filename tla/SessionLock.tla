----------------------------- MODULE SessionLock -----------------------------
(***************************************************************************)
(* The execution lock of one session (session-execution-lock.ts), and the  *)
(* tasks that take it (session-facade.ts), resume under it and give it     *)
(* back (the two resolution facades).  The rows of different sessions are  *)
(* independent.  Every statement on the database is a step of its own:     *)
(* acquire is four of them, and processes interleave between any two.      *)
(*                                                                         *)
(* Not modelled: allowParallelSessions, under which nothing here runs, and *)
(* delegated child tasks, which run in their parent's session without a    *)
(* lock while the parent waits for them.                                   *)
(***************************************************************************)
EXTENDS FiniteSets

CONSTANTS
  Tasks,    \* the identifiers of tasks that can exist at the same time
  Procs,    \* processes that share the database
  NoTask,   \* no row
  Env       \* what may go wrong: "crash"

ASSUME TaskAssumption == NoTask \notin Tasks

VARIABLES
  lock,     \* the task in the session's row of session_locks, or NoTask
  old,      \* the row is older than staleLockMs
  row,      \* the status of each task in the tasks table
  pc,       \* what the process that works on a task is about to do
  by,       \* that process
  seen,     \* the lock row a refused INSERT found, and whether it was old
  usurped   \* history: tasks whose lock another task deleted unjudged

vars == <<lock, old, row, pc, by, seen, usurped>>

\* "absent" until kernel.run inserts it, "waiting" for an approval or an
\* answer, "done" in a terminal status.
RowStatus == {"absent", "running", "waiting", "done"}

\* Inside acquire, and from there to the first await of kernel.run.
Acquiring == {"look", "judge", "clear", "again", "create"}

\* The agent loop works on the task: first run, or resumed by a reviewer.
Executing == {"run", "resumed"}

PcValue == {"new", "release", "off"} \cup Acquiring \cup Executing

NothingSeen == [task |-> NoTask, old |-> FALSE]

Init ==
  /\ lock    = NoTask
  /\ old     = FALSE
  /\ row     = [t \in Tasks |-> "absent"]
  /\ pc      = [t \in Tasks |-> "new"]
  /\ by \in [Tasks -> Procs]
  /\ seen    = [t \in Tasks |-> NothingSeen]
  /\ usurped = {}

\* JavaScript runs to completion: a process inside acquire does nothing else.
Free(p) == \A t \in Tasks : by[t] = p => pc[t] \notin Acquiring

-----------------------------------------------------------------------------
(* SessionExecutionLock.acquire                                            *)

\* INSERT INTO session_locks: the session is its primary key.
Insert(t) ==
  /\ lock = NoTask
  /\ lock' = t
  /\ old'  = FALSE
  /\ pc'   = [pc EXCEPT ![t] = "create"]

\* runTask: the first tryAcquire.
TryAcquire(t, p) ==
  /\ pc[t] = "new"
  /\ Free(p)
  /\ by' = [by EXCEPT ![t] = p]
  /\ \/ Insert(t)
     \/ lock # NoTask /\ pc' = [pc EXCEPT ![t] = "look"] /\ UNCHANGED <<lock, old>>
  /\ UNCHANGED <<row, seen, usurped>>

\* session_busy is thrown; the task never gets a row.
Refuse(t) == pc' = [pc EXCEPT ![t] = "off"]

\* findExistingLock.  A row that has been released meanwhile is no reason to
\* try again: the task is refused.
FindExistingLock(t) ==
  /\ pc[t] = "look"
  /\ seen' = [seen EXCEPT ![t] = [task |-> lock, old |-> old]]
  /\ IF lock = NoTask THEN Refuse(t) ELSE pc' = [pc EXCEPT ![t] = "judge"]
  /\ UNCHANGED <<lock, old, row, by, usurped>>

\* Seeded fault: any task that is not running counts as finished.
ShouldClearWaiting(t) ==
  IF row[seen[t].task] # "absent" THEN row[seen[t].task] # "running" ELSE seen[t].old

\* shouldClearLock: the holder has ended, or never came to insert its row.
ShouldClear(t) ==
  IF row[seen[t].task] # "absent" THEN row[seen[t].task] = "done" ELSE seen[t].old

JudgeLock(t) ==
  /\ pc[t] = "judge"
  /\ IF ShouldClear(t) THEN pc' = [pc EXCEPT ![t] = "clear"] ELSE Refuse(t)
  /\ UNCHANGED <<lock, old, row, by, seen, usurped>>

\* deleteLock deletes the session's row, whoever's it is by now.
DeleteLock(t) ==
  /\ pc[t] = "clear"
  /\ lock'    = NoTask
  /\ usurped' = usurped \cup ({lock} \ {NoTask, seen[t].task})
  /\ pc'      = [pc EXCEPT ![t] = "again"]
  /\ UNCHANGED <<old, row, by, seen>>

\* The second tryAcquire.
TryAgain(t) ==
  /\ pc[t] = "again"
  /\ \/ Insert(t)
     \/ lock # NoTask /\ Refuse(t) /\ UNCHANGED <<lock, old>>
  /\ UNCHANGED <<row, by, seen, usurped>>

-----------------------------------------------------------------------------
(* The task under the lock                                                 *)

\* kernel.run up to its first await.  supersedeStaleSessionTasks changes
\* nothing: it looks for running tasks among those listed in session_tasks,
\* and a task is listed only once it has ended.
CreateTask(t) ==
  /\ pc[t] = "create"
  /\ row' = [row EXCEPT ![t] = "running"]
  /\ pc'  = [pc EXCEPT ![t] = "run"]
  /\ UNCHANGED <<lock, old, by, seen, usurped>>

\* The loop parks the task: whoever ran it returns and keeps the lock.
Park(t) ==
  /\ pc[t] \in Executing
  /\ Free(by[t])
  /\ row' = [row EXCEPT ![t] = "waiting"]
  /\ pc'  = [pc EXCEPT ![t] = "off"]
  /\ UNCHANGED <<lock, old, by, seen, usurped>>

\* The task ends.  runTask releases the lock whether kernel.run returns or
\* throws, a facade only when resumeTask returns.
End(t) ==
  /\ pc[t] \in Executing
  /\ Free(by[t])
  /\ row' = [row EXCEPT ![t] = "done"]
  /\ \/ pc' = [pc EXCEPT ![t] = "release"]
     \/ pc[t] = "resumed" /\ pc' = [pc EXCEPT ![t] = "off"]
  /\ UNCHANGED <<lock, old, by, seen, usurped>>

\* Seeded fault: release deletes the session's row, whoever's it is.
AfterBlindRelease(t) == IF t \in Tasks THEN NoTask ELSE lock

\* DELETE FROM session_locks WHERE session_id = ? AND task_id = ?
AfterRelease(t) == IF lock = t THEN NoTask ELSE lock

Release(t) ==
  /\ pc[t] = "release"
  /\ Free(by[t])
  /\ lock' = AfterRelease(t)
  /\ pc'   = [pc EXCEPT ![t] = "off"]
  /\ UNCHANGED <<old, row, by, seen, usurped>>

\* Seeded fault: the checks of resumeTask and failWaitingClarificationTask
\* let a running task pass.
WaitingOrRunning(t) == row[t] \in {"waiting", "running"}

\* The status check of both.
Waiting(t) == row[t] = "waiting"

\* A reviewer answers, in any process: the lock the task parked with is not
\* looked at.
Resume(t, p) ==
  /\ Waiting(t)
  /\ Free(p)
  /\ row' = [row EXCEPT ![t] = "running"]
  /\ pc'  = [pc EXCEPT ![t] = "resumed"]
  /\ by'  = [by EXCEPT ![t] = p]
  /\ UNCHANGED <<lock, old, seen, usurped>>

\* failWaitingClarificationTask: the task fails, its lock stays.
FailWaiting(t, p) ==
  /\ Waiting(t)
  /\ Free(p)
  /\ row' = [row EXCEPT ![t] = "done"]
  /\ UNCHANGED <<lock, old, pc, by, seen, usurped>>

-----------------------------------------------------------------------------
(* Time, crashes, identifiers                                              *)

\* staleLockMs pass.  They are five minutes: no process takes them from its
\* INSERT to the row of its task.
LockAges ==
  /\ lock # NoTask
  /\ ~old
  /\ pc[lock] # "create"
  /\ old' = TRUE
  /\ UNCHANGED <<lock, row, pc, by, seen, usurped>>

\* A process dies; rows and lock stay, and nothing looks for them later.
Crash(p) ==
  /\ "crash" \in Env
  /\ pc' = [t \in Tasks |-> IF by[t] = p /\ pc[t] # "new" THEN "off" ELSE pc[t]]
  /\ UNCHANGED <<lock, old, row, by, seen, usurped>>

\* Bound: the identifier of a task that has ended, or never began, and that no
\* row or process refers to is used again.
Retire(t) ==
  /\ pc[t] = "off"
  /\ row[t] \in {"absent", "done"}
  /\ lock # t
  /\ \A u \in Tasks : pc[u] \in Acquiring => seen[u].task # t
  /\ row'     = [row EXCEPT ![t] = "absent"]
  /\ pc'      = [pc EXCEPT ![t] = "new"]
  /\ seen'    = [seen EXCEPT ![t] = NothingSeen]
  /\ usurped' = usurped \ {t}
  /\ UNCHANGED <<lock, old, by>>

-----------------------------------------------------------------------------
AcquireStep(t) ==
  \/ \E p \in Procs : TryAcquire(t, p)
  \/ FindExistingLock(t) \/ JudgeLock(t) \/ DeleteLock(t) \/ TryAgain(t)

TaskStep(t) ==
  \/ CreateTask(t) \/ Park(t) \/ End(t) \/ Release(t)
  \/ \E p \in Procs : Resume(t, p) \/ FailWaiting(t, p)

Next ==
  \/ \E t \in Tasks : AcquireStep(t) \/ TaskStep(t) \/ Retire(t)
  \/ LockAges
  \/ \E p \in Procs : Crash(p)

Spec == Init /\ [][Next]_vars

-----------------------------------------------------------------------------
(* Properties                                                              *)

\* With the types: a task has no row before its acquire succeeds, it is marked
\* running as long as the agent loop works on it, and done before its release.
RowOfPc(t) ==
  /\ pc[t] \in {"new"} \cup Acquiring => row[t] = "absent"
  /\ pc[t] \in Executing => row[t] = "running"
  /\ pc[t] = "release" => row[t] = "done"

TypeOK ==
  /\ lock \in Tasks \cup {NoTask}
  /\ old \in BOOLEAN
  /\ row \in [Tasks -> RowStatus]
  /\ pc \in [Tasks -> PcValue]
  /\ by \in [Tasks -> Procs]
  /\ seen \in [Tasks -> [task : Tasks \cup {NoTask}, old : BOOLEAN]]
  /\ usurped \subseteq Tasks
  /\ \A t \in Tasks : RowOfPc(t)

\* A task that has got through acquire and has not ended.
Unfinished(t) == pc[t] \in {"create"} \cup Executing \/ row[t] \in {"running", "waiting"}

\* From acquire to its end, through every wait for a reviewer, a task keeps
\* the lock of its session: no release of an earlier task and no clearing of an
\* abandoned lock takes it away, unless two tasks cleared the same lock.
HolderKeepsLock == \A t \in Tasks : Unfinished(t) /\ t \notin usurped => lock = t

\* "Session ... already has an active task": the agent loop never works on two
\* tasks of a session together, again unless two tasks cleared the same
\* abandoned lock.
OneTaskPerSession ==
  \A t, u \in Tasks \ usurped : pc[t] \in Executing /\ pc[u] \in Executing => t = u

\* With one process no lock is cleared twice, so that the two properties above
\* hold of every task.
NeverUsurped == (\A p, q \in Procs : p = q) => usurped = {}
=============================================================================
