------------------------------ MODULE Scheduler ------------------------------
(***************************************************************************)
(* Durable schedules and their background runs: SchedulerService,          *)
(* JobRunner, ScheduleRunLifecycle, the two SQLite tables `schedules' and  *)
(* `schedule_runs', and the places where an approval or a clarification    *)
(* hands a run back to the agent.                                          *)
(*                                                                         *)
(* Several operating system processes (TUI, gateway, web, CLI) may open    *)
(* the same database.  A process runs its JavaScript without interruption  *)
(* between two awaits, but its calls of the repositories commit one by one *)
(* and those of two processes interleave: an action here is at most one    *)
(* writing call (its SELECT, its check and its UPDATE together; claimDue   *)
(* is two, since its SELECT is outside its transaction; the update of the  *)
(* repeat counter goes with the status of the run it follows), and a       *)
(* process that is between two awaits does nothing else (Free).            *)
(*                                                                         *)
(* Time is abstracted to what the guards read: a schedule's nextFireAt is  *)
(* "none", "later" or "due", its runAt (one-shot schedules only) "future"  *)
(* or "past", and a queued run is ready once its scheduledAt has come.     *)
(***************************************************************************)
EXTENDS Integers, FiniteSets

CONSTANTS
  Schedules,      \* identifiers of schedules
  Runs,           \* identifiers of rows of schedule_runs
  Procs,          \* processes that share the database
  Tickers,        \* those of them that run the scheduler (autoStart)
  NoRun,          \* "this process has no current run"
  MaxAttempts,    \* schedule.maxAttempts
  MaxRepeat,      \* bound on the repeatRemaining a user may ask for
  MaxResumes,     \* bound on the executions resumed at the same time
  Timings,        \* the runAt a user may ask for: "none" is a recurring schedule
  Env             \* what users, reviewers and the machine do in an instance

ASSUME TickerAssumption == Tickers \subseteq Procs
ASSUME RunAssumption   == NoRun \notin Runs
ASSUME BoundAssumption ==
  MaxAttempts \in Nat \ {0} /\ MaxRepeat \in Nat /\ MaxResumes \in Nat
ASSUME TimingAssumption == Timings \subseteq {"none", "future", "past"}

\* Everything Env may hold.
Happenings == {"pause", "archive", "edit", "runNow", "overlap", "answer", "deny",
               "cancel", "refuse", "crash"}

ASSUME EnvAssumption == Env \subseteq Happenings

VARIABLES
  schedules,      \* table schedules
  runs,           \* table schedule_runs
  lastAttempt,    \* attemptNumber of the latest run of a schedule, 0 if none
  task,           \* status of the task a run started
  pc,             \* where the tick of a process is
  due,            \* snapshot of findDue this tick still has to look at
  skipped,        \* schedules this tick skipped because a run was active
  picked,         \* rows selected, then claimed, and not yet executed
  cur,            \* run this tick is enqueuing or executing
  outcome,        \* task status returned by the execution of cur
  retick,         \* pendingRetick
  stale,          \* the tick is in a second pass, with the `now' of the first
  resumes         \* executions resumed by an approval or a clarification

tickVars   == <<pc, due, skipped, picked, cur, outcome, retick, stale>>
vars == <<schedules, runs, lastAttempt, task, resumes, tickVars>>

-----------------------------------------------------------------------------
(* Rows and their legal status changes                                     *)

ScheduleStatus == {"active", "paused", "completed", "archived"}
ScheduleRow ==
  [status : ScheduleStatus \cup {"absent"},
   next   : {"none", "later", "due"},
   runAt  : {"none", "future", "past"},
   repeat : 0 .. MaxRepeat]              \* 0 stands for null: no repeat limit

Active    == {"queued", "running", "waiting_approval", "blocked"}
Terminal  == {"completed", "failed", "cancelled"}
RunStatus == Active \cup Terminal

RunRow ==
  [status  : RunStatus \cup {"absent"},
   sched   : Schedules,
   attempt : 0 .. MaxAttempts + 1,
   trigger : {"scheduled", "manual", "retry"},
   ready   : BOOLEAN,                    \* scheduledAt has come
   busy    : BOOLEAN]                    \* its session was busy when it ran

NoRow(s) == [status |-> "absent", sched |-> s, attempt |-> 0,
             trigger |-> "manual", ready |-> FALSE, busy |-> FALSE]

TaskStatus == {"none", "running", "waiting_approval", "waiting_clarification",
               "succeeded", "failed", "cancelled"}
TaskDone   == {"succeeded", "failed", "cancelled"}

\* A resumed execution: `result' is "none" until it returns.
Resume == [by : Procs, run : Runs, result : TaskStatus]

\* SCHEDULE_RUN_STATUS_TRANSITIONS
Transitions ==
  [s \in RunStatus |->
     CASE s = "queued"           -> {"running", "cancelled"}
       [] s = "running"          -> {"waiting_approval", "blocked"} \cup Terminal
       [] s = "waiting_approval" -> {"running"} \cup Terminal
       [] s = "blocked"          -> {"running", "failed", "cancelled"}
       [] OTHER                  -> {}]

\* The check of ScheduleRunRepository.update: it throws when this is FALSE.
CanMove(from, to) == from = to \/ to \in Transitions[from]

\* JobRunner.mapTaskStatus and mapTaskStatusToRunStatus, on the statuses an
\* execution can return.
RunStatusOf(t) ==
  CASE t = "succeeded"        -> "completed"
    [] t = "failed"           -> "failed"
    [] t = "cancelled"        -> "cancelled"
    [] t = "waiting_approval" -> "waiting_approval"
    [] OTHER                  -> "blocked"

ActiveRuns(s) == {r \in Runs : runs[r].sched = s /\ runs[r].status \in Active}

\* Seeded fault: only a queued run is seen as standing in the way.
HasQueued(s) == \E r \in ActiveRuns(s) : runs[r].status = "queued"

\* findActiveByScheduleId, and the unique index idx_schedule_runs_one_active.
HasActive(s) == ActiveRuns(s) # {}

FreshRuns == {r \in Runs : runs[r].status = "absent"}

\* Seeded fault: retries are not selected.
QueuedNotRetried ==
  {r \in Runs : runs[r].status = "queued" /\ runs[r].ready /\ runs[r].trigger # "retry"}

\* What claimDue selects.
Queued == {r \in Runs : runs[r].status = "queued" /\ runs[r].ready}

\* Seeded fault: the UPDATE of claimDue without AND status = 'queued'.
ClaimableBlindly(r) == r \in Runs

\* The guard of claimDue's UPDATE.
Claimable(r) == runs[r].status = "queued"

\* Attempt numbers are only compared with MaxAttempts, so they saturate just
\* above it: no guard can tell the difference.
NextAttempt(n) == IF n > MaxAttempts THEN n ELSE n + 1

\* ScheduleRunRepository.create.  Its caller has to respect the unique index
\* idx_schedule_runs_one_active: INSERT throws if s has an active run.
CreateRun(r, s, n, how, isReady) ==
  /\ runs' = [runs EXCEPT ![r] =
       [status |-> "queued", sched |-> s, attempt |-> n, trigger |-> how,
        ready |-> isReady, busy |-> FALSE]]
  /\ lastAttempt' = [lastAttempt EXCEPT ![s] = n]

SetStatus(r, to) == [runs EXCEPT ![r].status = to]

-----------------------------------------------------------------------------
(* The process                                                             *)

Init ==
  /\ schedules = [s \in Schedules |-> [status |-> "absent", next |-> "none",
                                       runAt |-> "none", repeat |-> 0]]
  /\ \E s \in Schedules :
       runs = [r \in Runs |-> NoRow(s)]
  /\ lastAttempt = [s \in Schedules |-> 0]
  /\ task    = [r \in Runs |-> "none"]
  /\ pc      = [p \in Procs |-> "idle"]
  /\ due     = [p \in Procs |-> {}]
  /\ skipped = [p \in Procs |-> {}]
  /\ picked  = [p \in Procs |-> {}]
  /\ cur     = [p \in Procs |-> NoRun]
  /\ outcome = [p \in Procs |-> "none"]
  /\ retick  = [p \in Procs |-> FALSE]
  /\ stale   = [p \in Procs |-> FALSE]
  /\ resumes = {}

\* The tick of a process awaits its timer or an execution.
AtAwait(p) == pc[p] \in {"idle", "executing"}

\* A process may do something new only while its tick is at an await and no
\* resumed execution has just returned to it.
Free(p) == AtAwait(p) /\ \A e \in resumes : e.by = p => e.result = "none"

-----------------------------------------------------------------------------
(* Commands: any process, at any await                                     *)

UnchangedButSchedules == UNCHANGED <<runs, lastAttempt, task, resumes, tickVars>>

\* The nextFireAt of a schedule with this runAt: the runAt itself, or the next
\* slot after now of a recurring schedule.
FirstFire(at) == IF at = "past" THEN "due" ELSE "later"

\* createSchedule: repository.create always stores status "active".
CreateSchedule(p, s) ==
  /\ Free(p)
  /\ schedules[s].status = "absent"
  /\ \E n \in 0 .. MaxRepeat, at \in Timings :
       schedules' = [schedules EXCEPT ![s] =
         [status |-> "active", next |-> FirstFire(at), runAt |-> at, repeat |-> n]]
  /\ UnchangedButSchedules

Editable(s) == schedules[s].status \notin {"absent", "archived"}

PauseSchedule(p, s) ==
  /\ "pause" \in Env
  /\ Free(p)
  /\ Editable(s)
  /\ schedules' = [schedules EXCEPT ![s].status = "paused"]
  /\ UnchangedButSchedules

\* computeResumeFireAt: a one-shot schedule gets its old runAt back.
ResumeSchedule(p, s) ==
  /\ "pause" \in Env
  /\ Free(p)
  /\ Editable(s)
  /\ schedules' = [schedules EXCEPT ![s].status = "active",
                                    ![s].next = FirstFire(schedules[s].runAt)]
  /\ UnchangedButSchedules

ArchiveSchedule(p, s) ==
  /\ "archive" \in Env
  /\ Free(p)
  /\ schedules[s].status # "absent"
  /\ schedules' = [schedules EXCEPT ![s].status = "archived", ![s].next = "none"]
  /\ UnchangedButSchedules

\* Seeded fault: an edit leaves a completed schedule completed.
StatusKept(status) == status

\* An edit of the time of a completed schedule revives it.
StatusAfterEdit(status) == IF status = "completed" THEN "active" ELSE status

\* updateSchedule with a new time (or, below, a new timezone or repeat count).
\* Edits of names, prompts, backoff and delivery touch nothing modelled here.
UpdateTiming(p, s) ==
  /\ "edit" \in Env
  /\ Free(p)
  /\ Editable(s)
  /\ \E at \in Timings :
       schedules' = [schedules EXCEPT
         ![s].runAt  = at,
         ![s].next   = FirstFire(at),
         ![s].status = StatusAfterEdit(@)]
  /\ UnchangedButSchedules

\* A new timezone alone moves the next slot of a recurring schedule, and does
\* so even when the schedule is completed.
UpdateTimezone(p, s) ==
  /\ "edit" \in Env
  /\ Free(p)
  /\ Editable(s)
  /\ schedules[s].runAt = "none"
  /\ schedules' = [schedules EXCEPT ![s].next = "later"]
  /\ UnchangedButSchedules

UpdateRepeat(p, s) ==
  /\ "edit" \in Env
  /\ Free(p)
  /\ Editable(s)
  /\ \E n \in 0 .. MaxRepeat : schedules' = [schedules EXCEPT ![s].repeat = n]
  /\ UnchangedButSchedules

\* runNow: refused while a run is active, by the check or by the unique index.
RunNow(p, s) ==
  /\ "runNow" \in Env
  /\ Free(p)
  /\ Editable(s)
  /\ ~HasActive(s)
  /\ \E r \in FreshRuns :
       CreateRun(r, s, NextAttempt(lastAttempt[s]), "manual", TRUE)
  /\ UNCHANGED <<schedules, task, resumes, tickVars>>

-----------------------------------------------------------------------------
(* SchedulerService.tick                                                   *)

Snapshot(s) == [sched |-> s, runAt |-> schedules[s].runAt, repeat |-> schedules[s].repeat]

\* Seeded fault: findDue is blind to one-shots.
FindDueRecurring == {s \in Schedules : /\ schedules[s].status = "active"
                                       /\ schedules[s].next = "due"
                                       /\ schedules[s].runAt = "none"}

\* findDue: only active schedules whose nextFireAt has come.
FindDue == {s \in Schedules : schedules[s].status = "active" /\ schedules[s].next = "due"}

TickBegin(p) ==
  /\ p \in Tickers
  /\ Free(p)
  /\ pc[p] = "idle"
  /\ pc'      = [pc EXCEPT ![p] = "enqueue"]
  /\ due'     = [due EXCEPT ![p] = {Snapshot(s) : s \in FindDue}]
  /\ skipped' = [skipped EXCEPT ![p] = {}]
  /\ retick'  = [retick EXCEPT ![p] = FALSE]
  /\ stale'   = [stale EXCEPT ![p] = FALSE]
  /\ UNCHANGED <<schedules, runs, lastAttempt, task, picked, cur, outcome, resumes>>

\* A tick that finds tickInProgress set only asks for another pass.
TickAgain(p) ==
  /\ "overlap" \in Env
  /\ Free(p)
  /\ pc[p] = "executing"
  /\ ~retick[p]
  /\ retick' = [retick EXCEPT ![p] = TRUE]
  /\ UNCHANGED <<schedules, runs, lastAttempt, task, resumes,
                 pc, due, skipped, picked, cur, outcome, stale>>

\* recordRunSkippedOverlap: nextFireAt stays where it is.
SkipOverlap(p) ==
  /\ pc[p] = "enqueue"
  /\ \E d \in due[p] :
       /\ HasActive(d.sched)
       /\ due'     = [due EXCEPT ![p] = @ \ {d}]
       /\ skipped' = [skipped EXCEPT ![p] = @ \cup {d.sched}]
  /\ UNCHANGED <<schedules, runs, lastAttempt, task, resumes,
                 pc, picked, cur, outcome, retick, stale>>

\* enqueueScheduledRun, first statement: the new row.
EnqueueScheduledRun(p) ==
  /\ pc[p] = "enqueue"
  /\ \E d \in due[p], r \in FreshRuns :
       /\ ~HasActive(d.sched)
       /\ CreateRun(r, d.sched, NextAttempt(lastAttempt[d.sched]), "scheduled", TRUE)
       /\ cur'    = [cur EXCEPT ![p] = r]
       /\ picked' = [picked EXCEPT ![p] = @ \cup {r}]
  /\ pc' = [pc EXCEPT ![p] = "advance"]
  /\ UNCHANGED <<schedules, task, resumes, due, skipped, outcome, retick, stale>>

\* enqueueScheduledRun, second statement: nextFireAt and status, computed from
\* the snapshot findDue returned (whose status was "active").
AdvanceSchedule(p) ==
  /\ pc[p] = "advance"
  /\ \E d \in due[p] :
       /\ d.sched = runs[cur[p]].sched
       /\ schedules' = [schedules EXCEPT
            ![d.sched].next   = IF d.runAt = "none" THEN "later" ELSE "none",
            ![d.sched].status = IF d.runAt = "none" \/ d.repeat > 0
                                THEN "active" ELSE "completed"]
       /\ due' = [due EXCEPT ![p] = @ \ {d}]
  /\ cur' = [cur EXCEPT ![p] = NoRun]
  /\ pc'  = [pc EXCEPT ![p] = "enqueue"]
  /\ UNCHANGED <<runs, lastAttempt, task, resumes,
                 skipped, picked, outcome, retick, stale>>

\* claimDue, SELECT.  The second pass keeps the `now' of the first, so only
\* what it has just enqueued is still queued and not after `now'.
SelectDue(p) ==
  /\ pc[p] = "enqueue"
  /\ due[p] = {}
  /\ picked' = [picked EXCEPT ![p] = IF stale[p] THEN @ \cap Queued ELSE Queued]
  /\ pc'     = [pc EXCEPT ![p] = "claim"]
  /\ UNCHANGED <<schedules, runs, lastAttempt, task, resumes,
                 due, skipped, cur, outcome, retick, stale>>

\* claimDue, UPDATE ... WHERE status = 'queued' in one immediate transaction.
ClaimDue(p) ==
  /\ pc[p] = "claim"
  /\ LET won == {r \in picked[p] : Claimable(r)} IN
       /\ runs'   = [r \in Runs |-> IF r \in won
                                    THEN [runs[r] EXCEPT !.status = "running"]
                                    ELSE runs[r]]
       /\ picked' = [picked EXCEPT ![p] = won]
  /\ pc' = [pc EXCEPT ![p] = "drain"]
  /\ UNCHANGED <<schedules, lastAttempt, task, resumes,
                 due, skipped, cur, outcome, retick, stale>>

\* The batch is done: another pass over what the first one skipped, or idle.
DrainDone(p) ==
  /\ pc[p] = "drain"
  /\ picked[p] = {}
  /\ pc'      = [pc EXCEPT ![p] = IF retick[p] THEN "enqueue" ELSE "idle"]
  /\ due'     = [due EXCEPT ![p] = IF retick[p]
                   THEN {Snapshot(s) : s \in FindDue \cap skipped[p]} ELSE {}]
  /\ skipped' = [skipped EXCEPT ![p] = {}]
  /\ stale'   = [stale EXCEPT ![p] = retick[p]]
  /\ retick'  = [retick EXCEPT ![p] = FALSE]
  /\ UNCHANGED <<schedules, runs, lastAttempt, task, resumes, picked, cur, outcome>>

-----------------------------------------------------------------------------
(* JobRunner.executeRun, with the wiring of bootstrap.ts                   *)

\* Seeded fault: the counter goes down even where there is none.
RepeatUnchecked(row) == [row EXCEPT !.repeat = @ - 1]

\* handleRepeatAfterSuccess, on the row as it is now.
RepeatAfterSuccess(row) ==
  CASE row.repeat = 0 -> row
    [] row.repeat = 1 ->
         [row EXCEPT !.repeat = 0, !.next = "none", !.status = "completed"]
    [] row.repeat > 1 /\ row.runAt # "none" ->
         [row EXCEPT !.repeat = @ - 1, !.next = "due", !.status = "active"]
    [] OTHER -> [row EXCEPT !.repeat = @ - 1]

\* Seeded fault: every settled run counts as a repetition.
RepeatAlways(completed, r) ==
  IF completed \in BOOLEAN
  THEN [schedules EXCEPT ![runs[r].sched] = RepeatAfterSuccess(@)] ELSE schedules

\* onRunCompleted and onCompleted: the schedules table after a success of r.
RepeatIf(completed, r) ==
  IF completed THEN [schedules EXCEPT ![runs[r].sched] = RepeatAfterSuccess(@)]
               ELSE schedules

\* An exception leaves drain and tick: the rest of the batch is forgotten.
Abort(p) ==
  /\ pc'      = [pc EXCEPT ![p] = "idle"]
  /\ picked'  = [picked EXCEPT ![p] = {}]
  /\ cur'     = [cur EXCEPT ![p] = NoRun]
  /\ outcome' = [outcome EXCEPT ![p] = "none"]

StartRun(p, r) ==
  /\ pc[p] = "drain"
  /\ r \in picked[p]
  /\ picked' = [picked EXCEPT ![p] = @ \ {r}]
  /\ cur'    = [cur EXCEPT ![p] = r]
  /\ task'   = [task EXCEPT ![r] = "running"]
  /\ pc'     = [pc EXCEPT ![p] = "executing"]
  /\ UNCHANGED <<schedules, runs, lastAttempt, resumes,
                 due, skipped, outcome, retick, stale>>

\* Seeded fault: a run whose session is busy goes back to the queue.
RefusedAndRequeued(row, isBusy) ==
  [row EXCEPT !.status = IF isBusy THEN "queued" ELSE "failed", !.busy = isBusy]

\* A run whose execution could not even start.
Refused(row, isBusy) == [row EXCEPT !.status = "failed", !.busy = isBusy]

\* execute throws before a task exists: a required skill is missing, the
\* prompt scan rejects, a toolset is missing, or the session is busy.  In the
\* last case the handler first writes status "queued"; Transitions does not
\* allow that for a running run, so that write throws too, and the catch block
\* of executeRun fails the run.
StartRefused(p, r, isBusy) ==
  /\ "refuse" \in Env
  /\ pc[p] = "drain"
  /\ r \in picked[p]
  /\ picked' = [picked EXCEPT ![p] = @ \ {r}]
  /\ cur'    = [cur EXCEPT ![p] = r]
  /\ runs'   = [runs EXCEPT ![r] = Refused(@, isBusy)]
  /\ pc'     = [pc EXCEPT ![p] = "retry"]
  /\ UNCHANGED <<schedules, lastAttempt, task, resumes,
                 due, skipped, outcome, retick, stale>>

\* The execution returns: done, or parked on an approval or a question.  A
\* no-agent run has no task but only ever succeeds or fails.
TaskReturns(p, result) ==
  /\ Free(p)
  /\ pc[p] = "executing"
  /\ task'    = [task EXCEPT ![cur[p]] = result]
  /\ outcome' = [outcome EXCEPT ![p] = result]
  /\ pc'      = [pc EXCEPT ![p] = "settle"]
  /\ UNCHANGED <<schedules, runs, lastAttempt, resumes,
                 due, skipped, picked, cur, retick, stale>>

\* The run takes the status of its task, if Transitions allows it from
\* whatever another process has made of the row meanwhile.
SettleRun(p) ==
  LET r == cur[p]  to == RunStatusOf(outcome[p]) IN
  /\ pc[p] = "settle"
  /\ CanMove(runs[r].status, to)
  /\ runs'      = SetStatus(r, to)
  /\ schedules' = RepeatIf(to = "completed", r)
  /\ pc'  = [pc EXCEPT ![p] = IF to = "failed" THEN "retry" ELSE "drain"]
  /\ cur' = [cur EXCEPT ![p] = IF to = "failed" THEN @ ELSE NoRun]
  /\ outcome' = [outcome EXCEPT ![p] = "none"]
  /\ UNCHANGED <<lastAttempt, task, resumes, due, skipped, picked, retick, stale>>

\* update threw: the catch block tries "failed", and if that throws as well
\* the exception ends the tick.
SettleThrows(p) ==
  LET r == cur[p] IN
  /\ pc[p] = "settle"
  /\ ~CanMove(runs[r].status, RunStatusOf(outcome[p]))
  /\ IF CanMove(runs[r].status, "failed")
     THEN /\ runs'    = SetStatus(r, "failed")
          /\ pc'      = [pc EXCEPT ![p] = "retry"]
          /\ outcome' = [outcome EXCEPT ![p] = "none"]
          /\ UNCHANGED <<picked, cur>>
     ELSE Abort(p) /\ UNCHANGED runs
  /\ UNCHANGED <<schedules, lastAttempt, task, resumes, due, skipped, retick, stale>>

\* Seeded fault: one attempt too many.
WantsOneMore(r) == runs[r].attempt <= MaxAttempts

\* planRetry
WantsRetry(r) == runs[r].attempt < MaxAttempts

\* enqueueRetryIfNeeded; the unique index refuses the row when another process
\* has started a run of the schedule since this one failed.
EnqueueRetry(p) ==
  LET r == cur[p]  s == runs[r].sched IN
  /\ pc[p] = "retry"
  /\ WantsRetry(r)
  /\ IF HasActive(s)
     THEN Abort(p) /\ UNCHANGED <<runs, lastAttempt>>
     ELSE /\ \E n \in FreshRuns :
               CreateRun(n, s, NextAttempt(runs[r].attempt), "retry", FALSE)
          /\ pc'  = [pc EXCEPT ![p] = "drain"]
          /\ cur' = [cur EXCEPT ![p] = NoRun]
          /\ UNCHANGED <<picked, outcome>>
  /\ UNCHANGED <<schedules, task, resumes, due, skipped, retick, stale>>

GiveUp(p) ==
  /\ pc[p] = "retry"
  /\ ~WantsRetry(cur[p])
  /\ pc'  = [pc EXCEPT ![p] = "drain"]
  /\ cur' = [cur EXCEPT ![p] = NoRun]
  /\ UNCHANGED <<schedules, runs, lastAttempt, task, resumes,
                 due, skipped, picked, outcome, retick, stale>>

-----------------------------------------------------------------------------
(* Approvals and clarifications of a run's task                            *)

\* markResuming
MarkResuming(r) ==
  IF runs[r].status = "waiting_approval" THEN SetStatus(r, "running") ELSE runs

BeginResume(p, r) ==
  /\ Cardinality(resumes) < MaxResumes
  /\ resumes' = resumes \cup {[by |-> p, run |-> r, result |-> "none"]}
  /\ task'    = [task EXCEPT ![r] = "running"]

\* Seeded fault: resumeTask without its status check.
ResumableAnytime(r) == task[r] \in {"running", "waiting_approval", "waiting_clarification"}

\* The status check of resumeTask.
Resumable(r) == task[r] \in {"waiting_approval", "waiting_clarification"}

\* An approval is granted, or a question answered.
ResumeTask(p, r) ==
  /\ "answer" \in Env
  /\ Free(p)
  /\ Resumable(r)
  /\ BeginResume(p, r)
  /\ runs' = MarkResuming(r)
  /\ UNCHANGED <<schedules, lastAttempt, tickVars>>

\* An approval is denied or times out: the agent goes on without the tool, and
\* nobody marks the run.
ResumeAfterApprovalFailure(p, r) ==
  /\ "deny" \in Env
  /\ Free(p)
  /\ task[r] = "waiting_approval"
  /\ BeginResume(p, r)
  /\ UNCHANGED <<schedules, runs, lastAttempt, tickVars>>

\* A question is cancelled or times out: the task fails, nothing else happens.
FailWaitingClarification(p, r) ==
  /\ "cancel" \in Env
  /\ Free(p)
  /\ task[r] = "waiting_clarification"
  /\ task' = [task EXCEPT ![r] = "failed"]
  /\ UNCHANGED <<schedules, runs, lastAttempt, resumes, tickVars>>

\* A resumed execution that fails or is cancelled throws: the facade catches
\* the error and returns without syncRunFromTask.
ResumeThrows(e, result) ==
  /\ e \in resumes
  /\ Free(e.by)
  /\ e.result = "none"
  /\ task'    = [task EXCEPT ![e.run] = result]
  /\ resumes' = resumes \ {e}
  /\ UNCHANGED <<schedules, runs, lastAttempt, tickVars>>

ResumeReturns(e, result) ==
  /\ e \in resumes
  /\ Free(e.by)
  /\ e.result = "none"
  /\ task'    = [task EXCEPT ![e.run] = result]
  /\ resumes' = (resumes \ {e}) \cup {[e EXCEPT !.result = result]}
  /\ UNCHANGED <<schedules, runs, lastAttempt, tickVars>>

\* syncRunFromTask; an illegal change throws and the facade swallows it.
SyncRunFromTask(e) ==
  LET to == RunStatusOf(e.result) IN
  /\ e \in resumes
  /\ AtAwait(e.by)
  /\ e.result # "none"
  /\ IF CanMove(runs[e.run].status, to)
     THEN /\ runs' = SetStatus(e.run, to)
          /\ schedules' = RepeatIf(to = "completed" /\ runs[e.run].status # "completed",
                                   e.run)
     ELSE UNCHANGED <<runs, schedules>>
  /\ resumes' = resumes \ {e}
  /\ UNCHANGED <<lastAttempt, task, tickVars>>

-----------------------------------------------------------------------------
(* Time, crashes, identifiers                                              *)

TimePasses(s) ==
  /\ schedules[s].next = "later" \/ schedules[s].runAt = "future"
  /\ schedules' = [schedules EXCEPT
       ![s].next  = IF @ = "later" THEN "due" ELSE @,
       ![s].runAt = IF @ = "future" THEN "past" ELSE @]
  /\ UnchangedButSchedules

RetryDue(r) ==
  /\ runs[r].status = "queued"
  /\ ~runs[r].ready
  /\ runs' = [runs EXCEPT ![r].ready = TRUE]
  /\ UNCHANGED <<schedules, lastAttempt, task, resumes, tickVars>>

\* A process dies; the rows it was working on stay as they are, and nothing
\* looks for them when a process starts.
Crash(p) ==
  /\ "crash" \in Env
  /\ Abort(p)
  /\ due'     = [due EXCEPT ![p] = {}]
  /\ skipped' = [skipped EXCEPT ![p] = {}]
  /\ retick'  = [retick EXCEPT ![p] = FALSE]
  /\ stale'   = [stale EXCEPT ![p] = FALSE]
  /\ resumes' = {e \in resumes : e.by # p}
  /\ UNCHANGED <<schedules, runs, lastAttempt, task>>

\* The table only grows.  The model reuses the identifier of a finished run
\* that no process refers to: all that is ever read of such a row is the
\* attempt number of the latest one, which lastAttempt keeps, and Transitions
\* lets nobody who answers its task late change it.
Retire(r) ==
  /\ runs[r].status \in Terminal
  /\ \A p \in Procs : r \notin picked[p] \cup {cur[p]}
  /\ \A e \in resumes : e.run # r
  /\ runs' = [runs EXCEPT ![r] = NoRow(runs[r].sched)]
  /\ task' = [task EXCEPT ![r] = "none"]
  /\ UNCHANGED <<schedules, lastAttempt, resumes, tickVars>>

-----------------------------------------------------------------------------
Returns == {"succeeded", "waiting_approval", "waiting_clarification"}
Throws  == {"failed", "cancelled"}

\* One step of the tick of a process, its timer included.
TickStep(p) ==
  \/ TickBegin(p)
  \/ SkipOverlap(p) \/ EnqueueScheduledRun(p) \/ AdvanceSchedule(p)
  \/ SelectDue(p) \/ ClaimDue(p) \/ DrainDone(p)
  \/ \E r \in Runs : StartRun(p, r) \/ \E b \in BOOLEAN : StartRefused(p, r, b)
  \/ \E o \in Returns \cup Throws : TaskReturns(p, o)
  \/ SettleRun(p) \/ SettleThrows(p) \/ EnqueueRetry(p) \/ GiveUp(p)

\* One step of an execution that a reviewer's answer resumed.
ResumeStep ==
  \E e \in resumes :
    \/ \E o \in Throws : ResumeThrows(e, o)
    \/ \E o \in Returns : ResumeReturns(e, o)
    \/ SyncRunFromTask(e)

Command(p, s) ==
  \/ CreateSchedule(p, s) \/ PauseSchedule(p, s) \/ ResumeSchedule(p, s)
  \/ ArchiveSchedule(p, s) \/ UpdateTiming(p, s) \/ UpdateTimezone(p, s)
  \/ UpdateRepeat(p, s) \/ RunNow(p, s)

Review(p, r) ==
  \/ ResumeTask(p, r) \/ ResumeAfterApprovalFailure(p, r)
  \/ FailWaitingClarification(p, r)

Next ==
  \/ \E p \in Procs : TickStep(p) \/ TickAgain(p) \/ Crash(p)
  \/ \E p \in Procs, s \in Schedules : Command(p, s)
  \/ \E p \in Procs, r \in Runs : Review(p, r)
  \/ ResumeStep
  \/ \E s \in Schedules : TimePasses(s)
  \/ \E r \in Runs : RetryDue(r) \/ Retire(r)

Spec == Init /\ [][Next]_vars

-----------------------------------------------------------------------------
(* Types and safety                                                        *)

PcValue == {"idle", "enqueue", "advance", "claim", "drain", "executing",
            "settle", "retry"}

TypeOK ==
  /\ schedules \in [Schedules -> ScheduleRow]
  /\ runs \in [Runs -> RunRow]
  /\ lastAttempt \in [Schedules -> 0 .. MaxAttempts + 1]
  /\ task \in [Runs -> TaskStatus]
  /\ resumes \subseteq Resume
  /\ pc \in [Procs -> PcValue]
  /\ due \in [Procs -> SUBSET [sched : Schedules, runAt : {"none", "future", "past"},
                               repeat : 0 .. MaxRepeat]]
  /\ skipped \in [Procs -> SUBSET Schedules]
  /\ picked \in [Procs -> SUBSET Runs]
  /\ cur \in [Procs -> Runs \cup {NoRun}]
  /\ outcome \in [Procs -> TaskStatus]
  /\ retick \in [Procs -> BOOLEAN]
  /\ stale \in [Procs -> BOOLEAN]

\* A schedule never has two active runs, whichever processes tick, retry and
\* run it by hand at the same time (the promise of idx_schedule_runs_one_active
\* and of the overlap checks around it).
OneActiveRun ==
  \A r1, r2 \in Runs :
    /\ runs[r1].status \in Active
    /\ runs[r2].status \in Active
    /\ runs[r1].sched = runs[r2].sched
    => r1 = r2

\* The runs a process has claimed and not finished with.
Claimed(p) == (IF pc[p] \in {"claim", "enqueue", "advance"} THEN {} ELSE picked[p])
              \cup (IF pc[p] = "advance" THEN {} ELSE {cur[p]} \ {NoRun})

\* A queued run is claimed by one process only, though every process selects
\* it (claimDue's SELECT is outside its transaction).
ClaimedOnce ==
  \A p, q \in Procs : p # q => Claimed(p) \cap Claimed(q) = {}

\* The agent loop of a task runs at most once at a time: the drain that
\* started it and the reviewers that resume it never execute it together.
Executing(r) ==
  {<<p, "tick">> : p \in {q \in Procs : pc[q] = "executing" /\ cur[q] = r}}
  \cup {<<e.by, "resume">> : e \in {f \in resumes : f.run = r /\ f.result = "none"}}

OneExecutor == \A r \in Runs : Cardinality(Executing(r)) <= 1

\* Automatic retries stay within schedule.maxAttempts.
RetryWithinBudget ==
  \A r \in Runs :
    runs[r].status # "absent" /\ runs[r].trigger = "retry"
      => runs[r].attempt <= MaxAttempts

\* An archived schedule has no fire time, and a one-shot that can no longer
\* fire has none either: an edit that gives a completed one-shot a time makes
\* it active again, so its fire time is not lost.  (A completed recurring
\* schedule is left out: a timezone edit does give it a fire time that findDue
\* will never look at.)
NoLostFireTime ==
  \A s \in Schedules :
    \/ schedules[s].status = "archived"
    \/ schedules[s].status = "completed" /\ schedules[s].runAt # "none"
    => schedules[s].next = "none"

\* repeatRemaining counts successes: apart from edits it changes only in the
\* step in which a run of the schedule becomes completed, and by exactly one,
\* however the run got there (first try, retry, approval, answer).
RepeatCountsSuccesses ==
  [][\A s \in Schedules :
       schedules'[s].repeat # schedules[s].repeat =>
         \/ \E p \in Procs : CreateSchedule(p, s) \/ UpdateRepeat(p, s)
         \/ /\ schedules'[s].repeat = schedules[s].repeat - 1
            /\ \E r \in Runs : /\ runs[r].sched = s
                              /\ runs[r].status \in Active
                              /\ runs'[r].status = "completed"]_vars

-----------------------------------------------------------------------------
(* Claims of the documentation and the tests that the code does not keep   *)

\* "Schedule ... is archived and cannot be edited" / "resumed": an archived
\* schedule stays archived.
ArchivedStays ==
  [][\A s \in Schedules :
       schedules[s].status = "archived" => schedules'[s].status = "archived"]_vars

\* "Deferred schedule run ... because session is busy": such a run waits in
\* the queue instead of failing.
BusyRunIsDeferred == \A r \in Runs : runs[r].busy => runs[r].status = "queued"

\* "syncs terminal task status back to the linked schedule run": when nobody
\* works on a run any more and its task is done, so is the run.
AtRest(r) ==
  /\ \A p \in Procs : cur[p] # r
  /\ \A e \in resumes : e.run # r

TaskOutcomeReachesRun ==
  \A r \in Runs :
    AtRest(r) /\ task[r] \in {"succeeded", "failed"} => runs[r].status \notin Active

-----------------------------------------------------------------------------
(* Liveness                                                                *)

\* The poll timer keeps ticking, executions end (they run under a timeout),
\* and delays pass.  Users and reviewers owe nothing.
Fairness ==
  /\ \A p \in Tickers : WF_vars(TickStep(p))
  /\ \A r \in Runs : WF_vars(RetryDue(r)) /\ WF_vars(Retire(r))
  /\ WF_vars(ResumeStep)

FairSpec == Spec /\ Fairness

\* Every queued run, retries included, is eventually claimed by a tick.
QueuedIsClaimed ==
  \A r \in Runs : runs[r].status = "queued" ~> runs[r].status # "queued"

\* A schedule that is due and has no run in the way gets one, or stops being
\* active.
DueIsFired ==
  \A s \in Schedules :
    LET waiting == /\ schedules[s].status = "active"
                   /\ schedules[s].next = "due"
                   /\ ActiveRuns(s) = {}
    IN waiting ~> ~waiting

-----------------------------------------------------------------------------
(* Refinement                                                              *)

SlotOf(s) ==
  CASE \A r \in ActiveRuns(s) : FALSE                      -> "free"
    [] \E r \in ActiveRuns(s) : runs[r].status = "queued" -> "queued"
    [] OTHER                                              -> "busy"

Slots == INSTANCE RunSlot WITH slot <- [s \in Schedules |-> SlotOf(s)]

\* Whatever processes, reviewers and crashes do, the runs of a schedule behave
\* like the single slot of RunSlot.
SlotSpec == Slots!Spec
=============================================================================
