--------------------------- MODULE Scheduler_proofs ---------------------------
(***************************************************************************)
(* Theorems about Scheduler, for every number of schedules, runs and       *)
(* processes and every bound.                                              *)
(***************************************************************************)
EXTENDS Scheduler, FiniteSetTheorems, TLAPS

\* A process that executes, settles or retries has a current run, and so has
\* one that has inserted a row but not yet moved its schedule.
CurOK == \A p \in Procs : pc[p] \in {"advance", "executing", "settle", "retry"}
                             => cur[p] \in Runs

TypeInv == TypeOK /\ CurOK

LEMMA NextAttemptType ==
  ASSUME NEW n \in 0 .. MaxAttempts + 1
  PROVE  NextAttempt(n) \in 0 .. MaxAttempts + 1
BY BoundAssumption DEF NextAttempt

LEMMA RunStatusOfType == ASSUME NEW t PROVE RunStatusOf(t) \in RunStatus
BY DEF RunStatusOf, RunStatus, Active, Terminal

LEMMA RepeatType ==
  ASSUME NEW row \in ScheduleRow
  PROVE  RepeatAfterSuccess(row) \in ScheduleRow
<1>1. /\ row.status \in ScheduleStatus \cup {"absent"}
      /\ row.next \in {"none", "later", "due"}
      /\ row.runAt \in {"none", "future", "past"}
      /\ row.repeat \in 0 .. MaxRepeat
  BY DEF ScheduleRow
<1>2. CASE row.repeat = 0
  BY <1>2 DEF RepeatAfterSuccess
<1>3. CASE row.repeat = 1
  <2>1. RepeatAfterSuccess(row) =
          [row EXCEPT !.repeat = 0, !.next = "none", !.status = "completed"]
    BY <1>3 DEF RepeatAfterSuccess
  <2>2. RepeatAfterSuccess(row) =
          [status |-> "completed", next |-> "none", runAt |-> row.runAt, repeat |-> 0]
    BY <2>1 DEF ScheduleRow
  <2>3. QED
    BY <1>1, <2>2, BoundAssumption DEF ScheduleRow, ScheduleStatus
<1>4. CASE row.repeat > 1
  <2>1. row.repeat - 1 \in 0 .. MaxRepeat
    BY <1>1, <1>4, BoundAssumption
  <2>2. \/ RepeatAfterSuccess(row) =
             [row EXCEPT !.repeat = row.repeat - 1, !.next = "due", !.status = "active"]
        \/ RepeatAfterSuccess(row) = [row EXCEPT !.repeat = row.repeat - 1]
    BY <1>1, <1>4, BoundAssumption DEF RepeatAfterSuccess
  <2>3. QED
    BY <1>1, <2>1, <2>2 DEF ScheduleRow, ScheduleStatus
<1>5. QED
  BY <1>1, <1>2, <1>3, <1>4, BoundAssumption

LEMMA RepeatIfType ==
  ASSUME TypeOK, NEW b \in BOOLEAN, NEW r
  PROVE  RepeatIf(b, r) \in [Schedules -> ScheduleRow]
BY RepeatType DEF RepeatIf, TypeOK

LEMMA SetStatusType ==
  ASSUME TypeOK, NEW r, NEW to \in RunStatus
  PROVE  SetStatus(r, to) \in [Runs -> RunRow]
<1>1. ASSUME NEW q \in Runs PROVE [runs[q] EXCEPT !.status = to] \in RunRow
  BY DEF TypeOK, RunRow
<1>2. runs \in [Runs -> RunRow]
  BY DEF TypeOK
<1>3. QED
  BY <1>1, <1>2 DEF SetStatus

LEMMA CreateRunType ==
  ASSUME TypeOK, NEW r \in Runs, NEW s \in Schedules, NEW n \in 0 .. MaxAttempts + 1,
         NEW how \in {"scheduled", "manual", "retry"}, NEW isReady \in BOOLEAN,
         CreateRun(r, s, n, how, isReady)
  PROVE  /\ runs' \in [Runs -> RunRow]
         /\ lastAttempt' \in [Schedules -> 0 .. MaxAttempts + 1]
BY DEF CreateRun, TypeOK, RunRow, RunStatus, Active

LEMMA RowField ==
  ASSUME NEW row \in ScheduleRow,
         NEW a \in ScheduleStatus, NEW b \in {"none", "later", "due"},
         NEW c \in {"none", "future", "past"}
  PROVE  /\ [row EXCEPT !.status = a] \in ScheduleRow
         /\ [row EXCEPT !.next = b] \in ScheduleRow
         /\ [row EXCEPT !.runAt = c] \in ScheduleRow
BY DEF ScheduleRow

LEMMA RowEdit ==
  ASSUME NEW row \in ScheduleRow,
         NEW a \in ScheduleStatus, NEW b \in {"none", "later", "due"},
         NEW c \in {"none", "future", "past"}
  PROVE  /\ [row EXCEPT !.status = a, !.next = b] \in ScheduleRow
         /\ [row EXCEPT !.runAt = c, !.next = b, !.status = a] \in ScheduleRow
         /\ [row EXCEPT !.next = b, !.status = a] \in ScheduleRow
         /\ [row EXCEPT !.next = b, !.runAt = c] \in ScheduleRow
<1>1. [row EXCEPT !.status = a] \in ScheduleRow
  BY RowField
<1>2. [row EXCEPT !.next = b] \in ScheduleRow
  BY RowField
<1>3. [row EXCEPT !.runAt = c] \in ScheduleRow
  BY RowField
<1>4. [[row EXCEPT !.runAt = c] EXCEPT !.next = b] \in ScheduleRow
  BY <1>3, RowField
<1>5. QED
  BY <1>1, <1>2, <1>3, <1>4, RowField

LEMMA TypeInit == Init => TypeInv
<1> SUFFICES ASSUME Init PROVE TypeInv
  OBVIOUS
<1>1. \A s \in Schedules : NoRow(s) \in RunRow
  BY BoundAssumption DEF NoRow, RunRow
<1>2. schedules \in [Schedules -> ScheduleRow]
  BY BoundAssumption DEF Init, ScheduleRow
<1>3. QED
  BY <1>1, <1>2, BoundAssumption, RunAssumption
     DEF Init, TypeInv, TypeOK, CurOK, TaskStatus, PcValue, Resume

\* A step of a table alone keeps the types if the new table has its type.
LEMMA SchedulesStep ==
  ASSUME TypeInv, UnchangedButSchedules, schedules' \in [Schedules -> ScheduleRow]
  PROVE  TypeInv'
BY DEF TypeInv, TypeOK, CurOK, UnchangedButSchedules, tickVars

LEMMA RunTableStep ==
  ASSUME TypeInv, UNCHANGED <<schedules, task, resumes, tickVars>>,
         runs' \in [Runs -> RunRow],
         lastAttempt' \in [Schedules -> 0 .. MaxAttempts + 1]
  PROVE  TypeInv'
BY DEF TypeInv, TypeOK, CurOK, tickVars

LEMMA TypeStep == TypeInv /\ [Next]_vars => TypeInv'
<1> SUFFICES ASSUME TypeInv, [Next]_vars PROVE TypeInv'
  OBVIOUS
<1>0. TypeOK /\ CurOK
  BY DEF TypeInv
<1>1. ASSUME NEW p \in Procs, NEW s \in Schedules, CreateSchedule(p, s) PROVE TypeInv'
  <2>1. schedules' \in [Schedules -> ScheduleRow]
    BY <1>0, <1>1, TimingAssumption, BoundAssumption DEF CreateSchedule, FirstFire, TypeOK, ScheduleRow, ScheduleStatus
  <2>2. QED
    BY <1>1, <2>1, SchedulesStep DEF CreateSchedule
<1>2. ASSUME NEW p \in Procs, NEW s \in Schedules, PauseSchedule(p, s) PROVE TypeInv'
  <2>1. schedules' \in [Schedules -> ScheduleRow]
    <3>1. [schedules[s] EXCEPT !.status = "paused"] \in ScheduleRow
      BY <1>0, RowField DEF TypeOK, ScheduleStatus
    <3>2. QED
      BY <1>0, <1>2, <3>1 DEF PauseSchedule, TypeOK
  <2>2. QED
    BY <1>2, <2>1, SchedulesStep DEF PauseSchedule
<1>3. ASSUME NEW p \in Procs, NEW s \in Schedules, ResumeSchedule(p, s) PROVE TypeInv'
  <2>1. schedules[s] \in ScheduleRow
    BY <1>0 DEF TypeOK
  <2>2. [schedules[s] EXCEPT !.status = "active", !.next = FirstFire(schedules[s].runAt)]
          \in ScheduleRow
    BY <2>1, RowEdit DEF FirstFire, ScheduleStatus
  <2>3. schedules' \in [Schedules -> ScheduleRow]
    BY <1>0, <1>3, <2>2 DEF ResumeSchedule, TypeOK
  <2>4. QED
    BY <1>3, <2>3, SchedulesStep DEF ResumeSchedule
<1>4. ASSUME NEW p \in Procs, NEW s \in Schedules, ArchiveSchedule(p, s) PROVE TypeInv'
  <2>1. schedules[s] \in ScheduleRow
    BY <1>0 DEF TypeOK
  <2>2. [schedules[s] EXCEPT !.status = "archived", !.next = "none"] \in ScheduleRow
    BY <2>1, RowEdit DEF ScheduleStatus
  <2>3. schedules' \in [Schedules -> ScheduleRow]
    BY <1>0, <1>4, <2>2 DEF ArchiveSchedule, TypeOK
  <2>4. QED
    BY <1>4, <2>3, SchedulesStep DEF ArchiveSchedule
<1>5. ASSUME NEW p \in Procs, NEW s \in Schedules, UpdateTiming(p, s) PROVE TypeInv'
  <2>1. schedules[s] \in ScheduleRow
    BY <1>0 DEF TypeOK
  <2>2. \A at \in Timings :
          LET status == StatusAfterEdit(schedules[s].status) IN
          [schedules[s] EXCEPT !.runAt = at, !.next = FirstFire(at), !.status = status]
            \in ScheduleRow
    <3> SUFFICES ASSUME NEW at \in Timings
                 PROVE  [schedules[s] EXCEPT !.runAt = at, !.next = FirstFire(at),
                           !.status = StatusAfterEdit(schedules[s].status)] \in ScheduleRow
      OBVIOUS
    <3>1. StatusAfterEdit(schedules[s].status) \in ScheduleStatus
      BY <1>5, <2>1 DEF UpdateTiming, Editable, StatusAfterEdit, ScheduleRow, ScheduleStatus
    <3>2. at \in {"none", "future", "past"} /\ FirstFire(at) \in {"none", "later", "due"}
      BY TimingAssumption DEF FirstFire
    <3>3. QED
      BY <2>1, <3>1, <3>2, RowEdit
  <2>3. PICK at \in Timings :
          schedules' = [schedules EXCEPT ![s] =
            [schedules[s] EXCEPT !.runAt = at, !.next = FirstFire(at),
                                 !.status = StatusAfterEdit(schedules[s].status)]]
    BY <1>5 DEF UpdateTiming
  <2>4. QED
    <3>1. schedules' \in [Schedules -> ScheduleRow]
      BY <1>0, <2>2, <2>3 DEF TypeOK
    <3>2. QED
      BY <1>5, <3>1, SchedulesStep DEF UpdateTiming
<1>6. ASSUME NEW p \in Procs, NEW s \in Schedules, UpdateTimezone(p, s) PROVE TypeInv'
  <2>1. schedules' \in [Schedules -> ScheduleRow]
    BY <1>0, <1>6 DEF UpdateTimezone, TypeOK, ScheduleRow, ScheduleStatus
  <2>2. QED
    BY <1>6, <2>1, SchedulesStep DEF UpdateTimezone
<1>7. ASSUME NEW p \in Procs, NEW s \in Schedules, UpdateRepeat(p, s) PROVE TypeInv'
  <2>0. PICK n \in 0 .. MaxRepeat :
          schedules' = [schedules EXCEPT ![s] = [schedules[s] EXCEPT !.repeat = n]]
    BY <1>7 DEF UpdateRepeat
  <2>1. schedules' \in [Schedules -> ScheduleRow]
    <3>1. schedules[s] \in ScheduleRow
      BY <1>0 DEF TypeOK
    <3>2. [schedules[s] EXCEPT !.repeat = n] \in ScheduleRow
      BY <3>1 DEF ScheduleRow
    <3>3. QED
      BY <1>0, <2>0, <3>2 DEF TypeOK
  <2>2. QED
    BY <1>7, <2>1, SchedulesStep DEF UpdateRepeat
<1>8. ASSUME NEW p \in Procs, NEW s \in Schedules, RunNow(p, s) PROVE TypeInv'
  <2>1. PICK r \in FreshRuns : CreateRun(r, s, NextAttempt(lastAttempt[s]), "manual", TRUE)
    BY <1>8 DEF RunNow
  <2>2. r \in Runs /\ NextAttempt(lastAttempt[s]) \in 0 .. MaxAttempts + 1
    BY <1>0, NextAttemptType DEF FreshRuns, TypeOK
  <2>3. /\ runs' \in [Runs -> RunRow]
        /\ lastAttempt' \in [Schedules -> 0 .. MaxAttempts + 1]
    BY <1>0, <2>1, <2>2, CreateRunType
  <2>4. QED
    BY <1>8, <2>3, RunTableStep DEF RunNow
<1>9. ASSUME NEW p \in Procs, TickBegin(p) PROVE TypeInv'
  <2>1. \A s \in Schedules :
          Snapshot(s) \in [sched : Schedules, runAt : {"none", "future", "past"},
                           repeat : 0 .. MaxRepeat]
    BY <1>0 DEF TypeOK, Snapshot, ScheduleRow
  <2>2. QED
    BY <1>9, <1>0, <2>1
       DEF TypeInv, TypeOK, CurOK, TickBegin, FindDue, PcValue
<1>10. ASSUME NEW p \in Procs, TickAgain(p) PROVE TypeInv'
  BY <1>10, <1>0
     DEF TypeInv, TypeOK, CurOK, TickAgain, tickVars
<1>11. ASSUME NEW p \in Procs, SkipOverlap(p) PROVE TypeInv'
  BY <1>11, <1>0
     DEF TypeInv, TypeOK, CurOK, SkipOverlap, tickVars
<1>12. ASSUME NEW p \in Procs, EnqueueScheduledRun(p) PROVE TypeInv'
  <2>1. PICK d \in due[p], r \in FreshRuns :
          /\ CreateRun(r, d.sched, NextAttempt(lastAttempt[d.sched]), "scheduled", TRUE)
          /\ cur' = [cur EXCEPT ![p] = r]
          /\ picked' = [picked EXCEPT ![p] = @ \cup {r}]
    BY <1>12 DEF EnqueueScheduledRun
  <2>2. r \in Runs /\ d.sched \in Schedules
    BY <1>0 DEF FreshRuns, TypeOK
  <2>3. NextAttempt(lastAttempt[d.sched]) \in 0 .. MaxAttempts + 1
    BY <1>0, <2>2, NextAttemptType DEF TypeOK
  <2>4. /\ runs' \in [Runs -> RunRow]
        /\ lastAttempt' \in [Schedules -> 0 .. MaxAttempts + 1]
    BY <1>0, <2>1, <2>2, <2>3, CreateRunType
  <2>5. QED
    BY <1>0, <1>12, <2>1, <2>2, <2>4
       DEF TypeInv, TypeOK, CurOK, EnqueueScheduledRun, tickVars, PcValue
<1>13. ASSUME NEW p \in Procs, AdvanceSchedule(p) PROVE TypeInv'
  <2>1. PICK d \in due[p], b \in {"none", "later", "due"}, a \in ScheduleStatus :
          /\ schedules' = [schedules EXCEPT ![d.sched] =
                            [schedules[d.sched] EXCEPT !.next = b, !.status = a]]
          /\ due' = [due EXCEPT ![p] = due[p] \ {d}]
    <3>1. PICK d \in due[p] :
            /\ schedules' = [schedules EXCEPT
                 ![d.sched].next   = IF d.runAt = "none" THEN "later" ELSE "none",
                 ![d.sched].status = IF d.runAt = "none" \/ d.repeat > 0
                                     THEN "active" ELSE "completed"]
            /\ due' = [due EXCEPT ![p] = due[p] \ {d}]
      BY <1>13 DEF AdvanceSchedule
    <3>2. PICK b \in {"none", "later", "due"} :
            b = IF d.runAt = "none" THEN "later" ELSE "none"
      OBVIOUS
    <3>3. PICK a \in ScheduleStatus :
            a = IF d.runAt = "none" \/ d.repeat > 0 THEN "active" ELSE "completed"
      BY DEF ScheduleStatus
    <3>4. schedules' = [schedules EXCEPT ![d.sched] =
                          [schedules[d.sched] EXCEPT !.next = b, !.status = a]]
      BY <3>1, <3>2, <3>3
    <3>5. QED
      BY <3>1, <3>4
  <2>2. d.sched \in Schedules
    BY <1>0 DEF TypeOK
  <2>3. [schedules[d.sched] EXCEPT !.next = b, !.status = a] \in ScheduleRow
    <3>1. schedules[d.sched] \in ScheduleRow /\ "none" \in {"none", "future", "past"}
      BY <1>0, <2>2 DEF TypeOK
    <3>2. QED
      BY <3>1, RowEdit
  <2>4. schedules' \in [Schedules -> ScheduleRow]
    BY <1>0, <2>1, <2>3 DEF TypeOK
  <2>5. QED
    BY <1>13, <1>0, <2>1, <2>4 DEF TypeInv, TypeOK, CurOK, AdvanceSchedule, PcValue
<1>14. ASSUME NEW p \in Procs, SelectDue(p) PROVE TypeInv'
  BY <1>14, <1>0
     DEF TypeInv, TypeOK, CurOK, SelectDue, tickVars, Queued, PcValue
<1>15. ASSUME NEW p \in Procs, ClaimDue(p) PROVE TypeInv'
  <2>1. ASSUME NEW r \in Runs PROVE [runs[r] EXCEPT !.status = "running"] \in RunRow
    <3>1. runs[r] \in RunRow
      BY <1>0 DEF TypeOK
    <3>2. QED
      BY <3>1 DEF RunRow, RunStatus, Active
  <2>2. runs' \in [Runs -> RunRow]
    BY <1>15, <1>0, <2>1 DEF ClaimDue, TypeOK
  <2>3. /\ pc' = [pc EXCEPT ![p] = "drain"]
        /\ picked' \in [Procs -> SUBSET Runs]
    BY <1>15, <1>0 DEF ClaimDue, TypeOK
  <2>4. QED
    BY <1>15, <1>0, <2>2, <2>3 DEF TypeInv, TypeOK, CurOK, ClaimDue, PcValue
<1>16. ASSUME NEW p \in Procs, DrainDone(p) PROVE TypeInv'
  BY <1>16, <1>0
     DEF TypeInv, TypeOK, CurOK, DrainDone, tickVars, Snapshot, FindDue, ScheduleRow, PcValue
<1>17. ASSUME NEW p \in Procs, NEW r \in Runs, StartRun(p, r) PROVE TypeInv'
  BY <1>17, <1>0
     DEF TypeInv, TypeOK, CurOK, StartRun, tickVars, TaskStatus, PcValue
<1>18. ASSUME NEW p \in Procs, NEW r \in Runs, NEW b \in BOOLEAN, StartRefused(p, r, b) PROVE TypeInv'
  <2>1. Refused(runs[r], b) \in RunRow
    <3>1. runs[r] \in RunRow
      BY <1>0 DEF TypeOK
    <3>2. QED
      BY <3>1 DEF Refused, RunRow, RunStatus, Terminal
  <2>2. runs' \in [Runs -> RunRow]
    BY <1>18, <1>0, <2>1 DEF StartRefused, TypeOK
  <2>3. QED
    BY <1>18, <1>0, <2>2 DEF TypeInv, TypeOK, CurOK, StartRefused, PcValue
<1>19. ASSUME NEW p \in Procs, NEW o \in Returns \cup Throws, TaskReturns(p, o) PROVE TypeInv'
  BY <1>19, <1>0
     DEF TypeInv, TypeOK, CurOK, TaskReturns, tickVars, Returns, Throws, TaskStatus, PcValue
<1>20. ASSUME NEW p \in Procs, SettleRun(p) PROVE TypeInv'
  BY <1>20, <1>0, RunStatusOfType, SetStatusType, RepeatIfType
     DEF TypeInv, TypeOK, CurOK, SettleRun, tickVars, TaskStatus, PcValue
<1>21. ASSUME NEW p \in Procs, SettleThrows(p) PROVE TypeInv'
  BY <1>21, <1>0, SetStatusType, SMTT(30)
     DEF TypeInv, TypeOK, CurOK, SettleThrows, tickVars, Abort, RunStatus, Terminal, TaskStatus, PcValue
<1>22. ASSUME NEW p \in Procs, EnqueueRetry(p) PROVE TypeInv'
  <2>1. CASE HasActive(runs[cur[p]].sched)
    BY <1>22, <1>0, <2>1 DEF TypeInv, TypeOK, CurOK, EnqueueRetry, Abort, TaskStatus, PcValue
  <2>2. CASE ~HasActive(runs[cur[p]].sched)
    <3> DEFINE s == runs[cur[p]].sched
               n == NextAttempt(runs[cur[p]].attempt)
    <3>1. PICK r \in FreshRuns : CreateRun(r, s, n, "retry", FALSE)
      BY <1>22, <2>2 DEF EnqueueRetry
    <3>2. runs[cur[p]] \in RunRow /\ r \in Runs
      BY <1>22, <1>0 DEF EnqueueRetry, TypeOK, CurOK, FreshRuns
    <3>3. s \in Schedules /\ n \in 0 .. MaxAttempts + 1
      BY <3>2, NextAttemptType DEF RunRow
    <3> HIDE DEF s, n
    <3>4. /\ runs' \in [Runs -> RunRow]
          /\ lastAttempt' \in [Schedules -> 0 .. MaxAttempts + 1]
      BY <1>0, <3>1, <3>2, <3>3, CreateRunType
    <3>5. QED
      BY <1>22, <1>0, <2>2, <3>4 DEF TypeInv, TypeOK, CurOK, EnqueueRetry, PcValue
  <2>3. QED
    BY <2>1, <2>2
<1>23. ASSUME NEW p \in Procs, GiveUp(p) PROVE TypeInv'
  BY <1>23, <1>0
     DEF TypeInv, TypeOK, CurOK, GiveUp, tickVars, PcValue
<1>24. ASSUME NEW p \in Procs, Crash(p) PROVE TypeInv'
  BY <1>24, <1>0
     DEF TypeInv, TypeOK, CurOK, Crash, tickVars, Abort, TaskStatus, PcValue
<1>25. ASSUME NEW p \in Procs, NEW r \in Runs, ResumeTask(p, r) PROVE TypeInv'
  BY <1>25, <1>0, SetStatusType
     DEF TypeInv, TypeOK, CurOK, ResumeTask, tickVars, BeginResume, MarkResuming, Resume, RunStatus, Active, TaskStatus
<1>26. ASSUME NEW p \in Procs, NEW r \in Runs, ResumeAfterApprovalFailure(p, r) PROVE TypeInv'
  BY <1>26, <1>0
     DEF TypeInv, TypeOK, CurOK, ResumeAfterApprovalFailure, tickVars, BeginResume, Resume, TaskStatus
<1>27. ASSUME NEW p \in Procs, NEW r \in Runs, FailWaitingClarification(p, r) PROVE TypeInv'
  BY <1>27, <1>0
     DEF TypeInv, TypeOK, CurOK, FailWaitingClarification, tickVars, TaskStatus
<1>28. ASSUME NEW e \in resumes, NEW o \in Throws, ResumeThrows(e, o) PROVE TypeInv'
  BY <1>28, <1>0
     DEF TypeInv, TypeOK, CurOK, ResumeThrows, tickVars, Throws, Resume, TaskStatus
<1>29. ASSUME NEW e \in resumes, NEW o \in Returns, ResumeReturns(e, o) PROVE TypeInv'
  BY <1>29, <1>0
     DEF TypeInv, TypeOK, CurOK, ResumeReturns, tickVars, Returns, Resume, TaskStatus
<1>30. ASSUME NEW e \in resumes, SyncRunFromTask(e) PROVE TypeInv'
  <2>1. runs' \in [Runs -> RunRow]
    BY <1>0, <1>30, RunStatusOfType, SetStatusType DEF SyncRunFromTask, TypeOK
  <2>2. schedules' \in [Schedules -> ScheduleRow]
    BY <1>0, <1>30, RepeatIfType DEF SyncRunFromTask, TypeOK
  <2>3. resumes' \subseteq Resume
    BY <1>0, <1>30 DEF SyncRunFromTask, TypeOK
  <2>4. QED
    BY <1>0, <1>30, <2>1, <2>2, <2>3 DEF TypeInv, TypeOK, CurOK, SyncRunFromTask, tickVars
<1>31. ASSUME NEW s \in Schedules, TimePasses(s) PROVE TypeInv'
  <2>1. schedules[s] \in ScheduleRow
    BY <1>0 DEF TypeOK
  <2>2. \A b \in {"none", "later", "due"}, c \in {"none", "future", "past"} :
          [schedules[s] EXCEPT !.next = b, !.runAt = c] \in ScheduleRow
    <3>1. ASSUME NEW b \in {"none", "later", "due"}, NEW c \in {"none", "future", "past"}
          PROVE  [schedules[s] EXCEPT !.next = b, !.runAt = c] \in ScheduleRow
      <4>1. "active" \in ScheduleStatus
        BY DEF ScheduleStatus
      <4>2. QED
        BY <2>1, <4>1, RowEdit
    <3>2. QED
      BY <3>1
  <2>3. schedules' \in [Schedules -> ScheduleRow]
    <3> DEFINE b == IF schedules[s].next = "later" THEN "due" ELSE schedules[s].next
               c == IF schedules[s].runAt = "future" THEN "past" ELSE schedules[s].runAt
    <3>1. b \in {"none", "later", "due"} /\ c \in {"none", "future", "past"}
      BY <2>1 DEF ScheduleRow
    <3>2. schedules' = [schedules EXCEPT ![s] = [schedules[s] EXCEPT !.next = b, !.runAt = c]]
      BY <1>31 DEF TimePasses
    <3> HIDE DEF b, c
    <3>3. QED
      BY <1>0, <2>2, <3>1, <3>2 DEF TypeOK
  <2>4. QED
    BY <1>31, <2>3, SchedulesStep DEF TimePasses
<1>32. ASSUME NEW r \in Runs, RetryDue(r) PROVE TypeInv'
  <2>1. [runs[r] EXCEPT !.ready = TRUE] \in RunRow
    <3>1. runs[r] \in RunRow
      BY <1>0 DEF TypeOK
    <3>2. QED
      BY <3>1 DEF RunRow
  <2>2. runs' \in [Runs -> RunRow]
    BY <1>32, <1>0, <2>1 DEF RetryDue, TypeOK
  <2>3. QED
    BY <1>32, <1>0, <2>2, RunTableStep DEF RetryDue, TypeOK
<1>33. ASSUME NEW r \in Runs, Retire(r) PROVE TypeInv'
  BY <1>33, <1>0, BoundAssumption
     DEF TypeInv, TypeOK, CurOK, Retire, tickVars, NoRow, RunRow, TaskStatus
<1>34. CASE UNCHANGED vars
  BY <1>0, <1>34 DEF TypeInv, TypeOK, CurOK, vars, tickVars
<1>35. QED
  BY <1>1, <1>2, <1>3, <1>4, <1>5, <1>6, <1>7, <1>8, <1>9, <1>10, <1>11, <1>12, <1>13, <1>14, <1>15, <1>16, <1>17, <1>18, <1>19, <1>20, <1>21, <1>22, <1>23, <1>24, <1>25, <1>26, <1>27, <1>28, <1>29, <1>30, <1>31, <1>32, <1>33, <1>34
     DEF Next, TickStep, ResumeStep, Command, Review

\* Every state has the types TypeOK gives (the rows of both tables, the program
\* counters and the snapshots of every process), for any constants.
THEOREM TypeCorrect == Spec => []TypeOK
<1>1. TypeInv => TypeOK
  BY DEF TypeInv
<1>2. QED
  BY TypeInit, TypeStep, <1>1, PTL DEF Spec

-----------------------------------------------------------------------------
(* The inductive invariant                                                 *)

Present == {r \in Runs : runs[r].status # "absent"}

\* A process, a resumed execution and a task only ever belong to a run whose
\* row exists.
PresentOK ==
  /\ \A p \in Procs : picked[p] \subseteq Present /\ cur[p] \in Present \cup {NoRun}
  /\ \A e \in resumes : e.run \in Present
  /\ \A r \in Runs : task[r] # "none" => r \in Present

\* A run that a process has claimed, or that has a task, is out of the queue.
OutOfQueue ==
  /\ \A p \in Procs : \A r \in Claimed(p) : runs[r].status # "queued"
  /\ \A e \in resumes : runs[e.run].status # "queued"
  /\ \A r \in Runs : task[r] # "none" => runs[r].status # "queued"

\* OneActiveRun and ClaimedOnce are not inductive alone: that a settling
\* process leaves its run alone in the slot needs to know that the run it holds
\* has a row, and that nobody puts a run back into the queue.
IInv ==
  /\ TypeInv
  /\ PresentOK
  /\ OutOfQueue
  /\ ClaimedOnce
  /\ OneActiveRun
  /\ RetryWithinBudget

-----------------------------------------------------------------------------
(* What a step does to schedule_runs                                       *)

Same(r) ==
  /\ runs'[r].status  = runs[r].status
  /\ runs'[r].sched   = runs[r].sched
  /\ runs'[r].trigger = runs[r].trigger
  /\ runs'[r].attempt = runs[r].attempt

\* A run outside the queue changes its status, without becoming active.
Moves(r) ==
  /\ \A q \in Runs \ {r} : Same(q)
  /\ runs[r].status \notin {"queued", "absent"}
  /\ runs'[r].status # "queued"
  /\ runs'[r].status \in Active => runs[r].status \in Active
  /\ runs'[r].sched = runs[r].sched
  /\ runs'[r].status # "absent" => /\ runs'[r].trigger = runs[r].trigger
                                   /\ runs'[r].attempt = runs[r].attempt

\* A batch of queued runs is claimed.
Claims(W) ==
  /\ \A q \in Runs \ W : Same(q)
  /\ \A r \in W :
       /\ runs[r].status = "queued" /\ runs'[r].status = "running"
       /\ runs'[r].sched = runs[r].sched
       /\ runs'[r].trigger = runs[r].trigger
       /\ runs'[r].attempt = runs[r].attempt

\* A row is inserted for a schedule that has no active run.
Born(r, s) ==
  /\ \A q \in Runs \ {r} : Same(q)
  /\ ~HasActive(s)
  /\ runs[r].status = "absent"
  /\ runs'[r].status = "queued"
  /\ runs'[r].sched = s
  /\ runs'[r].trigger = "retry" => runs'[r].attempt <= MaxAttempts

RunsChange ==
  \/ \A r \in Runs : Same(r)
  \/ \E r \in Runs : Moves(r)
  \/ \E W \in SUBSET Runs : Claims(W)
  \/ \E r \in Runs, s \in Schedules : Born(r, s)

\* No legal status change leads back into the queue or out of a final status.
LEMMA CanMoveFacts ==
  ASSUME NEW from \in RunStatus, NEW to \in RunStatus, CanMove(from, to)
  PROVE  /\ to \in Active => from \in Active
         /\ to = "queued" => from = "queued"
BY DEF CanMove, Transitions, RunStatus, Active, Terminal

\* A legal change of a run outside the queue to a status its task can have.
LEMMA SetStatusMoves ==
  ASSUME TypeOK, NEW r \in Runs, NEW to \in RunStatus,
         runs[r].status \notin {"queued", "absent"},
         CanMove(runs[r].status, to), runs' = SetStatus(r, to)
  PROVE  Moves(r)
<1>1. runs[r].status \in RunStatus
  BY DEF TypeOK, RunRow
<1>2. /\ to \in Active => runs[r].status \in Active
      /\ to # "queued"
  BY <1>1, CanMoveFacts
<1>3. QED
  BY <1>1, <1>2 DEF SetStatus, TypeOK, RunRow, Moves, Same, RunStatus, Active, Terminal

LEMMA CreateRunBorn ==
  ASSUME TypeOK, NEW r \in FreshRuns, NEW s \in Schedules, NEW n \in Nat, NEW how,
         NEW isReady, CreateRun(r, s, n, how, isReady), ~HasActive(s),
         how = "retry" => n <= MaxAttempts
  PROVE  Born(r, s)
BY DEF CreateRun, TypeOK, RunRow, Born, Same, FreshRuns

LEMMA NoRunChange == ASSUME runs' = runs PROVE RunsChange
BY DEF RunsChange, Same

LEMMA RunsStep == TypeInv /\ PresentOK /\ OutOfQueue /\ [Next]_vars => RunsChange
<1> SUFFICES ASSUME TypeInv, PresentOK, OutOfQueue, [Next]_vars PROVE RunsChange
  OBVIOUS
<1>0. TypeOK /\ CurOK
  BY DEF TypeInv
<1>1. ASSUME NEW p \in Procs, NEW s \in Schedules, Command(p, s), ~RunNow(p, s)
      PROVE  RunsChange
  BY <1>1, NoRunChange
     DEF Command, CreateSchedule, PauseSchedule, ResumeSchedule, ArchiveSchedule,
         UpdateTiming, UpdateTimezone, UpdateRepeat, UnchangedButSchedules
<1>2. ASSUME NEW p \in Procs, NEW s \in Schedules, RunNow(p, s) PROVE RunsChange
  <2>1. PICK r \in FreshRuns : CreateRun(r, s, NextAttempt(lastAttempt[s]), "manual", TRUE)
    BY <1>2 DEF RunNow
  <2>2. NextAttempt(lastAttempt[s]) \in Nat
    BY <1>0, NextAttemptType, BoundAssumption DEF TypeOK
  <2>3. Born(r, s)
    BY <1>0, <1>2, <2>1, <2>2, CreateRunBorn DEF RunNow
  <2>4. QED
    BY <2>3 DEF RunsChange, FreshRuns
<1>3. ASSUME NEW p \in Procs,
             \/ TickBegin(p) \/ TickAgain(p) \/ SkipOverlap(p) \/ AdvanceSchedule(p)
             \/ SelectDue(p) \/ DrainDone(p) \/ GiveUp(p) \/ Crash(p)
             \/ \E r \in Runs : StartRun(p, r)
             \/ \E o \in Returns \cup Throws : TaskReturns(p, o)
      PROVE  RunsChange
  BY <1>3, NoRunChange
     DEF TickBegin, TickAgain, SkipOverlap, AdvanceSchedule, SelectDue, DrainDone,
         GiveUp, Crash, StartRun, TaskReturns
<1>4. ASSUME NEW p \in Procs, EnqueueScheduledRun(p) PROVE RunsChange
  <2>1. PICK d \in due[p], r \in FreshRuns :
          /\ ~HasActive(d.sched)
          /\ CreateRun(r, d.sched, NextAttempt(lastAttempt[d.sched]), "scheduled", TRUE)
    BY <1>4 DEF EnqueueScheduledRun
  <2>2. PICK s \in Schedules : s = d.sched
    BY <1>0 DEF TypeOK
  <2>3. NextAttempt(lastAttempt[s]) \in Nat
    BY <1>0, NextAttemptType, BoundAssumption DEF TypeOK
  <2>4. CreateRun(r, s, NextAttempt(lastAttempt[s]), "scheduled", TRUE) /\ ~HasActive(s)
    BY <2>1, <2>2
  <2>5. Born(r, s)
    BY <1>0, <2>3, <2>4, CreateRunBorn
  <2>6. QED
    BY <2>5 DEF RunsChange, FreshRuns
<1>5. ASSUME NEW p \in Procs, ClaimDue(p) PROVE RunsChange
  <2> DEFINE won == {r \in picked[p] : Claimable(r)}
  <2>1. /\ won \in SUBSET Runs
        /\ \A r \in won : runs[r].status = "queued"
    BY <1>0 DEF TypeOK, Claimable
  <2>2. runs' = [r \in Runs |-> IF r \in won THEN [runs[r] EXCEPT !.status = "running"]
                                             ELSE runs[r]]
    BY <1>5 DEF ClaimDue
  <2>3. Claims(won)
    <3> HIDE DEF won
    <3> QED
      BY <1>0, <2>1, <2>2 DEF Claims, Same, TypeOK, RunRow
  <2>4. QED
    BY <2>1, <2>3 DEF RunsChange
<1>6. ASSUME NEW p \in Procs, NEW r \in Runs, NEW b \in BOOLEAN, StartRefused(p, r, b)
      PROVE  RunsChange
  <2>1. r \in Claimed(p) /\ r \in Present
    BY <1>6 DEF StartRefused, Claimed, PresentOK
  <2>2. Moves(r)
    BY <1>0, <1>6, <2>1
       DEF StartRefused, OutOfQueue, Present, Moves, Same, Refused, TypeOK, RunRow, Active
  <2>3. QED
    BY <2>2 DEF RunsChange
<1>7. ASSUME NEW p \in Procs, pc[p] \in {"settle", "retry"}
      PROVE  cur[p] \in Runs /\ runs[cur[p]].status \notin {"queued", "absent"}
  <2>1. cur[p] \in Runs /\ cur[p] # NoRun
    BY <1>0, <1>7, RunAssumption DEF CurOK
  <2>2. cur[p] \in Claimed(p)
    BY <1>7, <2>1 DEF Claimed
  <2>3. QED
    BY <2>1, <2>2 DEF OutOfQueue, PresentOK, Present
<1>8. ASSUME NEW p \in Procs, SettleRun(p) PROVE RunsChange
  <2>1. Moves(cur[p])
    BY <1>0, <1>7, <1>8, RunStatusOfType, SetStatusMoves DEF SettleRun
  <2>2. QED
    BY <1>7, <1>8, <2>1 DEF RunsChange, SettleRun
<1>9. ASSUME NEW p \in Procs, SettleThrows(p) PROVE RunsChange
  <2>1. CASE CanMove(runs[cur[p]].status, "failed")
    <3>1. "failed" \in RunStatus
      BY DEF RunStatus, Terminal
    <3>2. Moves(cur[p])
      BY <1>0, <1>7, <1>9, <2>1, <3>1, SetStatusMoves DEF SettleThrows
    <3>3. QED
      BY <1>7, <1>9, <3>2 DEF RunsChange, SettleThrows
  <2>2. CASE ~CanMove(runs[cur[p]].status, "failed")
    BY <1>9, <2>2, NoRunChange DEF SettleThrows
  <2>3. QED
    BY <2>1, <2>2
<1>10. ASSUME NEW p \in Procs, EnqueueRetry(p) PROVE RunsChange
  <2> DEFINE r == cur[p]
             s == runs[r].sched
  <2>1. r \in Runs /\ s \in Schedules /\ runs[r].attempt \in 0 .. MaxAttempts + 1
    BY <1>0, <1>7, <1>10 DEF EnqueueRetry, TypeOK, RunRow
  <2>2. CASE HasActive(s)
    BY <1>10, <2>2, NoRunChange DEF EnqueueRetry
  <2>3. CASE ~HasActive(s)
    <3>1. PICK n \in FreshRuns :
            CreateRun(n, s, NextAttempt(runs[r].attempt), "retry", FALSE)
      BY <1>10, <2>3 DEF EnqueueRetry
    <3>2. NextAttempt(runs[r].attempt) \in Nat /\ NextAttempt(runs[r].attempt) <= MaxAttempts
      BY <1>10, <2>1, BoundAssumption DEF EnqueueRetry, WantsRetry, NextAttempt
    <3>3. Born(n, s)
      BY <1>0, <2>1, <2>3, <3>1, <3>2, CreateRunBorn
    <3>4. QED
      BY <2>1, <3>3 DEF RunsChange, FreshRuns
  <2>4. QED
    BY <2>2, <2>3
<1>11. ASSUME NEW p \in Procs, NEW r \in Runs, Review(p, r) PROVE RunsChange
  <2>1. CASE runs' = runs
    BY <2>1, NoRunChange
  <2>2. CASE ResumeTask(p, r) /\ runs[r].status = "waiting_approval"
    <3>1. "running" \in RunStatus /\ CanMove(runs[r].status, "running")
      BY <2>2 DEF CanMove, Transitions, RunStatus, Active
    <3>2. Moves(r)
      BY <1>0, <2>2, <3>1, SetStatusMoves DEF ResumeTask, MarkResuming
    <3>3. QED
      BY <3>2 DEF RunsChange
  <2>3. QED
    BY <1>11, <2>1, <2>2
       DEF Review, ResumeTask, MarkResuming, ResumeAfterApprovalFailure,
           FailWaitingClarification
<1>12. ASSUME ResumeStep PROVE RunsChange
  <2>1. CASE runs' = runs
    BY <2>1, NoRunChange
  <2>2. CASE runs' # runs
    <3>1. PICK e \in resumes : SyncRunFromTask(e)
      BY <1>12, <2>2 DEF ResumeStep, ResumeThrows, ResumeReturns
    <3>2. e.run \in Runs /\ runs[e.run].status \notin {"queued", "absent"}
      BY DEF OutOfQueue, PresentOK, Present
    <3>3. Moves(e.run)
      BY <1>0, <2>2, <3>1, <3>2, RunStatusOfType, SetStatusMoves DEF SyncRunFromTask
    <3>4. QED
      BY <3>2, <3>3 DEF RunsChange
  <2>3. QED
    BY <2>1, <2>2
<1>13. ASSUME NEW s \in Schedules, TimePasses(s) PROVE RunsChange
  BY <1>13, NoRunChange DEF TimePasses, UnchangedButSchedules
<1>14. ASSUME NEW r \in Runs, RetryDue(r) PROVE RunsChange
  BY <1>0, <1>14 DEF RetryDue, RunsChange, Same, TypeOK, RunRow
<1>15. ASSUME NEW r \in Runs, Retire(r) PROVE RunsChange
  <2>1. Moves(r)
    BY <1>0, <1>15 DEF Retire, NoRow, Moves, Same, TypeOK, RunRow, Terminal, Active
  <2>2. QED
    BY <2>1 DEF RunsChange
<1>16. CASE UNCHANGED vars
  BY <1>16, NoRunChange DEF vars
<1>17. QED
  BY <1>1, <1>2, <1>3, <1>4, <1>5, <1>6, <1>8, <1>9, <1>10, <1>11, <1>12, <1>13, <1>14,
     <1>15, <1>16 DEF Next, TickStep

-----------------------------------------------------------------------------
(* The invariant is kept                                                   *)

LEMMA OneActiveStep ==
  ASSUME TypeOK, OneActiveRun, RunsChange
  PROVE  OneActiveRun'
<1>1. CASE \A r \in Runs : Same(r)
  BY <1>1 DEF OneActiveRun, Same
<1>2. ASSUME NEW r \in Runs, Moves(r) PROVE OneActiveRun'
  BY <1>2 DEF OneActiveRun, Moves, Same
<1>3. ASSUME NEW W \in SUBSET Runs, Claims(W) PROVE OneActiveRun'
  BY <1>3 DEF OneActiveRun, Claims, Same, Active
<1>4. ASSUME NEW r \in Runs, NEW s \in Schedules, Born(r, s) PROVE OneActiveRun'
  <2>1. \A q \in Runs : ~(runs[q].sched = s /\ runs[q].status \in Active)
    BY <1>4 DEF Born, HasActive, ActiveRuns
  <2>2. QED
    BY <1>4, <2>1 DEF OneActiveRun, Born, Same
<1>5. QED
  BY <1>1, <1>2, <1>3, <1>4 DEF RunsChange

LEMMA BudgetStep ==
  ASSUME RetryWithinBudget, RunsChange
  PROVE  RetryWithinBudget'
<1>1. CASE \A r \in Runs : Same(r)
  BY <1>1 DEF RetryWithinBudget, Same
<1>2. ASSUME NEW r \in Runs, Moves(r) PROVE RetryWithinBudget'
  BY <1>2 DEF RetryWithinBudget, Moves, Same
<1>3. ASSUME NEW W \in SUBSET Runs, Claims(W) PROVE RetryWithinBudget'
  BY <1>3 DEF RetryWithinBudget, Claims, Same
<1>4. ASSUME NEW r \in Runs, NEW s \in Schedules, Born(r, s) PROVE RetryWithinBudget'
  BY <1>4 DEF RetryWithinBudget, Born, Same
<1>5. QED
  BY <1>1, <1>2, <1>3, <1>4 DEF RunsChange

\* Only claimDue adds to what a process has claimed, and it adds queued runs.
LEMMA ClaimedStep ==
  ASSUME TypeInv, [Next]_vars
  PROVE  \/ \A p \in Procs : Claimed(p)' \subseteq Claimed(p)
         \/ \E p \in Procs : /\ ClaimDue(p)
                             /\ \A q \in Procs \ {p} : Claimed(q)' = Claimed(q)
                             /\ \A r \in Claimed(p)' : \/ r \in Claimed(p)
                                                       \/ runs[r].status = "queued"
<1> DEFINE Shrinks == \A p \in Procs : Claimed(p)' \subseteq Claimed(p)
<1>0. TypeOK
  BY DEF TypeInv
<1>1. CASE UNCHANGED <<pc, picked, cur>>
  BY <1>1 DEF Claimed
<1>2. ASSUME NEW p \in Procs, ClaimDue(p)
      PROVE  /\ \A q \in Procs \ {p} : Claimed(q)' = Claimed(q)
             /\ \A r \in Claimed(p)' : r \in Claimed(p) \/ runs[r].status = "queued"
  BY <1>0, <1>2 DEF ClaimDue, Claimable, Claimed, TypeOK
<1>3. ASSUME NEW p \in Procs,
             TickBegin(p) \/ SelectDue(p) \/ DrainDone(p) \/ Crash(p) \/ GiveUp(p)
      PROVE  Shrinks
  BY <1>0, <1>3 DEF TickBegin, SelectDue, DrainDone, Crash, Abort, GiveUp, Claimed, TypeOK
<1>4. ASSUME NEW p \in Procs, EnqueueScheduledRun(p) \/ AdvanceSchedule(p) PROVE Shrinks
  BY <1>0, <1>4 DEF EnqueueScheduledRun, AdvanceSchedule, Claimed, TypeOK
<1>5. ASSUME NEW p \in Procs, NEW r \in Runs,
             StartRun(p, r) \/ \E b \in BOOLEAN : StartRefused(p, r, b)
      PROVE  Shrinks
  BY <1>0, <1>5 DEF StartRun, StartRefused, Claimed, TypeOK
<1>6. ASSUME NEW p \in Procs, \E o \in Returns \cup Throws : TaskReturns(p, o) PROVE Shrinks
  BY <1>0, <1>6 DEF TaskReturns, Claimed, TypeOK
<1>7. ASSUME NEW p \in Procs, SettleRun(p) \/ SettleThrows(p) \/ EnqueueRetry(p)
      PROVE  Shrinks
  <2>1. CASE SettleRun(p)
    BY <1>0, <2>1 DEF SettleRun, Claimed, TypeOK
  <2>2. CASE SettleThrows(p)
    BY <1>0, <2>2 DEF SettleThrows, Abort, Claimed, TypeOK
  <2>3. CASE EnqueueRetry(p)
    BY <1>0, <2>3 DEF EnqueueRetry, Abort, Claimed, TypeOK
  <2>4. QED
    BY <1>7, <2>1, <2>2, <2>3
<1>8. ASSUME NEW p \in Procs, NEW s \in Schedules, Command(p, s)
      PROVE  UNCHANGED <<pc, picked, cur>>
  BY <1>8 DEF Command, CreateSchedule, PauseSchedule, ResumeSchedule, ArchiveSchedule,
              UpdateTiming, UpdateTimezone, UpdateRepeat, RunNow, UnchangedButSchedules,
              tickVars
<1>9. ASSUME NEW p \in Procs, NEW r \in Runs, Review(p, r)
      PROVE  UNCHANGED <<pc, picked, cur>>
  BY <1>9 DEF Review, ResumeTask, ResumeAfterApprovalFailure, FailWaitingClarification,
              tickVars
<1>10. ASSUME ResumeStep PROVE UNCHANGED <<pc, picked, cur>>
  BY <1>10 DEF ResumeStep, ResumeThrows, ResumeReturns, SyncRunFromTask, tickVars
<1>11. ASSUME NEW s \in Schedules, TimePasses(s) PROVE UNCHANGED <<pc, picked, cur>>
  BY <1>11 DEF TimePasses, UnchangedButSchedules, tickVars
<1>12. ASSUME NEW r \in Runs, RetryDue(r) \/ Retire(r) PROVE UNCHANGED <<pc, picked, cur>>
  BY <1>12 DEF RetryDue, Retire, tickVars
<1>13. ASSUME NEW p \in Procs, SkipOverlap(p) \/ TickAgain(p)
       PROVE  UNCHANGED <<pc, picked, cur>>
  BY <1>13 DEF SkipOverlap, TickAgain
<1>14. CASE UNCHANGED vars
  BY <1>1, <1>14 DEF vars, tickVars
<1>15. QED
  BY <1>1, <1>2, <1>3, <1>4, <1>5, <1>6, <1>7, <1>8, <1>9, <1>10, <1>11, <1>12, <1>13,
     <1>14 DEF Next, TickStep

LEMMA ClaimedOnceStep ==
  ASSUME TypeInv, OutOfQueue, ClaimedOnce, [Next]_vars
  PROVE  ClaimedOnce'
<1>1. CASE \A p \in Procs : Claimed(p)' \subseteq Claimed(p)
  BY <1>1 DEF ClaimedOnce
<1>2. ASSUME NEW p \in Procs,
             \A q \in Procs \ {p} : Claimed(q)' = Claimed(q),
             \A r \in Claimed(p)' : r \in Claimed(p) \/ runs[r].status = "queued"
      PROVE  ClaimedOnce'
  <2>1. ASSUME NEW q \in Procs \ {p} PROVE Claimed(p)' \cap Claimed(q)' = {}
    BY <1>2, <2>1 DEF ClaimedOnce, OutOfQueue
  <2>2. ASSUME NEW q1 \in Procs \ {p}, NEW q2 \in Procs \ {p}, q1 # q2
        PROVE  Claimed(q1)' \cap Claimed(q2)' = {}
    BY <1>2, <2>2 DEF ClaimedOnce
  <2>3. SUFFICES ASSUME NEW a \in Procs, NEW b \in Procs, a # b
                 PROVE  Claimed(a)' \cap Claimed(b)' = {}
    BY DEF ClaimedOnce
  <2>4. QED
    BY <2>1, <2>2, <2>3
<1>3. QED
  BY <1>1, <1>2, ClaimedStep

\* A run that left the queue stays out of it.
LEMMA NotRequeued ==
  ASSUME RunsChange, NEW r \in Present, runs[r].status # "queued"
  PROVE  runs'[r].status # "queued"
<1>1. r \in Runs /\ runs[r].status # "absent"
  BY DEF Present
<1>2. QED
  BY <1>1 DEF RunsChange, Same, Moves, Claims, Born

Started(r) == r \in Present /\ runs[r].status # "queued"

\* Tasks and resumed executions are only begun for runs that left the queue.
LEMMA StartedStep ==
  ASSUME TypeInv, PresentOK, OutOfQueue, [Next]_vars
  PROVE  /\ \A e \in resumes' : Started(e.run)
         /\ \A r \in Runs : task'[r] # "none" => Started(r)
<1> DEFINE Goal == /\ \A e \in resumes' : Started(e.run)
                   /\ \A r \in Runs : task'[r] # "none" => Started(r)
<1>0. TypeOK /\ CurOK
  BY DEF TypeInv
<1>1. /\ \A e \in resumes : Started(e.run)
      /\ \A r \in Runs : task[r] # "none" => Started(r)
      /\ \A p \in Procs : \A r \in Claimed(p) : r \in Runs => Started(r)
  BY DEF PresentOK, OutOfQueue, Started, Claimed
<1>2. CASE task' = task /\ resumes' \subseteq resumes
  BY <1>1, <1>2
<1>3. ASSUME NEW p \in Procs, NEW r \in Runs, StartRun(p, r) PROVE Goal
  <2>1. r \in Claimed(p)
    BY <1>3 DEF StartRun, Claimed
  <2>2. QED
    BY <1>0, <1>1, <1>3, <2>1 DEF StartRun, TypeOK
<1>4. ASSUME NEW p \in Procs, NEW o \in Returns \cup Throws, TaskReturns(p, o) PROVE Goal
  <2>1. cur[p] \in Runs /\ cur[p] \in Claimed(p)
    BY <1>0, <1>4, RunAssumption DEF TaskReturns, CurOK, Claimed
  <2>2. QED
    BY <1>0, <1>1, <1>4, <2>1 DEF TaskReturns, TypeOK
<1>5. ASSUME NEW p \in Procs, NEW r \in Runs, Review(p, r) PROVE Goal
  <2>1. task[r] # "none"
    BY <1>5 DEF Review, ResumeTask, Resumable, ResumeAfterApprovalFailure,
                FailWaitingClarification
  <2>2. /\ task' = [task EXCEPT ![r] = task'[r]]
        /\ resumes' \subseteq resumes \cup {[by |-> p, run |-> r, result |-> "none"]}
    BY <1>0, <1>5 DEF Review, ResumeTask, ResumeAfterApprovalFailure, BeginResume,
                      FailWaitingClarification, TypeOK
  <2>3. QED
    BY <1>0, <1>1, <2>1, <2>2 DEF TypeOK
<1>6. ASSUME NEW e \in resumes,
             \/ \E o \in Throws : ResumeThrows(e, o)
             \/ \E o \in Returns : ResumeReturns(e, o)
      PROVE  Goal
  <2>1. e \in Resume /\ e.run \in Runs /\ Started(e.run)
    BY <1>0, <1>1 DEF TypeOK, Resume
  <2>2. PICK o \in Throws \cup Returns :
          /\ task' = [task EXCEPT ![e.run] = o]
          /\ resumes' \subseteq resumes \cup {[e EXCEPT !.result = o]}
    BY <1>6 DEF ResumeThrows, ResumeReturns
  <2>3. [e EXCEPT !.result = o].run = e.run
    BY <2>1 DEF Resume
  <2>4. QED
    BY <1>0, <1>1, <2>1, <2>2, <2>3 DEF TypeOK
<1>7. ASSUME NEW e \in resumes, SyncRunFromTask(e)
      PROVE  task' = task /\ resumes' \subseteq resumes
  BY <1>7 DEF SyncRunFromTask
<1>8. ASSUME NEW p \in Procs, NEW s \in Schedules, Command(p, s)
      PROVE  task' = task /\ resumes' \subseteq resumes
  BY <1>8 DEF Command, CreateSchedule, PauseSchedule, ResumeSchedule, ArchiveSchedule,
              UpdateTiming, UpdateTimezone, UpdateRepeat, RunNow, UnchangedButSchedules
<1>9. ASSUME NEW p \in Procs,
             \/ TickBegin(p) \/ TickAgain(p) \/ SkipOverlap(p) \/ EnqueueScheduledRun(p)
             \/ AdvanceSchedule(p) \/ SelectDue(p) \/ ClaimDue(p) \/ DrainDone(p)
             \/ \E r \in Runs : \E b \in BOOLEAN : StartRefused(p, r, b)
             \/ SettleRun(p) \/ SettleThrows(p) \/ EnqueueRetry(p) \/ GiveUp(p)
             \/ Crash(p)
      PROVE  task' = task /\ resumes' \subseteq resumes
  BY <1>9 DEF TickBegin, TickAgain, SkipOverlap, EnqueueScheduledRun, AdvanceSchedule,
              SelectDue, ClaimDue, DrainDone, StartRefused, SettleRun, SettleThrows,
              EnqueueRetry, GiveUp, Crash
<1>10. ASSUME NEW s \in Schedules, TimePasses(s)
       PROVE  task' = task /\ resumes' \subseteq resumes
  BY <1>10 DEF TimePasses, UnchangedButSchedules
<1>11. ASSUME NEW r \in Runs, RetryDue(r) PROVE task' = task /\ resumes' \subseteq resumes
  BY <1>11 DEF RetryDue
<1>12. ASSUME NEW r \in Runs, Retire(r) PROVE Goal
  BY <1>0, <1>1, <1>12 DEF Retire, TypeOK
<1>13. CASE UNCHANGED vars
  BY <1>2, <1>13 DEF vars
<1>14. QED
  BY <1>2, <1>3, <1>4, <1>5, <1>6, <1>7, <1>8, <1>9, <1>10, <1>11, <1>12, <1>13
     DEF Next, TickStep, ResumeStep

LEMMA OutOfQueueStep ==
  ASSUME TypeInv, PresentOK, OutOfQueue, [Next]_vars, RunsChange
  PROVE  OutOfQueue'
<1>0. TypeOK /\ CurOK
  BY DEF TypeInv
<1>1. ASSUME NEW r, Started(r) PROVE runs'[r].status # "queued"
  BY <1>1, NotRequeued DEF Started
<1>2. ASSUME NEW p \in Procs, NEW r \in Claimed(p) PROVE Started(r)
  BY <1>0, <1>2, RunAssumption DEF PresentOK, OutOfQueue, Started, Claimed, TypeOK
<1>3. ASSUME NEW p \in Procs, NEW r \in Claimed(p)' PROVE runs'[r].status # "queued"
  <2>1. CASE r \in Claimed(p)
    BY <1>1, <1>2, <2>1
  <2>2. CASE r \notin Claimed(p)
    <3>1. ClaimDue(p)
      BY <1>3, <2>2, ClaimedStep
    <3>2. r \in picked[p] /\ Claimable(r) /\ r \in Runs
      BY <1>0, <1>3, <2>2, <3>1 DEF ClaimDue, Claimed, TypeOK
    <3>3. QED
      BY <1>0, <3>1, <3>2 DEF ClaimDue, TypeOK, RunRow
  <2>3. QED
    BY <2>1, <2>2
<1>4. QED
  BY <1>1, <1>3, StartedStep DEF OutOfQueue

\* Rows stay, unless their identifier is retired.
LEMMA RowsStay ==
  ASSUME TypeInv, PresentOK, OutOfQueue, [Next]_vars, NEW r \in Present,
         runs'[r].status = "absent"
  PROVE  Retire(r)
<1>0. TypeOK /\ CurOK /\ r \in Runs /\ runs[r].status # "absent"
  BY DEF TypeInv, Present
<1>1. CASE UNCHANGED runs
  BY <1>0, <1>1
<1>2. \A q \in Runs, to \in RunStatus : SetStatus(q, to)[r].status # "absent"
  BY <1>0 DEF SetStatus, TypeOK, RunRow, RunStatus, Active, Terminal
<1>3. ASSUME NEW q \in Runs, NEW s, NEW n, NEW how, NEW b, CreateRun(q, s, n, how, b)
      PROVE  runs'[r].status # "absent"
  BY <1>0, <1>3 DEF CreateRun, TypeOK
<1>4. ASSUME NEW p \in Procs, ClaimDue(p) PROVE FALSE
  BY <1>0, <1>4 DEF ClaimDue, TypeOK, RunRow
<1>5. ASSUME NEW p \in Procs, NEW q \in Runs, NEW b \in BOOLEAN, StartRefused(p, q, b)
      PROVE  FALSE
  BY <1>0, <1>5 DEF StartRefused, Refused, TypeOK, RunRow
<1>6. ASSUME NEW p \in Procs, SettleRun(p) \/ SettleThrows(p) PROVE UNCHANGED runs
  <2>1. cur[p] \in Runs /\ "failed" \in RunStatus
    BY <1>0, <1>6 DEF SettleRun, SettleThrows, CurOK, RunStatus, Terminal
  <2>2. QED
    BY <1>2, <1>6, <2>1, RunStatusOfType DEF SettleRun, SettleThrows
<1>7. ASSUME NEW p \in Procs, NEW q \in Runs, Review(p, q) PROVE UNCHANGED runs
  <2>1. "running" \in RunStatus
    BY DEF RunStatus, Active
  <2>2. QED
    BY <1>2, <1>7, <2>1
       DEF Review, ResumeTask, MarkResuming, ResumeAfterApprovalFailure,
           FailWaitingClarification
<1>8. ASSUME ResumeStep PROVE UNCHANGED runs
  <2>1. \A e \in resumes : e.run \in Runs
    BY <1>0 DEF TypeOK, Resume
  <2>2. QED
    BY <1>2, <1>8, <2>1, RunStatusOfType
       DEF ResumeStep, ResumeThrows, ResumeReturns, SyncRunFromTask
<1>9. ASSUME NEW p \in Procs, NEW s \in Schedules, Command(p, s) PROVE UNCHANGED runs
  <2>1. CASE RunNow(p, s)
    BY <1>3, <2>1 DEF RunNow, FreshRuns
  <2>2. QED
    BY <1>9, <2>1 DEF Command, CreateSchedule, PauseSchedule, ResumeSchedule,
                      ArchiveSchedule, UpdateTiming, UpdateTimezone, UpdateRepeat,
                      UnchangedButSchedules
<1>10. ASSUME NEW p \in Procs, EnqueueScheduledRun(p) \/ EnqueueRetry(p)
       PROVE  UNCHANGED runs
  BY <1>3, <1>10 DEF EnqueueScheduledRun, EnqueueRetry, FreshRuns
<1>11. ASSUME NEW p \in Procs,
             \/ TickBegin(p) \/ TickAgain(p) \/ SkipOverlap(p) \/ AdvanceSchedule(p)
             \/ SelectDue(p) \/ DrainDone(p) \/ GiveUp(p) \/ Crash(p)
             \/ \E q \in Runs : StartRun(p, q)
             \/ \E o \in Returns \cup Throws : TaskReturns(p, o)
      PROVE  UNCHANGED runs
  BY <1>11
     DEF TickBegin, TickAgain, SkipOverlap, AdvanceSchedule, SelectDue, DrainDone,
         GiveUp, Crash, StartRun, TaskReturns
<1>12. ASSUME NEW s \in Schedules, TimePasses(s) PROVE UNCHANGED runs
  BY <1>12 DEF TimePasses, UnchangedButSchedules
<1>13. ASSUME NEW q \in Runs, RetryDue(q) PROVE FALSE
  BY <1>0, <1>13 DEF RetryDue, TypeOK, RunRow
<1>14. ASSUME NEW q \in Runs, Retire(q) PROVE Retire(r)
  BY <1>0, <1>14 DEF Retire, TypeOK
<1>15. CASE UNCHANGED vars
  BY <1>1, <1>15 DEF vars
<1>16. QED
  BY <1>1, <1>4, <1>5, <1>6, <1>7, <1>8, <1>9, <1>10, <1>11, <1>12, <1>13, <1>14, <1>15
     DEF Next, TickStep

LEMMA HeldStep ==
  ASSUME TypeInv, PresentOK, OutOfQueue, [Next]_vars, NEW p \in Procs,
         NEW r \in picked'[p] \cup ({cur'[p]} \ {NoRun})
  PROVE  r \in Runs /\ runs'[r].status # "absent"
<1>0. TypeOK /\ CurOK
  BY DEF TypeInv
<1>1. CASE r \in Present
  <2>1. CASE Retire(r)
    BY <1>0, <2>1 DEF Retire, tickVars
  <2>2. CASE ~Retire(r)
    BY <1>1, <2>2, RowsStay DEF Present
  <2>3. QED
    BY <2>1, <2>2
<1>2. CASE r \notin Present
  <2>1. \A q \in Procs : picked[q] \subseteq Present /\ {cur[q]} \ {NoRun} \subseteq Present
    BY DEF PresentOK
  <2>2. Queued \subseteq Present
    BY DEF Queued, Present
  <2>3. ~(picked'[p] \subseteq picked[p] \cup Queued /\ cur'[p] \in {cur[p], NoRun} \cup picked[p])
    BY <1>2, <2>1, <2>2
  <2>4. EnqueueScheduledRun(p)
    <3>1. CASE UNCHANGED <<picked, cur>>
      BY <2>3, <3>1
    <3>2. ASSUME NEW q \in Procs,
                 \/ TickBegin(q) \/ TickAgain(q) \/ SkipOverlap(q) \/ AdvanceSchedule(q)
                 \/ SelectDue(q) \/ ClaimDue(q) \/ DrainDone(q)
          PROVE  FALSE
      BY <1>0, <2>3, <3>2 DEF TickBegin, TickAgain, SkipOverlap, AdvanceSchedule,
                              SelectDue, ClaimDue, DrainDone, TypeOK
    <3>3. ASSUME NEW q \in Procs, NEW n \in Runs,
                 StartRun(q, n) \/ \E b \in BOOLEAN : StartRefused(q, n, b)
          PROVE  FALSE
      BY <1>0, <2>3, <3>3 DEF StartRun, StartRefused, TypeOK
    <3>4. ASSUME NEW q \in Procs,
                 \/ SettleRun(q) \/ SettleThrows(q) \/ EnqueueRetry(q) \/ GiveUp(q)
                 \/ Crash(q) \/ \E o \in Returns \cup Throws : TaskReturns(q, o)
          PROVE  FALSE
      BY <1>0, <2>3, <3>4 DEF SettleRun, SettleThrows, EnqueueRetry, GiveUp, Crash,
                              TaskReturns, Abort, TypeOK
    <3>5. ASSUME NEW q \in Procs, NEW s \in Schedules, Command(q, s)
          PROVE  UNCHANGED <<picked, cur>>
      BY <3>5 DEF Command, CreateSchedule, PauseSchedule, ResumeSchedule, ArchiveSchedule,
                  UpdateTiming, UpdateTimezone, UpdateRepeat, RunNow,
                  UnchangedButSchedules, tickVars
    <3>6. ASSUME NEW q \in Procs, NEW n \in Runs, Review(q, n)
          PROVE  UNCHANGED <<picked, cur>>
      BY <3>6 DEF Review, ResumeTask, ResumeAfterApprovalFailure,
                  FailWaitingClarification, tickVars
    <3>7. ASSUME ResumeStep PROVE UNCHANGED <<picked, cur>>
      BY <3>7 DEF ResumeStep, ResumeThrows, ResumeReturns, SyncRunFromTask, tickVars
    <3>8. ASSUME NEW s \in Schedules, TimePasses(s) PROVE UNCHANGED <<picked, cur>>
      BY <3>8 DEF TimePasses, UnchangedButSchedules, tickVars
    <3>9. ASSUME NEW n \in Runs, RetryDue(n) \/ Retire(n) PROVE UNCHANGED <<picked, cur>>
      BY <3>9 DEF RetryDue, Retire, tickVars
    <3>10. ASSUME NEW q \in Procs, EnqueueScheduledRun(q) PROVE q = p
      BY <1>0, <2>3, <3>10 DEF EnqueueScheduledRun, TypeOK
    <3>11. CASE UNCHANGED vars
      BY <3>1, <3>11 DEF vars, tickVars
    <3>12. QED
      BY <3>1, <3>2, <3>3, <3>4, <3>5, <3>6, <3>7, <3>8, <3>9, <3>10, <3>11
         DEF Next, TickStep
  <2>5. PICK n \in FreshRuns :
          /\ \E d \in due[p] :
               CreateRun(n, d.sched, NextAttempt(lastAttempt[d.sched]), "scheduled", TRUE)
          /\ cur' = [cur EXCEPT ![p] = n]
          /\ picked' = [picked EXCEPT ![p] = @ \cup {n}]
    BY <2>4 DEF EnqueueScheduledRun
  <2>6. r = n
    BY <1>0, <1>2, <2>1, <2>5 DEF TypeOK
  <2>7. QED
    BY <1>0, <2>5, <2>6 DEF CreateRun, FreshRuns, TypeOK
<1>3. QED
  BY <1>1, <1>2

LEMMA PresentStep ==
  ASSUME TypeInv, PresentOK, OutOfQueue, [Next]_vars
  PROVE  PresentOK'
<1>1. \A p \in Procs : picked'[p] \subseteq Present' /\ cur'[p] \in Present' \cup {NoRun}
  BY HeldStep DEF Present
<1>2. ASSUME NEW r \in Present, runs'[r].status = "absent"
      PROVE  task'[r] = "none" /\ \A e \in resumes' : e.run # r
  BY <1>2, RowsStay DEF TypeInv, TypeOK, Retire, Present
<1>3. QED
  BY <1>1, <1>2, StartedStep DEF PresentOK, Started, Present

LEMMA InvInit == Init => IInv
<1> SUFFICES ASSUME Init PROVE IInv
  OBVIOUS
<1>1. TypeInv
  BY TypeInit
<1>2. /\ \A r \in Runs : runs[r].status = "absent" /\ task[r] = "none"
      /\ \A p \in Procs : picked[p] = {} /\ cur[p] = NoRun
      /\ resumes = {}
  BY DEF Init, NoRow
<1>3. QED
  BY <1>1, <1>2 DEF IInv, PresentOK, OutOfQueue, Claimed, ClaimedOnce, OneActiveRun,
                    RetryWithinBudget, Active

LEMMA InvStep == IInv /\ [Next]_vars => IInv'
<1> SUFFICES ASSUME IInv, [Next]_vars PROVE IInv'
  OBVIOUS
<1>1. TypeInv'
  BY TypeStep DEF IInv
<1>2. RunsChange
  BY RunsStep DEF IInv
<1>3. PresentOK' /\ OutOfQueue' /\ ClaimedOnce'
  BY <1>2, PresentStep, OutOfQueueStep, ClaimedOnceStep DEF IInv
<1>4. OneActiveRun' /\ RetryWithinBudget'
  BY <1>2, OneActiveStep, BudgetStep DEF IInv, TypeInv
<1>5. QED
  BY <1>1, <1>3, <1>4 DEF IInv

LEMMA InvCorrect == Spec => []IInv
BY InvInit, InvStep, PTL DEF Spec

\* A schedule has at most one active run, for any number of processes that
\* tick, retry, run by hand, resume and crash: the overlap checks and the unique
\* index idx_schedule_runs_one_active do what they are for.
THEOREM AtMostOneActiveRun == Spec => []OneActiveRun
<1>1. IInv => OneActiveRun
  BY DEF IInv
<1>2. QED
  BY InvCorrect, <1>1, PTL

\* No two processes ever work on the same run, although both may have selected
\* it: the guarded UPDATE of claimDue decides.
THEOREM RunClaimedOnce == Spec => []ClaimedOnce
<1>1. IInv => ClaimedOnce
  BY DEF IInv
<1>2. QED
  BY InvCorrect, <1>1, PTL

\* A run inserted by enqueueRetryIfNeeded never exceeds schedule.maxAttempts.
THEOREM RetriesWithinBudget == Spec => []RetryWithinBudget
<1>1. IInv => RetryWithinBudget
  BY DEF IInv
<1>2. QED
  BY InvCorrect, <1>1, PTL

-----------------------------------------------------------------------------
(* Who executes a run                                                      *)

\* The runs a process has claimed and not yet started.
Unstarted(p) == IF pc[p] \in {"claim", "enqueue", "advance"} THEN {} ELSE picked[p]

Queueing == {r \in Runs : runs[r].status = "queued"}

NoResume(r) == \A e \in resumes : e.run # r

\* The first execution of a run belongs to the process that claimed it: until
\* it has returned there is no task to resume, and nobody resumes one.
FirstExecution ==
  /\ \A p \in Procs : \A r \in Unstarted(p) : task[r] = "none"
  /\ \A p \in Procs : pc[p] = "executing" => task[cur[p]] = "running" /\ NoResume(cur[p])
  /\ \A p \in Procs : pc[p] = "settle" =>
       /\ task[cur[p]] # "none"
       /\ outcome[p] = "succeeded" => task[cur[p]] = "succeeded" /\ NoResume(cur[p])

\* A resumed execution that has not returned keeps its task "running", which
\* is what turns a second reviewer away.
LaterExecutions ==
  /\ \A e \in resumes : task[e.run] # "none"
  /\ \A e \in resumes : e.result = "none" => task[e.run] = "running"
  /\ \A e, f \in resumes :
       e.run = f.run /\ e.result = "none" /\ f.result = "none" => e = f

ExecInv == FirstExecution /\ LaterExecutions

\* A step that begins and ends no execution.
Quiet ==
  /\ task' = task
  /\ resumes' \subseteq resumes
  /\ \A q \in Procs : pc'[q] = "executing" => pc[q] = "executing" /\ cur'[q] = cur[q]
  /\ \A q \in Procs : pc'[q] = "settle" =>
       pc[q] = "settle" /\ cur'[q] = cur[q] /\ outcome'[q] = outcome[q]
  /\ \A q \in Procs : \A r \in Unstarted(q)' :
       r \in Unstarted(q) \/ r \in Queueing

LEMMA QuietKeeps ==
  ASSUME OutOfQueue, ExecInv, Quiet
  PROVE  ExecInv'
<1>1. \A r \in Queueing : task[r] = "none"
  BY DEF OutOfQueue, Queueing
<1>2. \A q \in Procs : \A r \in Unstarted(q)' : task'[r] = "none"
  BY <1>1 DEF Quiet, ExecInv, FirstExecution
<1>3. FirstExecution'
  BY <1>2 DEF Quiet, ExecInv, FirstExecution, NoResume
<1>4. LaterExecutions'
  BY DEF Quiet, ExecInv, LaterExecutions
<1>5. QED
  BY <1>3, <1>4 DEF ExecInv

\* Nobody else holds the run a process is executing or about to execute.
LEMMA HeldAlone ==
  ASSUME TypeInv, ClaimedOnce, ExecInv, NEW p \in Procs
  PROVE  /\ \A r \in Unstarted(p) : \A q \in Procs \ {p} :
              /\ r \notin Unstarted(q)
              /\ pc[q] \in {"executing", "settle"} => cur[q] # r
         /\ pc[p] \in {"executing", "settle"} =>
              /\ cur[p] \in Runs
              /\ cur[p] \notin Unstarted(p)
              /\ \A q \in Procs \ {p} :
                   /\ cur[p] \notin Unstarted(q)
                   /\ pc[q] \in {"executing", "settle"} => cur[q] # cur[p]
<1>0. TypeOK /\ CurOK
  BY DEF TypeInv
<1>1. ASSUME NEW q \in Procs PROVE Unstarted(q) \subseteq Claimed(q)
  BY DEF Unstarted, Claimed
<1>2. ASSUME NEW q \in Procs, pc[q] \in {"executing", "settle"}
      PROVE  cur[q] \in Runs /\ cur[q] \in Claimed(q)
  BY <1>0, <1>2, RunAssumption DEF CurOK, Claimed
<1>3. ASSUME NEW q \in Procs \ {p} PROVE Claimed(p) \cap Claimed(q) = {}
  BY <1>3 DEF ClaimedOnce
<1>4. ASSUME pc[p] \in {"executing", "settle"} PROVE cur[p] \notin Unstarted(p)
  <2>1. task[cur[p]] # "none"
    BY <1>4 DEF ExecInv, FirstExecution
  <2>2. QED
    BY <2>1 DEF ExecInv, FirstExecution
<1>5. QED
  BY <1>1, <1>2, <1>3, <1>4

\* A step of p that leaves it outside an execution, and claims only queued runs.
LEMMA QuietBy ==
  ASSUME NEW p \in Procs, task' = task, resumes' \subseteq resumes,
         \A q \in Procs \ {p} :
           /\ pc'[q] = pc[q] /\ cur'[q] = cur[q]
           /\ outcome'[q] = outcome[q] /\ picked'[q] = picked[q],
         pc'[p] \notin {"executing", "settle"},
         pc'[p] \in {"claim", "enqueue", "advance"}
           \/ \A r \in picked'[p] : r \in Unstarted(p) \/ r \in Queueing
  PROVE  Quiet
<1>1. ASSUME NEW q \in Procs, NEW r \in Unstarted(q)'
      PROVE  r \in Unstarted(q) \/ r \in Queueing
  BY <1>1 DEF Unstarted
<1>2. ASSUME NEW q \in Procs, pc'[q] \in {"executing", "settle"}
      PROVE  pc'[q] = pc[q] /\ cur'[q] = cur[q] /\ outcome'[q] = outcome[q]
  BY <1>2
<1>3. QED
  BY <1>1, <1>2 DEF Quiet

LEMMA QuietSteps ==
  ASSUME TypeInv, NEW p \in Procs,
         \/ TickBegin(p) \/ SkipOverlap(p) \/ EnqueueScheduledRun(p)
         \/ AdvanceSchedule(p) \/ SelectDue(p) \/ ClaimDue(p) \/ DrainDone(p)
         \/ \E r \in Runs : \E b \in BOOLEAN : StartRefused(p, r, b)
         \/ SettleRun(p) \/ SettleThrows(p) \/ EnqueueRetry(p) \/ GiveUp(p)
         \/ Crash(p)
  PROVE  Quiet
<1>0. TypeOK
  BY DEF TypeInv
<1> DEFINE Mine ==
      /\ task' = task /\ resumes' \subseteq resumes
      /\ \A q \in Procs \ {p} :
           /\ pc'[q] = pc[q] /\ cur'[q] = cur[q]
           /\ outcome'[q] = outcome[q] /\ picked'[q] = picked[q]
           Rest ==
      /\ pc'[p] \notin {"executing", "settle"}
      /\ \/ pc'[p] \in {"claim", "enqueue", "advance"}
         \/ \A r \in picked'[p] : r \in Unstarted(p) \/ r \in Queueing
<1>1. CASE TickBegin(p)
  <2>1. Mine
    BY <1>0, <1>1 DEF TickBegin, TypeOK
  <2>2. Rest
    BY <1>0, <1>1 DEF TickBegin, Unstarted, TypeOK
  <2>3. QED
    BY <2>1, <2>2, QuietBy
<1>2. CASE SkipOverlap(p)
  <2>1. Mine
    BY <1>0, <1>2 DEF SkipOverlap, TypeOK
  <2>2. Rest
    BY <1>0, <1>2 DEF SkipOverlap, Unstarted, TypeOK
  <2>3. QED
    BY <2>1, <2>2, QuietBy
<1>3. CASE EnqueueScheduledRun(p)
  <2>1. Mine
    BY <1>0, <1>3 DEF EnqueueScheduledRun, TypeOK
  <2>2. Rest
    BY <1>0, <1>3 DEF EnqueueScheduledRun, Unstarted, TypeOK
  <2>3. QED
    BY <2>1, <2>2, QuietBy
<1>4. CASE AdvanceSchedule(p)
  <2>1. Mine
    BY <1>0, <1>4 DEF AdvanceSchedule, TypeOK
  <2>2. Rest
    BY <1>0, <1>4 DEF AdvanceSchedule, Unstarted, TypeOK
  <2>3. QED
    BY <2>1, <2>2, QuietBy
<1>5. CASE SelectDue(p)
  <2>1. Mine
    BY <1>0, <1>5 DEF SelectDue, TypeOK
  <2>2. Rest
    BY <1>0, <1>5 DEF SelectDue, Unstarted, TypeOK
  <2>3. QED
    BY <2>1, <2>2, QuietBy
<1>6. CASE ClaimDue(p)
  <2>1. Mine
    BY <1>0, <1>6 DEF ClaimDue, Claimable, TypeOK
  <2>2. Rest
    BY <1>0, <1>6 DEF ClaimDue, Claimable, Unstarted, Queueing, TypeOK
  <2>3. QED
    BY <2>1, <2>2, QuietBy
<1>7. CASE DrainDone(p)
  <2>1. Mine
    BY <1>0, <1>7 DEF DrainDone, TypeOK
  <2>2. Rest
    BY <1>0, <1>7 DEF DrainDone, Unstarted, TypeOK
  <2>3. QED
    BY <2>1, <2>2, QuietBy
<1>8. CASE \E r \in Runs : \E b \in BOOLEAN : StartRefused(p, r, b)
  <2>1. Mine
    BY <1>0, <1>8 DEF StartRefused, TypeOK
  <2>2. Rest
    BY <1>0, <1>8 DEF StartRefused, Unstarted, TypeOK
  <2>3. QED
    BY <2>1, <2>2, QuietBy
<1>9. CASE SettleRun(p)
  <2>1. Mine
    BY <1>0, <1>9 DEF SettleRun, TypeOK
  <2>2. Rest
    BY <1>0, <1>9 DEF SettleRun, Unstarted, TypeOK
  <2>3. QED
    BY <2>1, <2>2, QuietBy
<1>10. CASE SettleThrows(p)
  <2>1. Mine
    BY <1>0, <1>10 DEF SettleThrows, Abort, TypeOK
  <2>2. Rest
    BY <1>0, <1>10 DEF SettleThrows, Abort, Unstarted, TypeOK
  <2>3. QED
    BY <2>1, <2>2, QuietBy
<1>11. CASE EnqueueRetry(p)
  <2>1. Mine
    <3>1. CASE HasActive(runs[cur[p]].sched)
      BY <1>0, <1>11, <3>1 DEF EnqueueRetry, Abort, TypeOK
    <3>2. CASE ~HasActive(runs[cur[p]].sched)
      BY <1>0, <1>11, <3>2 DEF EnqueueRetry, TypeOK
    <3>3. QED
      BY <3>1, <3>2
  <2>2. Rest
    BY <1>0, <1>11 DEF EnqueueRetry, Abort, Unstarted, TypeOK
  <2>3. QED
    BY <2>1, <2>2, QuietBy
<1>12. CASE GiveUp(p)
  <2>1. Mine
    BY <1>0, <1>12 DEF GiveUp, TypeOK
  <2>2. Rest
    BY <1>0, <1>12 DEF GiveUp, Unstarted, TypeOK
  <2>3. QED
    BY <2>1, <2>2, QuietBy
<1>13. CASE Crash(p)
  <2>1. Mine
    BY <1>0, <1>13 DEF Crash, Abort, TypeOK
  <2>2. Rest
    BY <1>0, <1>13 DEF Crash, Abort, Unstarted, TypeOK
  <2>3. QED
    BY <2>1, <2>2, QuietBy
<1>14. QED
  BY <1>1, <1>2, <1>3, <1>4, <1>5, <1>6, <1>7, <1>8, <1>9, <1>10, <1>11, <1>12, <1>13

\* A step that touches none of these variables.
LEMMA QuietSame ==
  ASSUME task' = task, resumes' \subseteq resumes, UNCHANGED <<pc, cur, outcome, picked>>
  PROVE  Quiet
<1>1. \A q \in Procs : Unstarted(q)' = Unstarted(q)
  BY DEF Unstarted
<1>2. QED
  BY <1>1 DEF Quiet

LEMMA ExecStep ==
  ASSUME IInv, ExecInv, [Next]_vars
  PROVE  ExecInv'
<1>0. TypeInv /\ TypeOK /\ OutOfQueue /\ ClaimedOnce /\ PresentOK
  BY DEF IInv, TypeInv
<1>1. ASSUME NEW p \in Procs,
             \/ TickBegin(p) \/ SkipOverlap(p) \/ EnqueueScheduledRun(p)
             \/ AdvanceSchedule(p) \/ SelectDue(p) \/ ClaimDue(p) \/ DrainDone(p)
             \/ \E r \in Runs : \E b \in BOOLEAN : StartRefused(p, r, b)
             \/ SettleRun(p) \/ SettleThrows(p) \/ EnqueueRetry(p) \/ GiveUp(p)
             \/ Crash(p)
      PROVE  ExecInv'
  BY <1>0, <1>1, QuietSteps, QuietKeeps
<1>2. CASE UNCHANGED <<task, resumes, pc, cur, outcome, picked>>
  BY <1>0, <1>2, QuietSame, QuietKeeps
<1>3. ASSUME NEW p \in Procs, NEW r \in Runs, StartRun(p, r) PROVE ExecInv'
  <2>1. /\ r \in Unstarted(p) /\ pc[p] = "drain"
        /\ task' = [task EXCEPT ![r] = "running"]
        /\ pc' = [pc EXCEPT ![p] = "executing"]
        /\ cur' = [cur EXCEPT ![p] = r]
        /\ picked' = [picked EXCEPT ![p] = @ \ {r}]
        /\ resumes' = resumes /\ outcome' = outcome
    BY <1>3 DEF StartRun, Unstarted
  <2>2. task[r] = "none" /\ NoResume(r)
    BY <2>1 DEF ExecInv, FirstExecution, LaterExecutions, NoResume
  <2>3. \A q \in Procs \ {p} :
          /\ r \notin Unstarted(q)
          /\ pc[q] \in {"executing", "settle"} => cur[q] # r
    BY <1>0, <2>1, HeldAlone
  <2>4. ASSUME NEW q \in Procs PROVE Unstarted(q)' = Unstarted(q) \ {r}
    <3>1. CASE q = p
      BY <1>0, <2>1, <3>1 DEF Unstarted, TypeOK
    <3>2. CASE q # p
      <4>1. pc'[q] = pc[q] /\ picked'[q] = picked[q]
        BY <1>0, <2>1, <3>2 DEF TypeOK
      <4>2. Unstarted(q)' = Unstarted(q)
        BY <4>1 DEF Unstarted
      <4>3. r \notin Unstarted(q)
        BY <2>3, <3>2
      <4>4. Unstarted(q) = Unstarted(q) \ {r}
        BY <4>3
      <4>5. QED
        BY <4>2, <4>4
    <3>3. QED
      BY <3>1, <3>2
  <2>5. FirstExecution'
    BY <1>0, <2>1, <2>2, <2>3, <2>4 DEF ExecInv, FirstExecution, NoResume, TypeOK
  <2>6. LaterExecutions'
    BY <1>0, <2>1, <2>2 DEF ExecInv, LaterExecutions, NoResume, TypeOK
  <2>7. QED
    BY <2>5, <2>6 DEF ExecInv
<1>4. ASSUME NEW p \in Procs, NEW o \in Returns \cup Throws, TaskReturns(p, o)
      PROVE  ExecInv'
  <2>1. /\ pc[p] = "executing"
        /\ task' = [task EXCEPT ![cur[p]] = o]
        /\ pc' = [pc EXCEPT ![p] = "settle"]
        /\ outcome' = [outcome EXCEPT ![p] = o]
        /\ UNCHANGED <<cur, picked, resumes>>
        /\ o # "none"
    BY <1>4 DEF TaskReturns, Returns, Throws
  <2>2. NoResume(cur[p])
    BY <2>1 DEF ExecInv, FirstExecution
  <2>3. /\ cur[p] \in Runs
        /\ cur[p] \notin Unstarted(p)
        /\ \A q \in Procs \ {p} :
             /\ cur[p] \notin Unstarted(q)
             /\ pc[q] \in {"executing", "settle"} => cur[q] # cur[p]
    BY <1>0, <2>1, HeldAlone
  <2>4. \A q \in Procs : Unstarted(q)' = Unstarted(q)
    BY <1>0, <2>1 DEF Unstarted, TypeOK
  <2>5. FirstExecution'
    BY <1>0, <2>1, <2>2, <2>3, <2>4 DEF ExecInv, FirstExecution, NoResume, TypeOK
  <2>6. LaterExecutions'
    BY <1>0, <2>1, <2>2, <2>3 DEF ExecInv, LaterExecutions, NoResume, TypeOK
  <2>7. QED
    BY <2>5, <2>6 DEF ExecInv
<1>5. ASSUME NEW p \in Procs, NEW r \in Runs,
             ResumeTask(p, r) \/ ResumeAfterApprovalFailure(p, r)
      PROVE  ExecInv'
  <2> DEFINE new == [by |-> p, run |-> r, result |-> "none"]
  <2>1. /\ task[r] \in {"waiting_approval", "waiting_clarification"}
        /\ task' = [task EXCEPT ![r] = "running"]
        /\ resumes' = resumes \cup {new}
        /\ UNCHANGED <<pc, cur, outcome, picked>>
    BY <1>5 DEF ResumeTask, ResumeAfterApprovalFailure, Resumable, BeginResume, tickVars
  <2>2. new.run = r /\ new.result = "none"
    OBVIOUS
  <2>3. \A q \in Procs : Unstarted(q)' = Unstarted(q)
    BY <2>1 DEF Unstarted
  <2> HIDE DEF new
  <2>4. FirstExecution'
    BY <1>0, <2>1, <2>2, <2>3 DEF ExecInv, FirstExecution, NoResume, TypeOK
  <2>5. LaterExecutions'
    BY <1>0, <2>1, <2>2 DEF ExecInv, LaterExecutions, TypeOK
  <2>6. QED
    BY <2>4, <2>5 DEF ExecInv
<1>6. ASSUME NEW p \in Procs, NEW r \in Runs, FailWaitingClarification(p, r)
      PROVE  ExecInv'
  <2>1. /\ task[r] = "waiting_clarification"
        /\ task' = [task EXCEPT ![r] = "failed"]
        /\ UNCHANGED <<resumes, pc, cur, outcome, picked>>
    BY <1>6 DEF FailWaitingClarification, tickVars
  <2>2. \A q \in Procs : Unstarted(q)' = Unstarted(q)
    BY <2>1 DEF Unstarted
  <2>3. QED
    BY <1>0, <2>1, <2>2 DEF ExecInv, FirstExecution, LaterExecutions, NoResume, TypeOK
<1>7. ASSUME NEW e \in resumes, NEW o \in Throws, ResumeThrows(e, o) PROVE ExecInv'
  <2>1. /\ e.result = "none" /\ task[e.run] = "running" /\ o # "none"
        /\ task' = [task EXCEPT ![e.run] = o]
        /\ resumes' = resumes \ {e}
        /\ UNCHANGED <<pc, cur, outcome, picked>>
    BY <1>7 DEF ResumeThrows, tickVars, ExecInv, LaterExecutions, Throws
  <2>2. e.run \in Runs
    BY <1>0 DEF TypeOK, Resume
  <2>3. \A q \in Procs : Unstarted(q)' = Unstarted(q)
    BY <2>1 DEF Unstarted
  <2>4. FirstExecution'
    BY <1>0, <2>1, <2>2, <2>3 DEF ExecInv, FirstExecution, NoResume, TypeOK
  <2>5. LaterExecutions'
    BY <1>0, <2>1, <2>2 DEF ExecInv, LaterExecutions, TypeOK
  <2>6. QED
    BY <2>4, <2>5 DEF ExecInv
<1>8. ASSUME NEW e \in resumes, NEW o \in Returns, ResumeReturns(e, o) PROVE ExecInv'
  <2> DEFINE back == [e EXCEPT !.result = o]
  <2>1. /\ e.result = "none" /\ task[e.run] = "running" /\ o # "none"
        /\ task' = [task EXCEPT ![e.run] = o]
        /\ resumes' = (resumes \ {e}) \cup {back}
        /\ UNCHANGED <<pc, cur, outcome, picked>>
    BY <1>8 DEF ResumeReturns, tickVars, ExecInv, LaterExecutions, Returns
  <2>2. e.run \in Runs /\ back.run = e.run /\ back.result = o
    BY <1>0 DEF TypeOK, Resume
  <2>3. \A q \in Procs : Unstarted(q)' = Unstarted(q)
    BY <2>1 DEF Unstarted
  <2> HIDE DEF back
  <2>4. FirstExecution'
    BY <1>0, <2>1, <2>2, <2>3 DEF ExecInv, FirstExecution, NoResume, TypeOK
  <2>5. LaterExecutions'
    BY <1>0, <2>1, <2>2 DEF ExecInv, LaterExecutions, TypeOK
  <2>6. QED
    BY <2>4, <2>5 DEF ExecInv
<1>9. ASSUME NEW e \in resumes, SyncRunFromTask(e) PROVE ExecInv'
  BY <1>0, <1>9, QuietSame, QuietKeeps DEF SyncRunFromTask, tickVars
<1>10. ASSUME NEW r \in Runs, Retire(r) PROVE ExecInv'
  <2>1. /\ \A p \in Procs : r # cur[p]
        /\ NoResume(r)
        /\ task' = [task EXCEPT ![r] = "none"]
        /\ UNCHANGED <<resumes, pc, cur, outcome, picked>>
    BY <1>10 DEF Retire, NoResume, tickVars
  <2>2. \A q \in Procs : Unstarted(q)' = Unstarted(q)
    BY <2>1 DEF Unstarted
  <2>3. QED
    BY <1>0, <2>1, <2>2 DEF ExecInv, FirstExecution, LaterExecutions, NoResume, TypeOK
<1>11. ASSUME NEW p \in Procs, NEW s \in Schedules, Command(p, s)
       PROVE  UNCHANGED <<task, resumes, pc, cur, outcome, picked>>
  BY <1>11 DEF Command, CreateSchedule, PauseSchedule, ResumeSchedule, ArchiveSchedule,
               UpdateTiming, UpdateTimezone, UpdateRepeat, RunNow, UnchangedButSchedules,
               tickVars
<1>12. ASSUME NEW p \in Procs, TickAgain(p)
       PROVE  UNCHANGED <<task, resumes, pc, cur, outcome, picked>>
  BY <1>12 DEF TickAgain
<1>13. ASSUME NEW s \in Schedules, TimePasses(s)
       PROVE  UNCHANGED <<task, resumes, pc, cur, outcome, picked>>
  BY <1>13 DEF TimePasses, UnchangedButSchedules, tickVars
<1>14. ASSUME NEW r \in Runs, RetryDue(r)
       PROVE  UNCHANGED <<task, resumes, pc, cur, outcome, picked>>
  BY <1>14 DEF RetryDue, tickVars
<1>15. CASE UNCHANGED vars
  BY <1>2, <1>15 DEF vars, tickVars
<1>16. QED
  BY <1>1, <1>2, <1>3, <1>4, <1>5, <1>6, <1>7, <1>8, <1>9, <1>10, <1>11, <1>13, <1>14,
     <1>15, <1>12 DEF Next, TickStep, ResumeStep, Review

LEMMA ExecInit == Init => ExecInv
BY DEF Init, ExecInv, FirstExecution, LaterExecutions, Unstarted

LEMMA ExecCorrect == Spec => []ExecInv
<1>1. IInv /\ ExecInv /\ [Next]_vars => ExecInv'
  BY ExecStep
<1>2. QED
  BY InvCorrect, ExecInit, <1>1, PTL DEF Spec

LEMMA AloneByInv ==
  ASSUME TypeInv, ClaimedOnce, ExecInv
  PROVE  OneExecutor
<1> SUFFICES ASSUME NEW r \in Runs PROVE Cardinality(Executing(r)) <= 1
  BY DEF OneExecutor
<1>1. ASSUME NEW x \in Executing(r), NEW y \in Executing(r) PROVE x = y
  <2> DEFINE Ticks(z) == \E p \in Procs : pc[p] = "executing" /\ cur[p] = r /\ z = <<p, "tick">>
             Late(z)  == \E e \in resumes : e.run = r /\ e.result = "none"
                                            /\ z = <<e.by, "resume">>
  <2>1. (Ticks(x) \/ Late(x)) /\ (Ticks(y) \/ Late(y))
    BY <1>1 DEF Executing
  <2>2. CASE Ticks(x) /\ Ticks(y)
    BY <2>2, HeldAlone
  <2>3. CASE Late(x) /\ Late(y)
    BY <2>3 DEF ExecInv, LaterExecutions
  <2>4. ~(Ticks(x) /\ Late(y)) /\ ~(Late(x) /\ Ticks(y))
    BY DEF ExecInv, FirstExecution, NoResume
  <2>5. QED
    BY <2>1, <2>2, <2>3, <2>4
<1>2. CASE Executing(r) = {}
  BY <1>2, FS_EmptySet
<1>3. CASE Executing(r) # {}
  <2>1. PICK x \in Executing(r) : TRUE
    BY <1>3
  <2>2. Executing(r) = {x}
    BY <1>1, <2>1
  <2>3. Cardinality({x}) = 1
    BY FS_Singleton
  <2>4. QED
    BY <2>2, <2>3
<1>4. QED
  BY <1>2, <1>3

\* The agent loop of a run is never executed twice at the same time: neither by
\* two ticks, nor by two reviewers, nor by a tick and a reviewer, whichever
\* processes they live in and whichever of them crash.
THEOREM RunExecutedAlone == Spec => []OneExecutor
<1>1. IInv /\ ExecInv => OneExecutor
  BY AloneByInv DEF IInv
<1>2. QED
  BY InvCorrect, ExecCorrect, <1>1, PTL

-----------------------------------------------------------------------------
(* Fire times                                                              *)

\* NoLostFireTime, of one row of the table schedules.
FireTimeKept(row) ==
  row.status = "archived" \/ (row.status = "completed" /\ row.runAt # "none")
    => row.next = "none"

LEMMA FireTimeRows == ASSUME TypeOK PROVE NoLostFireTime <=> \A s \in Schedules : FireTimeKept(schedules[s])
BY DEF NoLostFireTime, FireTimeKept

LEMMA FireTimeRow ==
  ASSUME TypeOK, NoLostFireTime, NEW s \in Schedules, NEW row, FireTimeKept(row),
         schedules' = [schedules EXCEPT ![s] = row]
  PROVE  NoLostFireTime'
<1>1. ASSUME NEW q \in Schedules PROVE FireTimeKept(schedules'[q])
  <2>1. CASE q = s
    BY <2>1 DEF TypeOK
  <2>2. CASE q # s
    BY <2>2 DEF TypeOK, NoLostFireTime, FireTimeKept
  <2>3. QED
    BY <2>1, <2>2
<1>2. QED
  BY <1>1 DEF NoLostFireTime, FireTimeKept

\* A success takes the fire time away when it completes the schedule.
LEMMA FireTimeRepeat ==
  ASSUME NEW row \in ScheduleRow, FireTimeKept(row)
  PROVE  FireTimeKept(RepeatAfterSuccess(row))
<1>1. row.repeat \in 0 .. MaxRepeat
  BY DEF ScheduleRow
<1>2. CASE row.repeat = 0
  BY <1>2 DEF RepeatAfterSuccess
<1>3. CASE row.repeat = 1
  <2>1. RepeatAfterSuccess(row) =
          [row EXCEPT !.repeat = 0, !.next = "none", !.status = "completed"]
    BY <1>3 DEF RepeatAfterSuccess
  <2>2. RepeatAfterSuccess(row).next = "none"
    BY <2>1 DEF ScheduleRow
  <2>3. QED
    BY <2>2 DEF FireTimeKept
<1>4. CASE row.repeat > 1 /\ row.runAt # "none"
  <2>1. RepeatAfterSuccess(row) =
          [row EXCEPT !.repeat = row.repeat - 1, !.next = "due", !.status = "active"]
    BY <1>1, <1>4, BoundAssumption DEF RepeatAfterSuccess
  <2>2. RepeatAfterSuccess(row).status = "active"
    BY <2>1 DEF ScheduleRow
  <2>3. QED
    BY <2>2 DEF FireTimeKept
<1>5. CASE row.repeat > 1 /\ row.runAt = "none"
  <2>1. RepeatAfterSuccess(row) = [row EXCEPT !.repeat = row.repeat - 1]
    BY <1>1, <1>5, BoundAssumption DEF RepeatAfterSuccess
  <2>2. /\ RepeatAfterSuccess(row).status = row.status
        /\ RepeatAfterSuccess(row).runAt = row.runAt
        /\ RepeatAfterSuccess(row).next = row.next
    BY <2>1 DEF ScheduleRow
  <2>3. QED
    BY <2>2 DEF FireTimeKept
<1>6. QED
  BY <1>1, <1>2, <1>3, <1>4, <1>5, BoundAssumption

LEMMA FireTimeRepeatIf ==
  ASSUME TypeOK, NoLostFireTime, NEW b \in BOOLEAN, NEW r \in Runs,
         schedules' = RepeatIf(b, r)
  PROVE  NoLostFireTime'
<1>1. CASE b
  <2>1. PICK s \in Schedules : s = runs[r].sched
    BY DEF TypeOK, RunRow
  <2>2. FireTimeKept(RepeatAfterSuccess(schedules[s]))
    BY FireTimeRepeat, FireTimeRows DEF TypeOK
  <2>3. schedules' = [schedules EXCEPT ![s] = RepeatAfterSuccess(schedules[s])]
    BY <1>1, <2>1 DEF RepeatIf
  <2>4. QED
    BY <2>2, <2>3, FireTimeRow
<1>2. CASE ~b
  BY <1>2 DEF RepeatIf, NoLostFireTime
<1>3. QED
  BY <1>1, <1>2

LEMMA FireTimeStep == TypeInv /\ NoLostFireTime /\ [Next]_vars => NoLostFireTime'
<1> SUFFICES ASSUME TypeInv, NoLostFireTime, [Next]_vars PROVE NoLostFireTime'
  OBVIOUS
<1>0. TypeOK /\ CurOK
  BY DEF TypeInv
<1>1. CASE UNCHANGED schedules
  BY <1>1 DEF NoLostFireTime
<1>2. ASSUME NEW p \in Procs, NEW s \in Schedules, Command(p, s) PROVE NoLostFireTime'
  <2>0. schedules[s] \in ScheduleRow /\ FireTimeKept(schedules[s])
    BY <1>0, FireTimeRows DEF TypeOK
  <2>1. CASE CreateSchedule(p, s)
    <3>1. PICK n, at : schedules' = [schedules EXCEPT ![s] =
            [status |-> "active", next |-> FirstFire(at), runAt |-> at, repeat |-> n]]
      BY <2>1 DEF CreateSchedule
    <3>2. FireTimeKept([status |-> "active", next |-> FirstFire(at), runAt |-> at,
                        repeat |-> n])
      BY DEF FireTimeKept
    <3>3. QED
      BY <1>0, <3>1, <3>2, FireTimeRow
  <2>2. CASE PauseSchedule(p, s)
    <3>1. FireTimeKept([schedules[s] EXCEPT !.status = "paused"])
      BY <2>0 DEF FireTimeKept, ScheduleRow
    <3>2. QED
      BY <1>0, <2>2, <3>1, FireTimeRow DEF PauseSchedule
  <2>3. CASE ResumeSchedule(p, s)
    <3> DEFINE row == [schedules[s] EXCEPT !.status = "active",
                                           !.next = FirstFire(schedules[s].runAt)]
    <3>1. FireTimeKept(row)
      BY <2>0 DEF FireTimeKept, ScheduleRow
    <3>2. schedules' = [schedules EXCEPT ![s] = row]
      BY <1>0, <2>3 DEF ResumeSchedule, TypeOK
    <3> HIDE DEF row
    <3>3. QED
      BY <1>0, <3>1, <3>2, FireTimeRow
  <2>4. CASE ArchiveSchedule(p, s)
    <3> DEFINE row == [schedules[s] EXCEPT !.status = "archived", !.next = "none"]
    <3>1. FireTimeKept(row)
      BY <2>0 DEF FireTimeKept, ScheduleRow
    <3>2. schedules' = [schedules EXCEPT ![s] = row]
      BY <1>0, <2>4 DEF ArchiveSchedule, TypeOK
    <3> HIDE DEF row
    <3>3. QED
      BY <1>0, <3>1, <3>2, FireTimeRow
  <2>5. CASE UpdateTiming(p, s)
    <3>1. StatusAfterEdit(schedules[s].status) \notin {"archived", "completed"}
      BY <2>5 DEF UpdateTiming, Editable, StatusAfterEdit
    <3>2. PICK at, status :
            /\ status \notin {"archived", "completed"}
            /\ schedules' = [schedules EXCEPT ![s] =
                 [schedules[s] EXCEPT !.runAt = at, !.next = FirstFire(at),
                                      !.status = status]]
      <4>1. PICK at \in Timings :
              schedules' = [schedules EXCEPT ![s] =
                [schedules[s] EXCEPT !.runAt = at, !.next = FirstFire(at),
                                     !.status = StatusAfterEdit(schedules[s].status)]]
        BY <2>5 DEF UpdateTiming
      <4>2. PICK status : status = StatusAfterEdit(schedules[s].status)
        OBVIOUS
      <4>3. QED
        BY <3>1, <4>1, <4>2
    <3>3. [schedules[s] EXCEPT !.runAt = at, !.next = FirstFire(at),
                               !.status = status].status = status
      BY <2>0 DEF ScheduleRow
    <3>4. FireTimeKept([schedules[s] EXCEPT !.runAt = at, !.next = FirstFire(at),
                                            !.status = status])
      BY <3>2, <3>3 DEF FireTimeKept
    <3>5. QED
      BY <1>0, <3>2, <3>4, FireTimeRow
  <2>6. CASE UpdateTimezone(p, s)
    <3>1. FireTimeKept([schedules[s] EXCEPT !.next = "later"])
      BY <2>0, <2>6 DEF UpdateTimezone, Editable, FireTimeKept, ScheduleRow
    <3>2. QED
      BY <1>0, <2>6, <3>1, FireTimeRow DEF UpdateTimezone
  <2>7. CASE UpdateRepeat(p, s)
    <3>1. PICK n : schedules' = [schedules EXCEPT ![s] = [schedules[s] EXCEPT !.repeat = n]]
      BY <2>7 DEF UpdateRepeat
    <3>2. FireTimeKept([schedules[s] EXCEPT !.repeat = n])
      BY <2>0 DEF FireTimeKept, ScheduleRow
    <3>3. QED
      BY <1>0, <3>1, <3>2, FireTimeRow
  <2>8. CASE RunNow(p, s)
    BY <1>1, <2>8 DEF RunNow
  <2>9. QED
    BY <1>2, <2>1, <2>2, <2>3, <2>4, <2>5, <2>6, <2>7, <2>8 DEF Command
<1>3. ASSUME NEW p \in Procs, AdvanceSchedule(p) PROVE NoLostFireTime'
  <2>1. PICK d \in due[p] : schedules' = [schedules EXCEPT
            ![d.sched].next   = IF d.runAt = "none" THEN "later" ELSE "none",
            ![d.sched].status = IF d.runAt = "none" \/ d.repeat > 0
                                THEN "active" ELSE "completed"]
    BY <1>3 DEF AdvanceSchedule
  <2>2. PICK s \in Schedules : s = d.sched
    BY <1>0 DEF TypeOK
  <2>3. PICK b, a : /\ b = IF d.runAt = "none" THEN "later" ELSE "none"
                    /\ a = IF d.runAt = "none" \/ d.repeat > 0 THEN "active" ELSE "completed"
    OBVIOUS
  <2>4. schedules' = [schedules EXCEPT ![s] = [schedules[s] EXCEPT !.next = b, !.status = a]]
    BY <2>1, <2>2, <2>3
  <2>5. a = "active" \/ (a = "completed" /\ b = "none")
    BY <2>3
  <2>6. schedules[s] \in ScheduleRow
    BY <1>0 DEF TypeOK
  <2>7. /\ [schedules[s] EXCEPT !.next = b, !.status = a].status = a
        /\ [schedules[s] EXCEPT !.next = b, !.status = a].next = b
    BY <2>6 DEF ScheduleRow
  <2>8. FireTimeKept([schedules[s] EXCEPT !.next = b, !.status = a])
    BY <2>5, <2>7 DEF FireTimeKept
  <2>9. QED
    BY <1>0, <2>4, <2>8, FireTimeRow
<1>4. ASSUME NEW p \in Procs, SettleRun(p) PROVE NoLostFireTime'
  <2>1. cur[p] \in Runs
    BY <1>0, <1>4 DEF SettleRun, CurOK
  <2>2. PICK b \in BOOLEAN : schedules' = RepeatIf(b, cur[p])
    BY <1>4 DEF SettleRun
  <2>3. QED
    BY <1>0, <2>1, <2>2, FireTimeRepeatIf
<1>5. ASSUME NEW e \in resumes, SyncRunFromTask(e) PROVE NoLostFireTime'
  <2>1. e.run \in Runs
    BY <1>0 DEF TypeOK, Resume
  <2>2. CASE UNCHANGED schedules
    BY <1>1, <2>2
  <2>3. CASE schedules' # schedules
    <3>1. PICK b \in BOOLEAN : schedules' = RepeatIf(b, e.run)
      BY <1>5, <2>3 DEF SyncRunFromTask
    <3>2. QED
      BY <1>0, <2>1, <3>1, FireTimeRepeatIf
  <2>4. QED
    BY <2>2, <2>3
<1>6. ASSUME NEW s \in Schedules, TimePasses(s) PROVE NoLostFireTime'
  <2>1. PICK b, c :
          /\ b = IF schedules[s].next = "later" THEN "due" ELSE schedules[s].next
          /\ c = IF schedules[s].runAt = "future" THEN "past" ELSE schedules[s].runAt
    OBVIOUS
  <2>2. schedules' = [schedules EXCEPT ![s] = [schedules[s] EXCEPT !.next = b, !.runAt = c]]
    BY <1>6, <2>1 DEF TimePasses
  <2>3. schedules[s] \in ScheduleRow /\ FireTimeKept(schedules[s])
    BY <1>0, FireTimeRows DEF TypeOK
  <2>4. FireTimeKept([schedules[s] EXCEPT !.next = b, !.runAt = c])
    BY <2>1, <2>3 DEF FireTimeKept, ScheduleRow
  <2>5. QED
    BY <1>0, <2>2, <2>4, FireTimeRow
<1>7. ASSUME NEW p \in Procs,
             \/ TickBegin(p) \/ TickAgain(p) \/ SkipOverlap(p) \/ EnqueueScheduledRun(p)
             \/ SelectDue(p) \/ ClaimDue(p) \/ DrainDone(p)
             \/ \E r \in Runs : StartRun(p, r) \/ \E b \in BOOLEAN : StartRefused(p, r, b)
             \/ \E o \in Returns \cup Throws : TaskReturns(p, o)
             \/ SettleThrows(p) \/ EnqueueRetry(p) \/ GiveUp(p) \/ Crash(p)
      PROVE  UNCHANGED schedules
  BY <1>7 DEF TickBegin, TickAgain, SkipOverlap, EnqueueScheduledRun, SelectDue, ClaimDue,
              DrainDone, StartRun, StartRefused, TaskReturns, SettleThrows, EnqueueRetry,
              GiveUp, Crash
<1>8. ASSUME NEW p \in Procs, NEW r \in Runs, Review(p, r) PROVE UNCHANGED schedules
  BY <1>8 DEF Review, ResumeTask, ResumeAfterApprovalFailure, FailWaitingClarification
<1>9. ASSUME NEW e \in resumes,
             \/ \E o \in Throws : ResumeThrows(e, o)
             \/ \E o \in Returns : ResumeReturns(e, o)
      PROVE  UNCHANGED schedules
  BY <1>9 DEF ResumeThrows, ResumeReturns
<1>10. ASSUME NEW r \in Runs, RetryDue(r) \/ Retire(r) PROVE UNCHANGED schedules
  BY <1>10 DEF RetryDue, Retire
<1>11. CASE UNCHANGED vars
  BY <1>1, <1>11 DEF vars
<1>12. QED
  BY <1>1, <1>2, <1>3, <1>4, <1>5, <1>6, <1>7, <1>8, <1>9, <1>10, <1>11
     DEF Next, TickStep, ResumeStep

\* An archived schedule and a one-shot that is over have no fire time left, in
\* whichever order users edit, the clock moves and ticks and late answers write
\* the rows: updateSchedule, advance and handleRepeatAfterSuccess agree.
THEOREM FireTimesKept == Spec => []NoLostFireTime
<1>1. Init => NoLostFireTime
  BY DEF Init, NoLostFireTime
<1>2. QED
  BY InvCorrect, <1>1, FireTimeStep, PTL DEF Spec, IInv

-----------------------------------------------------------------------------
(* The repeat counter                                                      *)

\* The runs of which nobody but p writes the row: those it has yet to start,
\* the one it executes, and the one whose success it is about to record.
InHand(p) ==
  Unstarted(p)
  \cup (IF pc[p] = "executing" \/ (pc[p] = "settle" /\ outcome[p] = "succeeded")
        THEN {cur[p]} ELSE {})

RowsInHand == \A p \in Procs : \A r \in InHand(p) : runs[r].status = "running"

LEMMA InHandAlone ==
  ASSUME IInv, ExecInv, NEW p \in Procs, NEW r \in InHand(p)
  PROVE  /\ r \in Runs
         /\ NoResume(r)
         /\ task[r] \in {"none", "running", "succeeded"}
         /\ \A q \in Procs \ {p} : r \notin Claimed(q)
<1>0. TypeOK /\ CurOK /\ ClaimedOnce
  BY DEF IInv, TypeInv
<1>1. CASE r \in Unstarted(p)
  <2>1. r \in Runs /\ r \in Claimed(p) /\ task[r] = "none"
    BY <1>0, <1>1 DEF Unstarted, Claimed, TypeOK, ExecInv, FirstExecution
  <2>2. QED
    BY <1>0, <2>1 DEF ExecInv, LaterExecutions, NoResume, ClaimedOnce
<1>2. CASE r \notin Unstarted(p)
  <2>1. r = cur[p] /\ (pc[p] = "executing" \/ (pc[p] = "settle" /\ outcome[p] = "succeeded"))
    BY <1>2 DEF InHand
  <2>2. r \in Runs /\ r \in Claimed(p)
    BY <1>0, <2>1, RunAssumption DEF CurOK, Claimed
  <2>3. NoResume(r) /\ task[r] \in {"running", "succeeded"}
    BY <2>1 DEF ExecInv, FirstExecution
  <2>4. QED
    BY <1>0, <2>2, <2>3 DEF ClaimedOnce
<1>3. QED
  BY <1>1, <1>2

\* No step but claimDue gives a process more rows of its own.
LEMMA InHandStep ==
  ASSUME IInv, ExecInv, [Next]_vars, \A p \in Procs : ~ClaimDue(p)
  PROVE  \A q \in Procs : InHand(q)' \subseteq InHand(q)
<1> DEFINE Goal == \A q \in Procs : InHand(q)' \subseteq InHand(q)
<1>0. TypeOK /\ CurOK
  BY DEF IInv, TypeInv
<1>1. CASE UNCHANGED <<pc, picked, cur, outcome>>
  BY <1>1 DEF InHand, Unstarted
<1>2. ASSUME NEW p \in Procs, InHand(p)' \subseteq InHand(p),
             \A q \in Procs \ {p} :
               pc'[q] = pc[q] /\ cur'[q] = cur[q] /\ outcome'[q] = outcome[q]
               /\ picked'[q] = picked[q]
      PROVE  Goal
  <2>1. ASSUME NEW q \in Procs \ {p} PROVE InHand(q)' = InHand(q)
    BY <1>2, <2>1 DEF InHand, Unstarted
  <2>2. QED
    BY <1>2, <2>1
<1>3. ASSUME NEW p \in Procs,
             TickBegin(p) \/ SelectDue(p) \/ DrainDone(p) \/ Crash(p) \/ GiveUp(p)
      PROVE  Goal
  <2>1. InHand(p)' \subseteq InHand(p)
    BY <1>0, <1>3 DEF TickBegin, SelectDue, DrainDone, Crash, Abort, GiveUp, InHand,
                      Unstarted, TypeOK
  <2>2. QED
    BY <1>0, <1>2, <1>3, <2>1 DEF TickBegin, SelectDue, DrainDone, Crash, Abort, GiveUp, TypeOK
<1>4. ASSUME NEW p \in Procs, EnqueueScheduledRun(p) \/ AdvanceSchedule(p) PROVE Goal
  <2>1. InHand(p)' \subseteq InHand(p)
    BY <1>0, <1>4 DEF EnqueueScheduledRun, AdvanceSchedule, InHand, Unstarted, TypeOK
  <2>2. QED
    BY <1>0, <1>2, <1>4, <2>1 DEF EnqueueScheduledRun, AdvanceSchedule, TypeOK
<1>5. ASSUME NEW p \in Procs, NEW r \in Runs,
             StartRun(p, r) \/ \E b \in BOOLEAN : StartRefused(p, r, b)
      PROVE  Goal
  <2>1. InHand(p)' \subseteq InHand(p)
    BY <1>0, <1>5 DEF StartRun, StartRefused, InHand, Unstarted, TypeOK
  <2>2. QED
    BY <1>0, <1>2, <1>5, <2>1 DEF StartRun, StartRefused, TypeOK
<1>6. ASSUME NEW p \in Procs, NEW o \in Returns \cup Throws, TaskReturns(p, o) PROVE Goal
  <2>1. InHand(p)' \subseteq InHand(p)
    BY <1>0, <1>6 DEF TaskReturns, InHand, Unstarted, TypeOK
  <2>2. QED
    BY <1>0, <1>2, <1>6, <2>1 DEF TaskReturns, TypeOK
<1>7. ASSUME NEW p \in Procs, SettleRun(p) \/ SettleThrows(p) PROVE Goal
  <2>1. CASE SettleRun(p)
    <3>1. InHand(p)' \subseteq InHand(p)
      BY <1>0, <2>1 DEF SettleRun, InHand, Unstarted, TypeOK
    <3>2. QED
      BY <1>0, <1>2, <2>1, <3>1 DEF SettleRun, TypeOK
  <2>2. CASE SettleThrows(p)
    <3>1. InHand(p)' \subseteq InHand(p)
      BY <1>0, <2>2 DEF SettleThrows, Abort, InHand, Unstarted, TypeOK
    <3>2. QED
      BY <1>0, <1>2, <2>2, <3>1 DEF SettleThrows, Abort, TypeOK
  <2>3. QED
    BY <1>7, <2>1, <2>2
<1>8. ASSUME NEW p \in Procs, EnqueueRetry(p) PROVE Goal
  <2>1. InHand(p)' \subseteq InHand(p)
    BY <1>0, <1>8 DEF EnqueueRetry, Abort, InHand, Unstarted, TypeOK
  <2>2. CASE HasActive(runs[cur[p]].sched)
    BY <1>0, <1>2, <1>8, <2>1, <2>2 DEF EnqueueRetry, Abort, TypeOK
  <2>3. CASE ~HasActive(runs[cur[p]].sched)
    BY <1>0, <1>2, <1>8, <2>1, <2>3 DEF EnqueueRetry, TypeOK
  <2>4. QED
    BY <2>2, <2>3
<1>9. ASSUME NEW p \in Procs, NEW s \in Schedules, Command(p, s)
      PROVE  UNCHANGED <<pc, picked, cur, outcome>>
  BY <1>9 DEF Command, CreateSchedule, PauseSchedule, ResumeSchedule, ArchiveSchedule,
              UpdateTiming, UpdateTimezone, UpdateRepeat, RunNow, UnchangedButSchedules,
              tickVars
<1>10. ASSUME NEW p \in Procs, NEW r \in Runs, Review(p, r)
       PROVE  UNCHANGED <<pc, picked, cur, outcome>>
  BY <1>10 DEF Review, ResumeTask, ResumeAfterApprovalFailure, FailWaitingClarification,
               tickVars
<1>11. ASSUME ResumeStep PROVE UNCHANGED <<pc, picked, cur, outcome>>
  BY <1>11 DEF ResumeStep, ResumeThrows, ResumeReturns, SyncRunFromTask, tickVars
<1>12. ASSUME NEW s \in Schedules, TimePasses(s) PROVE UNCHANGED <<pc, picked, cur, outcome>>
  BY <1>12 DEF TimePasses, UnchangedButSchedules, tickVars
<1>13. ASSUME NEW r \in Runs, RetryDue(r) \/ Retire(r)
       PROVE  UNCHANGED <<pc, picked, cur, outcome>>
  BY <1>13 DEF RetryDue, Retire, tickVars
<1>14. ASSUME NEW p \in Procs, SkipOverlap(p) \/ TickAgain(p)
       PROVE  UNCHANGED <<pc, picked, cur, outcome>>
  BY <1>14 DEF SkipOverlap, TickAgain
<1>15. CASE UNCHANGED vars
  BY <1>1, <1>15 DEF vars, tickVars
<1>16. QED
  BY <1>1, <1>3, <1>4, <1>5, <1>6, <1>7, <1>8, <1>9, <1>10, <1>11, <1>12, <1>13, <1>14,
     <1>15 DEF Next, TickStep

\* The rows in hand keep their status as long as they are in hand.
LEMMA RowsInHandStep ==
  ASSUME IInv, ExecInv, RowsInHand, [Next]_vars
  PROVE  RowsInHand'
<1>0. TypeOK /\ CurOK
  BY DEF IInv, TypeInv
<1>1. ASSUME NEW p \in Procs, ClaimDue(p) PROVE RowsInHand'
  <2>1. ASSUME NEW r \in Runs, runs[r].status = "running" PROVE runs'[r].status = "running"
    BY <1>0, <1>1, <2>1 DEF ClaimDue, TypeOK, RunRow
  <2>2. /\ picked'[p] = {r \in picked[p] : Claimable(r)}
        /\ pc'[p] = "drain"
        /\ \A q \in Procs \ {p} : pc'[q] = pc[q] /\ picked'[q] = picked[q]
        /\ cur' = cur /\ outcome' = outcome
    BY <1>0, <1>1 DEF ClaimDue, TypeOK
  <2>3. \A r \in picked'[p] : r \in Runs /\ runs'[r].status = "running"
    BY <1>0, <1>1, <2>2 DEF ClaimDue, TypeOK, RunRow
  <2>4. InHand(p)' = picked'[p]
    BY <2>2 DEF InHand, Unstarted
  <2>5. ASSUME NEW q \in Procs \ {p} PROVE InHand(q)' = InHand(q)
    BY <2>2, <2>5 DEF InHand, Unstarted
  <2>6. ASSUME NEW q \in Procs, NEW r \in InHand(q) PROVE runs'[r].status = "running"
    BY <2>1, <2>6, InHandAlone DEF RowsInHand
  <2>7. QED
    BY <2>3, <2>4, <2>5, <2>6 DEF RowsInHand
<1>2. CASE \A p \in Procs : ~ClaimDue(p)
  <2>1. SUFFICES ASSUME NEW q \in Procs, NEW r \in InHand(q)'
                 PROVE  runs'[r].status = "running"
    BY DEF RowsInHand
  <2>2. r \in InHand(q) /\ r \in Runs /\ runs[r].status = "running"
    BY <1>2, <2>1, InHandStep, InHandAlone DEF RowsInHand
  <2>3. /\ NoResume(r)
        /\ task[r] \in {"none", "running", "succeeded"}
        /\ \A p \in Procs \ {q} : r \notin Claimed(p)
    BY <2>2, InHandAlone
  <2>4. CASE runs' = runs
    BY <2>2, <2>4
  <2>5. ASSUME NEW n \in FreshRuns, NEW s, NEW k, NEW how, NEW b, CreateRun(n, s, k, how, b)
        PROVE  runs'[r].status = "running"
    BY <1>0, <2>2, <2>5 DEF CreateRun, FreshRuns, TypeOK
  <2>6. ASSUME NEW n \in Runs, NEW to, runs' = SetStatus(n, to), n # r
        PROVE  runs'[r].status = "running"
    BY <1>0, <2>2, <2>6 DEF SetStatus, TypeOK
  <2>7. ASSUME NEW p \in Procs, NEW n \in Runs, NEW b \in BOOLEAN, StartRefused(p, n, b)
        PROVE  runs'[r].status = "running"
    <3>1. n \in Claimed(p)
      BY <2>7 DEF StartRefused, Claimed
    <3>2. p = q => n \notin InHand(q)'
      BY <1>0, <2>7 DEF StartRefused, InHand, Unstarted, TypeOK
    <3>3. n # r
      BY <2>1, <2>3, <3>1, <3>2
    <3>4. QED
      BY <1>0, <2>2, <2>7, <3>3 DEF StartRefused, TypeOK
  <2>8. ASSUME NEW p \in Procs, SettleRun(p) \/ SettleThrows(p)
        PROVE  runs'[r].status = "running"
    <3>1. cur[p] \in Runs /\ cur[p] \in Claimed(p) /\ pc[p] = "settle"
      BY <1>0, <2>8, RunAssumption DEF SettleRun, SettleThrows, CurOK, Claimed
    <3>2. cur[p] \notin Unstarted(p)
      BY <3>1, HeldAlone DEF IInv
    <3>3. p = q => cur[p] \notin InHand(q)'
      <4>1. CASE SettleRun(p)
        BY <1>0, <3>1, <3>2, <4>1 DEF SettleRun, InHand, Unstarted, TypeOK
      <4>2. CASE SettleThrows(p)
        BY <1>0, <3>1, <3>2, <4>2 DEF SettleThrows, Abort, InHand, Unstarted, TypeOK
      <4>3. QED
        BY <2>8, <4>1, <4>2
    <3>4. cur[p] # r
      BY <2>1, <2>3, <3>1, <3>3
    <3>5. QED
      BY <2>4, <2>6, <2>8, <3>1, <3>4 DEF SettleRun, SettleThrows
  <2>9. ASSUME NEW p \in Procs, NEW n \in Runs, Review(p, n)
        PROVE  runs'[r].status = "running"
    <3>1. task[r] \notin {"waiting_approval", "waiting_clarification"}
      BY <2>3
    <3>2. CASE n = r
      BY <2>9, <3>1, <3>2 DEF Review, ResumeTask, Resumable, ResumeAfterApprovalFailure,
                              FailWaitingClarification
    <3>3. CASE n # r
      BY <2>4, <2>6, <2>9, <3>3 DEF Review, ResumeTask, MarkResuming,
                                   ResumeAfterApprovalFailure, FailWaitingClarification
    <3>4. QED
      BY <3>2, <3>3
  <2>10. ASSUME NEW e \in resumes,
                \/ \E o \in Throws : ResumeThrows(e, o)
                \/ \E o \in Returns : ResumeReturns(e, o)
                \/ SyncRunFromTask(e)
         PROVE  runs'[r].status = "running"
    <3>1. e.run # r /\ e.run \in Runs
      BY <1>0, <2>3 DEF NoResume, TypeOK, Resume
    <3>2. QED
      BY <2>4, <2>6, <2>10, <3>1 DEF ResumeThrows, ResumeReturns, SyncRunFromTask
  <2>11. ASSUME NEW n \in Runs, RetryDue(n) PROVE runs'[r].status = "running"
    BY <1>0, <2>2, <2>11 DEF RetryDue, TypeOK, RunRow
  <2>12. ASSUME NEW n \in Runs, Retire(n) PROVE runs'[r].status = "running"
    BY <1>0, <2>2, <2>12 DEF Retire, TypeOK, Terminal
  <2>13. ASSUME NEW p \in Procs, NEW s \in Schedules, Command(p, s)
         PROVE  runs'[r].status = "running"
    BY <2>4, <2>5, <2>13
       DEF Command, CreateSchedule, PauseSchedule, ResumeSchedule, ArchiveSchedule,
           UpdateTiming, UpdateTimezone, UpdateRepeat, RunNow, UnchangedButSchedules
  <2>14. ASSUME NEW p \in Procs, EnqueueScheduledRun(p) \/ EnqueueRetry(p)
         PROVE  runs'[r].status = "running"
    BY <2>4, <2>5, <2>14 DEF EnqueueScheduledRun, EnqueueRetry
  <2>15. ASSUME NEW p \in Procs,
                \/ TickBegin(p) \/ TickAgain(p) \/ SkipOverlap(p) \/ AdvanceSchedule(p)
                \/ SelectDue(p) \/ DrainDone(p) \/ GiveUp(p) \/ Crash(p)
                \/ \E n \in Runs : StartRun(p, n)
                \/ \E o \in Returns \cup Throws : TaskReturns(p, o)
         PROVE  runs' = runs
    BY <2>15 DEF TickBegin, TickAgain, SkipOverlap, AdvanceSchedule, SelectDue, DrainDone,
                 GiveUp, Crash, StartRun, TaskReturns
  <2>16. ASSUME NEW s \in Schedules, TimePasses(s) PROVE runs' = runs
    BY <2>16 DEF TimePasses, UnchangedButSchedules
  <2>17. CASE UNCHANGED vars
    BY <2>4, <2>17 DEF vars
  <2>18. QED
    BY <1>2, <2>4, <2>7, <2>8, <2>9, <2>10, <2>11, <2>12, <2>13, <2>14, <2>15, <2>16,
       <2>17 DEF Next, TickStep, ResumeStep
<1>3. QED
  BY <1>1, <1>2

LEMMA RowsInHandCorrect == Spec => []RowsInHand
<1>1. Init => RowsInHand
  BY DEF Init, RowsInHand, InHand, Unstarted
<1>2. IInv /\ ExecInv /\ RowsInHand /\ [Next]_vars => RowsInHand'
  BY RowsInHandStep
<1>3. QED
  BY InvCorrect, ExecCorrect, <1>1, <1>2, PTL DEF Spec

LEMMA CompletedMeansSucceeded ==
  ASSUME NEW t PROVE RunStatusOf(t) = "completed" => t = "succeeded"
BY DEF RunStatusOf

\* A success takes one from the counter, or leaves the row alone.
LEMMA RepeatCount ==
  ASSUME NEW row \in ScheduleRow
  PROVE  RepeatAfterSuccess(row).repeat \in {row.repeat, row.repeat - 1}
<1>1. row.repeat \in 0 .. MaxRepeat
  BY DEF ScheduleRow
<1>2. CASE row.repeat = 0
  BY <1>2 DEF RepeatAfterSuccess
<1>3. CASE row.repeat = 1
  <2>1. RepeatAfterSuccess(row) =
          [row EXCEPT !.repeat = 0, !.next = "none", !.status = "completed"]
    BY <1>3 DEF RepeatAfterSuccess
  <2>2. RepeatAfterSuccess(row).repeat = 0
    BY <2>1 DEF ScheduleRow
  <2>3. QED
    BY <1>3, <2>2
<1>4. CASE row.repeat > 1
  <2>1. \/ RepeatAfterSuccess(row) =
             [row EXCEPT !.repeat = row.repeat - 1, !.next = "due", !.status = "active"]
        \/ RepeatAfterSuccess(row) = [row EXCEPT !.repeat = row.repeat - 1]
    BY <1>1, <1>4, BoundAssumption DEF RepeatAfterSuccess
  <2>2. RepeatAfterSuccess(row).repeat = row.repeat - 1
    BY <2>1 DEF ScheduleRow
  <2>3. QED
    BY <2>2
<1>5. QED
  BY <1>1, <1>2, <1>3, <1>4, BoundAssumption

\* The counters move only with a success of a run of their schedule.
LEMMA RepeatIfCount ==
  ASSUME TypeOK, NEW b \in BOOLEAN, NEW r \in Runs, schedules' = RepeatIf(b, r),
         NEW s \in Schedules, schedules'[s].repeat # schedules[s].repeat
  PROVE  /\ b
         /\ runs[r].sched = s
         /\ schedules'[s].repeat = schedules[s].repeat - 1
<1>1. CASE ~b
  BY <1>1 DEF RepeatIf
<1>2. CASE b
  <2>1. schedules' = [schedules EXCEPT ![runs[r].sched] =
                        RepeatAfterSuccess(schedules[runs[r].sched])]
    BY <1>2 DEF RepeatIf
  <2>2. runs[r].sched = s
    BY <2>1 DEF TypeOK
  <2>3. schedules'[s] = RepeatAfterSuccess(schedules[s])
    BY <2>1, <2>2 DEF TypeOK
  <2>4. schedules'[s].repeat \in {schedules[s].repeat, schedules[s].repeat - 1}
    BY <2>3, RepeatCount DEF TypeOK
  <2>5. QED
    BY <1>2, <2>2, <2>4
<1>3. QED
  BY <1>1, <1>2

\* The body of RepeatCountsSuccesses.
CountedOnce(s) ==
  schedules'[s].repeat # schedules[s].repeat =>
    \/ \E p \in Procs : CreateSchedule(p, s) \/ UpdateRepeat(p, s)
    \/ /\ schedules'[s].repeat = schedules[s].repeat - 1
       /\ \E r \in Runs : /\ runs[r].sched = s
                         /\ runs[r].status \in Active
                         /\ runs'[r].status = "completed"

LEMMA CountedOnceStep ==
  ASSUME IInv, ExecInv, RowsInHand, [Next]_vars, NEW s \in Schedules
  PROVE  CountedOnce(s)
<1>0. TypeOK /\ CurOK /\ PresentOK
  BY DEF IInv, TypeInv
<1> SUFFICES ASSUME schedules'[s].repeat # schedules[s].repeat,
                    \A p \in Procs : ~CreateSchedule(p, s) /\ ~UpdateRepeat(p, s)
             PROVE  /\ schedules'[s].repeat = schedules[s].repeat - 1
                    /\ \E r \in Runs : /\ runs[r].sched = s
                                      /\ runs[r].status \in Active
                                      /\ runs'[r].status = "completed"
  BY DEF CountedOnce
<1> DEFINE Goal == /\ schedules'[s].repeat = schedules[s].repeat - 1
                   /\ \E r \in Runs : /\ runs[r].sched = s
                                     /\ runs[r].status \in Active
                                     /\ runs'[r].status = "completed"
<1>1. schedules' # schedules
  OBVIOUS
<1>2. ASSUME NEW p \in Procs, NEW q \in Schedules, Command(p, q) PROVE FALSE
  <2>0. schedules[q] \in ScheduleRow
    BY <1>0 DEF TypeOK
  <2>1. CASE CreateSchedule(p, q) \/ UpdateRepeat(p, q)
    <3>1. q # s
      BY <2>1
    <3>2. QED
      BY <1>0, <2>1, <3>1 DEF CreateSchedule, UpdateRepeat, TypeOK
  <2>2. CASE PauseSchedule(p, q)
    BY <1>0, <2>0, <2>2 DEF PauseSchedule, TypeOK, ScheduleRow
  <2>3. CASE ResumeSchedule(p, q)
    BY <1>0, <2>0, <2>3 DEF ResumeSchedule, TypeOK, ScheduleRow
  <2>4. CASE ArchiveSchedule(p, q)
    BY <1>0, <2>0, <2>4 DEF ArchiveSchedule, TypeOK, ScheduleRow
  <2>5. CASE UpdateTiming(p, q)
    BY <1>0, <2>0, <2>5 DEF UpdateTiming, TypeOK, ScheduleRow
  <2>6. CASE UpdateTimezone(p, q)
    BY <1>0, <2>0, <2>6 DEF UpdateTimezone, TypeOK, ScheduleRow
  <2>7. CASE RunNow(p, q)
    BY <1>1, <2>7 DEF RunNow
  <2>8. QED
    BY <1>2, <2>1, <2>2, <2>3, <2>4, <2>5, <2>6, <2>7 DEF Command
<1>3. ASSUME NEW p \in Procs, AdvanceSchedule(p) PROVE FALSE
  <2>1. PICK d, b, a : schedules' = [schedules EXCEPT ![d] =
                         [schedules[d] EXCEPT !.next = b, !.status = a]]
    <3>1. PICK x \in due[p] : schedules' = [schedules EXCEPT
              ![x.sched].next   = IF x.runAt = "none" THEN "later" ELSE "none",
              ![x.sched].status = IF x.runAt = "none" \/ x.repeat > 0
                                  THEN "active" ELSE "completed"]
      BY <1>3 DEF AdvanceSchedule
    <3>2. PICK b, a :
            /\ b = IF x.runAt = "none" THEN "later" ELSE "none"
            /\ a = IF x.runAt = "none" \/ x.repeat > 0 THEN "active" ELSE "completed"
      OBVIOUS
    <3>3. schedules' = [schedules EXCEPT ![x.sched] =
                          [schedules[x.sched] EXCEPT !.next = b, !.status = a]]
      BY <3>1, <3>2
    <3>4. QED
      BY <3>3
  <2>2. schedules[s] \in ScheduleRow
    BY <1>0 DEF TypeOK
  <2>3. QED
    BY <1>0, <2>1, <2>2 DEF TypeOK, ScheduleRow
<1>4. ASSUME NEW p \in Procs, SettleRun(p) PROVE Goal
  <2> DEFINE r == cur[p]
             to == RunStatusOf(outcome[p])
  <2>1. r \in Runs /\ pc[p] = "settle"
    BY <1>0, <1>4 DEF SettleRun, CurOK
  <2>2. runs' = SetStatus(r, to) /\ schedules' = RepeatIf(to = "completed", r)
    BY <1>4 DEF SettleRun
  <2>3. /\ to = "completed"
        /\ runs[r].sched = s
        /\ schedules'[s].repeat = schedules[s].repeat - 1
    <3>1. PICK b \in BOOLEAN : b = (to = "completed")
      OBVIOUS
    <3>2. QED
      BY <1>0, <2>1, <2>2, <3>1, RepeatIfCount
  <2>4. r \in InHand(p)
    BY <2>1, <2>3, CompletedMeansSucceeded DEF InHand
  <2>5. runs[r].status = "running"
    BY <2>4 DEF RowsInHand
  <2>6. runs'[r].status = "completed"
    <3> HIDE DEF to, r
    <3>1. QED
      BY <1>0, <2>1, <2>2, <2>3 DEF SetStatus, TypeOK, RunRow
  <2>7. QED
    BY <2>1, <2>3, <2>5, <2>6 DEF Active
<1>5. ASSUME NEW e \in resumes, SyncRunFromTask(e) PROVE Goal
  <2> DEFINE r == e.run
             to == RunStatusOf(e.result)
  <2>1. r \in Runs /\ runs[r].status # "absent"
    BY <1>0 DEF PresentOK, Present
  <2>2. /\ CanMove(runs[r].status, to)
        /\ runs' = SetStatus(r, to)
        /\ schedules' = RepeatIf(to = "completed" /\ runs[r].status # "completed", r)
    BY <1>1, <1>5 DEF SyncRunFromTask
  <2>3. /\ to = "completed" /\ runs[r].status # "completed"
        /\ runs[r].sched = s
        /\ schedules'[s].repeat = schedules[s].repeat - 1
    <3>1. PICK b \in BOOLEAN : b = (to = "completed" /\ runs[r].status # "completed")
      OBVIOUS
    <3>2. QED
      BY <1>0, <2>1, <2>2, <3>1, RepeatIfCount
  <2>4. runs[r].status \in RunStatus
    BY <1>0, <2>1 DEF TypeOK, RunRow
  <2>5. runs[r].status \in Active
    BY <2>2, <2>3, <2>4 DEF CanMove, Transitions, RunStatus, Active, Terminal
  <2>6. runs'[r].status = "completed"
    <3> HIDE DEF to, r
    <3>1. QED
      BY <1>0, <2>1, <2>2, <2>3 DEF SetStatus, TypeOK, RunRow
  <2>7. QED
    BY <2>1, <2>3, <2>5, <2>6
<1>6. ASSUME NEW q \in Schedules, TimePasses(q) PROVE FALSE
  <2>1. schedules[q] \in ScheduleRow
    BY <1>0 DEF TypeOK
  <2>2. QED
    BY <1>0, <1>6, <2>1 DEF TimePasses, TypeOK, ScheduleRow
<1>7. ASSUME NEW p \in Procs,
             \/ TickBegin(p) \/ TickAgain(p) \/ SkipOverlap(p) \/ EnqueueScheduledRun(p)
             \/ SelectDue(p) \/ ClaimDue(p) \/ DrainDone(p)
             \/ \E r \in Runs : StartRun(p, r) \/ \E b \in BOOLEAN : StartRefused(p, r, b)
             \/ \E o \in Returns \cup Throws : TaskReturns(p, o)
             \/ SettleThrows(p) \/ EnqueueRetry(p) \/ GiveUp(p) \/ Crash(p)
      PROVE  FALSE
  BY <1>1, <1>7
     DEF TickBegin, TickAgain, SkipOverlap, EnqueueScheduledRun, SelectDue, ClaimDue,
         DrainDone, StartRun, StartRefused, TaskReturns, SettleThrows, EnqueueRetry,
         GiveUp, Crash
<1>8. ASSUME NEW p \in Procs, NEW r \in Runs, Review(p, r) PROVE FALSE
  BY <1>1, <1>8 DEF Review, ResumeTask, ResumeAfterApprovalFailure, FailWaitingClarification
<1>9. ASSUME NEW e \in resumes,
             \/ \E o \in Throws : ResumeThrows(e, o)
             \/ \E o \in Returns : ResumeReturns(e, o)
      PROVE  FALSE
  BY <1>1, <1>9 DEF ResumeThrows, ResumeReturns
<1>10. ASSUME NEW r \in Runs, RetryDue(r) \/ Retire(r) PROVE FALSE
  BY <1>1, <1>10 DEF RetryDue, Retire
<1>11. CASE UNCHANGED vars
  BY <1>1, <1>11 DEF vars
<1>12. QED
  BY <1>2, <1>3, <1>4, <1>5, <1>6, <1>7, <1>8, <1>9, <1>10, <1>11
     DEF Next, TickStep, ResumeStep

\* repeatRemaining counts the successes of a schedule and nothing else: whoever
\* records a run as completed, it had not been completed before, so no success
\* is counted twice.
THEOREM RepeatCounterCorrect == Spec => RepeatCountsSuccesses
<1>1. IInv /\ ExecInv /\ RowsInHand /\ [Next]_vars
        => [\A s \in Schedules : CountedOnce(s)]_vars
  BY CountedOnceStep
<1>2. QED
  BY InvCorrect, ExecCorrect, RowsInHandCorrect, <1>1, PTL
     DEF Spec, RepeatCountsSuccesses, CountedOnce

-----------------------------------------------------------------------------
(* The runs of a schedule refine its slot                                  *)

SlotMap == [s \in Schedules |-> SlotOf(s)]

LEMMA SlotValue ==
  ASSUME NEW s \in Schedules
  PROVE  /\ SlotOf(s) = "free"   <=> \A r \in Runs : ~(runs[r].sched = s /\ runs[r].status \in Active)
         /\ SlotOf(s) = "queued" <=> \E r \in Runs : runs[r].sched = s /\ runs[r].status = "queued"
         /\ SlotOf(s) \in {"free", "queued", "busy"}
BY DEF SlotOf, ActiveRuns, Active

\* A status change of one run finishes its schedule's slot or leaves it.
LEMMA SlotMoves ==
  ASSUME TypeOK, OneActiveRun, NEW r \in Runs, Moves(r)
  PROVE  Slots!Next \/ UNCHANGED SlotMap
<1>1. PICK s0 \in Schedules : s0 = runs[r].sched
  BY DEF TypeOK, RunRow
<1>2. ASSUME NEW s \in Schedules \ {s0} PROVE SlotOf(s)' = SlotOf(s)
  <2>1. \A q \in Runs : runs[q].sched = s => Same(q)
    BY <1>1, <1>2 DEF Moves
  <2>2. \A q \in Runs : runs'[q].sched = s => Same(q)
    BY <1>1, <1>2 DEF Moves
  <2>3. ActiveRuns(s)' = ActiveRuns(s)
    BY <2>1, <2>2 DEF ActiveRuns, Same
  <2>4. \A q \in ActiveRuns(s) : runs'[q].status = runs[q].status
    BY <2>1 DEF ActiveRuns, Same
  <2>5. QED
    BY <2>3, <2>4 DEF SlotOf
<1>3. CASE runs[r].status \in Active /\ runs'[r].status \notin Active
  <2>1. SlotOf(s0) = "busy"
    BY <1>1, <1>3, SlotValue DEF OneActiveRun, Moves, Active
  <2>2. ActiveRuns(s0)' = {}
    BY <1>1, <1>3 DEF OneActiveRun, Moves, Same, ActiveRuns
  <2>3. SlotOf(s0)' = "free"
    BY <2>2 DEF SlotOf
  <2>4. Slots!Finish(s0)
    BY <1>1, <1>2, <2>1, <2>3 DEF Slots!Finish
  <2>5. QED
    BY <1>1, <2>4 DEF Slots!Next
<1>4. CASE ~(runs[r].status \in Active /\ runs'[r].status \notin Active)
  <2>1. ActiveRuns(s0)' = ActiveRuns(s0)
    BY <1>1, <1>4 DEF Moves, Same, ActiveRuns
  <2>2. \A q \in Runs : runs'[q].status = "queued" <=> runs[q].status = "queued"
    BY DEF Moves, Same
  <2>3. SlotOf(s0)' = SlotOf(s0)
    BY <2>1, <2>2 DEF SlotOf, ActiveRuns
  <2>4. \A s \in Schedules : SlotOf(s)' = SlotOf(s)
    BY <1>2, <2>3
  <2>5. QED
    BY <2>4 DEF SlotMap
<1>5. QED
  BY <1>3, <1>4

\* A batch of claimed runs is a batch of claimed slots.
LEMMA SlotClaims ==
  ASSUME TypeOK, OneActiveRun, NEW W \in SUBSET Runs, Claims(W)
  PROVE  Slots!Next \/ UNCHANGED SlotMap
<1> DEFINE S == {s \in Schedules : \E r \in W : runs[r].sched = s}
<1>1. ASSUME NEW s \in S PROVE SlotOf(s) = "queued" /\ SlotOf(s)' = "busy"
  <2>1. PICK r \in W : runs[r].sched = s
    OBVIOUS
  <2>2. r \in Runs /\ runs[r].status = "queued"
    BY DEF Claims
  <2>3. ActiveRuns(s) = {r}
    BY <2>1, <2>2 DEF ActiveRuns, OneActiveRun, Active
  <2>4. ActiveRuns(s)' = {r} /\ runs'[r].status = "running"
    BY <2>1, <2>2, <2>3 DEF ActiveRuns, Claims, Same, Active
  <2>5. QED
    BY <2>2, <2>3, <2>4 DEF SlotOf
<1>2. ASSUME NEW s \in Schedules \ S PROVE SlotOf(s)' = SlotOf(s)
  <2>1. \A q \in Runs : runs[q].sched = s \/ runs'[q].sched = s => Same(q)
    BY <1>2 DEF Claims
  <2>2. ActiveRuns(s)' = ActiveRuns(s)
    BY <2>1 DEF ActiveRuns, Same
  <2>3. \A q \in ActiveRuns(s) : runs'[q].status = runs[q].status
    BY <2>1 DEF ActiveRuns, Same
  <2>4. QED
    BY <2>2, <2>3 DEF SlotOf
<1>3. Slots!Claim(S)
  <2> HIDE DEF S
  <2>1. \A s \in S : s \in Schedules
    BY DEF S
  <2>2. QED
    BY <1>1, <1>2, <2>1 DEF Slots!Claim
<1>4. QED
  BY <1>3 DEF Slots!Next

\* A new row takes the free slot of its schedule.
LEMMA SlotBorn ==
  ASSUME TypeOK, NEW r \in Runs, NEW s0 \in Schedules, Born(r, s0)
  PROVE  Slots!Next \/ UNCHANGED SlotMap
<1>1. ASSUME NEW s \in Schedules \ {s0} PROVE SlotOf(s)' = SlotOf(s)
  <2>1. ActiveRuns(s)' = ActiveRuns(s)
    BY <1>1 DEF ActiveRuns, Born, Same, Active
  <2>2. \A q \in ActiveRuns(s) : runs'[q].status = runs[q].status
    BY DEF ActiveRuns, Born, Same, Active
  <2>3. QED
    BY <2>1, <2>2 DEF SlotOf
<1>2. SlotOf(s0) = "free"
  BY DEF Born, HasActive, SlotOf
<1>3. ActiveRuns(s0)' = {r} /\ runs'[r].status = "queued"
  BY DEF Born, HasActive, ActiveRuns, Same, Active
<1>4. SlotOf(s0)' = "queued"
  BY <1>3 DEF SlotOf
<1>5. Slots!Enqueue(s0)
  BY <1>1, <1>2, <1>4 DEF Slots!Enqueue
<1>6. QED
  BY <1>5 DEF Slots!Next

LEMMA SlotStep == IInv /\ [Next]_vars => [Slots!Next]_SlotMap
<1> SUFFICES ASSUME IInv, [Next]_vars PROVE Slots!Next \/ UNCHANGED SlotMap
  OBVIOUS
<1>0. TypeOK /\ OneActiveRun
  BY DEF IInv, TypeInv
<1>1. RunsChange
  BY RunsStep DEF IInv
<1>2. CASE \A r \in Runs : Same(r)
  <2>1. \A s \in Schedules : ActiveRuns(s)' = ActiveRuns(s)
    BY <1>2 DEF ActiveRuns, Same
  <2>2. \A s \in Schedules : SlotOf(s)' = SlotOf(s)
    BY <1>2, <2>1 DEF SlotOf, ActiveRuns, Same
  <2>3. QED
    BY <2>2 DEF SlotMap
<1>3. QED
  BY <1>0, <1>1, <1>2, SlotMoves, SlotClaims, SlotBorn DEF RunsChange

\* Whatever the processes do, the background runs of every schedule behave like
\* one slot: queued work is claimed once, never dropped, requeued or overtaken.
THEOREM RunsRefineSlots == Spec => SlotSpec
<1>1. Init => Slots!Init
  BY DEF Init, Slots!Init, SlotOf, ActiveRuns, NoRow, Active
<1>2. IInv /\ [Next]_vars => [Slots!Next]_([s \in Schedules |-> SlotOf(s)])
  BY SlotStep DEF SlotMap
<1>3. QED
  BY InvCorrect, <1>1, <1>2, PTL DEF Spec, SlotSpec, Slots!Spec
=============================================================================
