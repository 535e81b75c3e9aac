--------------------------- MODULE ChatController ---------------------------
(***************************************************************************)
(* The controller of the chat in the terminal (useChatController) between  *)
(* the user, the runtime service and React: prompts that run or wait in    *)
(* the queue, the timer that sends the next one, the pending approval or   *)
(* clarification (a question here) and its continuation, the handle that   *)
(* an interrupt aborts, and the session that is shown.                     *)
(*                                                                         *)
(* Refs change at once.  What a handler finds in its closure (seen), and   *)
(* the ref that an effect copies (queuedPromptsRef), are those of the last *)
(* render that React committed: Commit comes when React sees fit.          *)
(***************************************************************************)
EXTENDS Naturals, Sequences, FiniteSets

CONSTANTS
  Prompts,        \* each is typed once, and names the task it becomes
  ChatSessions,   \* sessions of the user
  NoPrompt

ASSUME ScreenAssumption == NoPrompt \notin Prompts

VARIABLES
  \* the service
  taskStatus,              \* the status of the task of a prompt
  taskSession,       \* and its session
  \* refs of the controller
  submitInFlight, approvalInFlight, abortController, queuedPromptTimer,
  activeSession,     \* activeSessionIdRef
  queuedPromptsRef,
  \* its state
  busyCount, queuedPrompts,
  pendingQuestion,   \* the task of pendingApproval or pendingClarifyPrompt
  seen,              \* what was committed of busyCount and pendingQuestion
  \* what it awaits
  flights,           \* executePrompt
  reviews,           \* resolvePendingApproval, answerPendingClarifyPrompt
  restoring,         \* activateSessionById, the sessions it is to show
  \* history
  typed,             \* prompts that were accepted
  behindReview,      \* those queued while no prompt was in flight
  late               \* a handler went by what was no longer so

serviceVars == <<taskStatus, taskSession>>
queueVars   == <<queuedPrompts, queuedPromptsRef, queuedPromptTimer>>
tellVars    == <<typed, behindReview, late>>
ctrlVars    == <<serviceVars, queueVars, tellVars, submitInFlight, approvalInFlight,
                 abortController, activeSession, busyCount, pendingQuestion, seen,
                 flights, reviews, restoring>>

\* A run that is awaited: on, back with a result that was not yet taken, or
\* refused before it had a task.
Awaited == [of : Prompts, state : {"on", "back", "refused"}]

ChatTypeInv ==
  /\ taskStatus \in [Prompts -> {"none", "running", "waiting", "ended"}]
  /\ taskSession \in [Prompts -> ChatSessions]
  /\ {submitInFlight, approvalInFlight, queuedPromptTimer, late} \subseteq BOOLEAN
  /\ abortController \in Prompts \cup {NoPrompt}
  /\ activeSession \in ChatSessions
  /\ queuedPrompts \in Seq(Prompts) /\ queuedPromptsRef \in Seq(Prompts)
  /\ pendingQuestion \in Prompts \cup {NoPrompt}
  /\ seen \in [busy : Nat, question : Prompts \cup {NoPrompt}]
  /\ flights \subseteq Awaited /\ reviews \subseteq Awaited
  /\ busyCount = Cardinality(flights) + Cardinality(reviews)
  /\ restoring \subseteq ChatSessions
  /\ typed \subseteq Prompts /\ behindReview \subseteq typed

ControllerInit ==
  /\ taskStatus = [p \in Prompts |-> "none"]
  /\ activeSession \in ChatSessions
  /\ taskSession = [p \in Prompts |-> activeSession]
  /\ submitInFlight = FALSE /\ approvalInFlight = FALSE
  /\ abortController = NoPrompt /\ queuedPromptTimer = FALSE
  /\ queuedPrompts = <<>> /\ queuedPromptsRef = <<>>
  /\ busyCount = 0 /\ pendingQuestion = NoPrompt
  /\ seen = [busy |-> 0, question |-> NoPrompt]
  /\ flights = {} /\ reviews = {} /\ restoring = {}
  /\ typed = {} /\ behindReview = {} /\ late = FALSE

-----------------------------------------------------------------------------
\* The tasks of a session that are not over: one at most, by its lock.
Blocking(s) ==
  {p \in Prompts : taskSession[p] = s /\ taskStatus[p] \in {"running", "waiting"}}

\* What refresh finds pending in the session that is shown.
Asked(statuses, s) ==
  LET parked == {p \in Prompts : taskSession[p] = s /\ statuses[p] = "waiting"}
  IN  IF parked = {} THEN NoPrompt ELSE CHOOSE p \in parked : TRUE

\* refresh, unless an answer is under way.
Refresh ==
  pendingQuestion' =
    IF approvalInFlight THEN pendingQuestion ELSE Asked(taskStatus, activeSession)

\* The code goes by a render that is out of date.
OutOfDate ==
  \/ seen # [busy |-> busyCount, question |-> pendingQuestion]
  \/ queuedPromptsRef # queuedPrompts

Commit ==
  /\ OutOfDate
  /\ seen' = [busy |-> busyCount, question |-> pendingQuestion]
  /\ queuedPromptsRef' = queuedPrompts
  /\ UNCHANGED <<serviceVars, tellVars, submitInFlight, approvalInFlight, abortController,
                 queuedPromptTimer, activeSession, busyCount, queuedPrompts,
                 pendingQuestion, flights, reviews, restoring>>

-----------------------------------------------------------------------------
(* Prompts                                                                 *)

\* executePrompt up to its await.  The service refuses a busy session, and
\* may refuse for other reasons before there is a task.
Execute(p) ==
  /\ submitInFlight' = TRUE
  /\ busyCount' = busyCount + 1
  /\ abortController' = p
  /\ \/ /\ flights' = flights \cup {[of |-> p, state |-> "refused"]}
        /\ UNCHANGED serviceVars
     \/ /\ Blocking(activeSession) = {}
        /\ flights' = flights \cup {[of |-> p, state |-> "on"]}
        /\ taskStatus' = [taskStatus EXCEPT ![p] = "running"]
        /\ taskSession' = [taskSession EXCEPT ![p] = activeSession]

InFlight == submitInFlight \/ seen.busy > 0

\* submitPrompt while something runs: enqueuePrompt.
Enqueue(p) ==
  /\ p \notin typed
  /\ InFlight
  /\ queuedPrompts' = Append(queuedPrompts, p)
  /\ typed' = typed \cup {p}
  /\ behindReview' = IF submitInFlight THEN behindReview ELSE behindReview \cup {p}
  /\ late' = (late \/ OutOfDate)
  /\ UNCHANGED <<serviceVars, submitInFlight, approvalInFlight, abortController,
                 queuedPromptTimer, activeSession, queuedPromptsRef, busyCount,
                 pendingQuestion, seen, flights, reviews, restoring>>

\* submitPrompt otherwise; a question or a task that blocks refuses the prompt.
SubmitPrompt(p) ==
  /\ p \notin typed
  /\ ~InFlight
  /\ seen.question = NoPrompt
  /\ Blocking(activeSession) = {}
  /\ Execute(p)
  /\ typed' = typed \cup {p}
  /\ UNCHANGED <<queueVars, behindReview, late, approvalInFlight, activeSession,
                 pendingQuestion, seen, reviews, restoring>>

\* Seeded fault: a prompt that was refused does not set the timer.
TimerSetOnSuccess(f) == f.state # "refused"

\* The finally block sets the timer, however the run ended.
TimerSet(f) == f \in flights

\* The rest of executePrompt once the run is back: the session of the task is
\* shown, and the finally block runs.
Return(f) ==
  /\ f \in flights /\ f.state # "on"
  /\ flights' = flights \ {f}
  /\ activeSession' = IF f.state = "refused" THEN activeSession ELSE taskSession[f.of]
  /\ submitInFlight' = FALSE
  /\ abortController' = NoPrompt
  /\ busyCount' = busyCount - 1
  /\ queuedPromptTimer' = (queuedPromptTimer \/ TimerSet(f))
  /\ UNCHANGED <<serviceVars, tellVars, approvalInFlight, queuedPrompts, queuedPromptsRef,
                 pendingQuestion, seen, reviews, restoring>>

\* The timer: refresh, then shiftQueuedPrompt and executePrompt.
SendQueued ==
  /\ queuedPromptTimer
  /\ queuedPromptTimer' = FALSE
  /\ Refresh
  /\ late' = (late \/ OutOfDate)
  /\ IF submitInFlight \/ queuedPromptsRef = <<>>
       THEN UNCHANGED <<serviceVars, queuedPrompts, submitInFlight, busyCount,
                        abortController, flights>>
       ELSE /\ queuedPrompts' = IF queuedPrompts = <<>> THEN <<>> ELSE Tail(queuedPrompts)
            /\ Execute(Head(queuedPromptsRef))
  /\ UNCHANGED <<queuedPromptsRef, typed, behindReview, approvalInFlight, activeSession,
                 seen, reviews, restoring>>

-----------------------------------------------------------------------------
(* Questions                                                               *)

\* The interval that polls, and the refresh of a prompt that was refused.
Poll ==
  /\ Refresh
  /\ pendingQuestion' # pendingQuestion
  /\ UNCHANGED <<serviceVars, queueVars, tellVars, submitInFlight, approvalInFlight,
                 abortController, activeSession, busyCount, seen, flights, reviews,
                 restoring>>

\* resolvePendingApproval or answerPendingClarifyPrompt up to its await: the
\* task goes on, unless its question was settled or the service throws.
AnswerQuestion(q) ==
  /\ seen.question = q /\ q # NoPrompt
  /\ ~approvalInFlight
  /\ approvalInFlight' = TRUE
  /\ busyCount' = busyCount + 1
  /\ abortController' = q
  /\ pendingQuestion' = NoPrompt
  /\ \/ /\ reviews' = reviews \cup {[of |-> q, state |-> "refused"]}
        /\ UNCHANGED taskStatus
     \/ /\ taskStatus[q] = "waiting"
        /\ reviews' = reviews \cup {[of |-> q, state |-> "on"]}
        /\ taskStatus' = [taskStatus EXCEPT ![q] = "running"]
  /\ UNCHANGED <<taskSession, queueVars, tellVars, submitInFlight, activeSession, seen,
                 flights, restoring>>

\* Its finally block.
ReviewEnds(r) ==
  /\ r \in reviews /\ r.state # "on"
  /\ reviews' = reviews \ {r}
  /\ approvalInFlight' = FALSE
  /\ abortController' = NoPrompt
  /\ busyCount' = busyCount - 1
  /\ pendingQuestion' = Asked(taskStatus, activeSession)
  /\ UNCHANGED <<serviceVars, queueVars, tellVars, submitInFlight, activeSession, seen,
                 flights, restoring>>

\* cancelPendingClarifyPrompt, which awaits nothing.
CancelQuestion(q) ==
  /\ seen.question = q /\ q # NoPrompt
  /\ ~approvalInFlight
  /\ taskStatus' = [taskStatus EXCEPT ![q] = IF @ = "waiting" THEN "ended" ELSE @]
  /\ pendingQuestion' = Asked(taskStatus', activeSession)
  /\ UNCHANGED <<taskSession, queueVars, tellVars, submitInFlight, approvalInFlight,
                 abortController, activeSession, busyCount, seen, flights, reviews,
                 restoring>>

-----------------------------------------------------------------------------
(* The service                                                             *)

Stopped(runs, r) == (runs \ {r}) \cup {[r EXCEPT !.state = "back"]}

\* A run ends or parks its task.
RunStops(r) ==
  /\ r.state = "on"
  /\ \E status \in {"waiting", "ended"} : taskStatus' = [taskStatus EXCEPT ![r.of] = status]
  /\ \/ r \in flights /\ flights' = Stopped(flights, r) /\ UNCHANGED reviews
     \/ r \in reviews /\ reviews' = Stopped(reviews, r) /\ UNCHANGED flights
  /\ UNCHANGED <<taskSession, queueVars, tellVars, submitInFlight, approvalInFlight,
                 abortController, activeSession, busyCount, pendingQuestion, seen,
                 restoring>>

\* requestInterrupt: the run of the handle ends.
Interrupt ==
  /\ \E r \in flights \cup reviews : r.of = abortController /\ RunStops(r)
  /\ taskStatus'[abortController] = "ended"

\* A question is settled through another front end.
SettledElsewhere(p) ==
  /\ taskStatus[p] = "waiting"
  /\ taskStatus' = [taskStatus EXCEPT ![p] = "ended"]
  /\ UNCHANGED <<taskSession, queueVars, tellVars, submitInFlight, approvalInFlight,
                 abortController, activeSession, busyCount, pendingQuestion, seen,
                 flights, reviews, restoring>>

-----------------------------------------------------------------------------
(* Sessions                                                                *)

Unoccupied == seen.busy = 0 /\ seen.question = NoPrompt

\* Another session is shown: its queue is empty.
Show(s) ==
  /\ activeSession' = s
  /\ queuedPrompts' = <<>>
  /\ pendingQuestion' = NoPrompt
  /\ UNCHANGED <<serviceVars, tellVars, submitInFlight, approvalInFlight, abortController,
                 queuedPromptTimer, queuedPromptsRef, busyCount, seen, flights, reviews>>

\* clearAndStartNewSession.
NewSession(s) ==
  /\ Unoccupied
  /\ s # activeSession /\ \A p \in Prompts : taskSession[p] # s
  /\ Show(s)
  /\ UNCHANGED restoring

\* activateSessionById up to the await for the model of the session.
Restore(s) ==
  /\ Unoccupied
  /\ s # activeSession /\ restoring = {}
  /\ restoring' = {s}
  /\ UNCHANGED <<serviceVars, queueVars, tellVars, submitInFlight, approvalInFlight,
                 abortController, activeSession, busyCount, pendingQuestion, seen,
                 flights, reviews>>

\* The rest of it: activateSession of the closure, which still sees it idle.
Restored(s) ==
  /\ s \in restoring
  /\ restoring' = restoring \ {s}
  /\ Show(s)

-----------------------------------------------------------------------------
ControllerNext ==
  \/ Commit \/ SendQueued \/ Poll \/ Interrupt
  \/ \E p \in Prompts :
       \/ Enqueue(p) \/ SubmitPrompt(p)
       \/ AnswerQuestion(p) \/ CancelQuestion(p) \/ SettledElsewhere(p)
  \/ \E r \in flights : Return(r)
  \/ \E r \in reviews : ReviewEnds(r)
  \/ \E r \in flights \cup reviews : RunStops(r)
  \/ \E s \in ChatSessions : NewSession(s) \/ Restore(s) \/ Restored(s)

\* What goes on by itself: runs end or park (LoopEnds of AgentLoop), promises
\* are taken up, the timer fires.
ControllerStep ==
  \/ SendQueued
  \/ \E r \in flights : Return(r)
  \/ \E r \in flights : RunStops(r)

ControllerSpec ==
  ControllerInit /\ [][ControllerNext]_ctrlVars /\ WF_ctrlVars(ControllerStep)

-----------------------------------------------------------------------------
Waits(p) == \E i \in 1..Len(queuedPrompts) : queuedPrompts[i] = p

\* A prompt that was queued behind another one is sent in the end, whether the
\* runs before it succeed, fail, park or are refused, unless the queue is emptied
\* with its session or the timer went by a render that was out of date.  (What is
\* queued behind an answer is not sent by its end: only executePrompt has the timer.)
QueuedIsSent ==
  \A p \in Prompts : Waits(p) /\ p \notin behindReview ~> ~Waits(p) \/ late
=============================================================================
