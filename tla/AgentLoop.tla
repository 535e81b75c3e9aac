------------------------------ MODULE AgentLoop ------------------------------
(***************************************************************************)
(* The loop that carries one task from its first request to its end:       *)
(* ExecutionLoopRunner.executeLoop with CompletionController, the final    *)
(* summary without tools, the parking of a task that needs a decision and  *)
(* the two ways it is resumed from its checkpoint.                         *)
(*                                                                         *)
(* An answer of the model and the result of a tool are what the loop tells *)
(* apart.  The tools of a turn run one after another here; how they run    *)
(* together, and who decides an approval, is the subject of ToolTurn.      *)
(***************************************************************************)
EXTENDS Naturals, Sequences

CONSTANTS
  MaxIterations,    \* maxIterations of the task
  MaxCalls,         \* bound: the tool calls of one answer
  MaxPauses         \* bound: how often the task is parked

ASSUME LoopAssumption == MaxIterations \in Nat /\ MaxCalls \in Nat /\ MaxPauses \in Nat

VARIABLES
  \* kept in the database
  status, iter,     \* the row of the task: status and currentIteration
  checkpoint,       \* [kept, pending, wrote]: is there one, its calls, has its history a write
  recoveries,       \* how many task_recovery_started events the trace holds
  output,           \* final_output: "none", "plain", or "marked" as unverified
  \* kept by the process that runs the loop
  pc, pending, decided,
  attempt, compacted, recovered,            \* of a request: providerAttempt, reactiveCompactUsed, taskRecoveryUsed
  wrote, verified, guarded,                 \* writeToolSucceeded, completionVerification...
  intent, reads,                            \* completionIntentSeenAt, postCompletionVerificationReads
  inHistory,                                \* the messages hold the result of a write
  aborted,                                  \* the signal of the managed abort controller
  \* history
  asked, pauses,    \* requests made, times parked
  dirty,            \* a write succeeded after the last successful verification
  forgot            \* the task was resumed without its last write in the messages

saved   == <<status, iter, checkpoint, recoveries, output>>
request == <<attempt, compacted, recovered>>
finals  == <<wrote, verified, guarded, intent, reads>>
history == <<asked, pauses, dirty, forgot>>
loopVars == <<saved, pc, pending, decided, request, finals, inHistory, aborted, history>>

Kinds    == {"read", "write", "check", "other"}
Terminal == {"succeeded", "failed", "cancelled"}
Running  == {"running", "waiting_tool"}
NoCheckpoint == [kept |-> FALSE, pending |-> <<>>, wrote |-> FALSE]
Turns    == UNION {[1..n -> Kinds] : n \in 1..MaxCalls}

LoopInit ==
  /\ status = "pending" /\ iter = 0 /\ checkpoint = NoCheckpoint /\ recoveries = 0 /\ output = "none"
  /\ pc = "new" /\ pending = <<>> /\ decided = "no"
  /\ attempt = 0 /\ compacted = FALSE /\ recovered = FALSE
  /\ wrote = FALSE /\ verified = FALSE /\ guarded = FALSE /\ intent = FALSE /\ reads = 0
  /\ inHistory = FALSE /\ aborted = FALSE
  /\ asked = 0 /\ pauses = 0 /\ dirty = FALSE /\ forgot = FALSE

-----------------------------------------------------------------------------
(* The ends of a task.                                                      *)

\* Seeded faults: the checkpoint stays, the row of the task is not written.
EndWithCheckpoint(final, text) ==
  /\ status' = final /\ output' = text
  /\ pc' = "rest" /\ UNCHANGED <<iter, recoveries, checkpoint>>
EndWithoutRow(final, text) ==
  /\ output' = text /\ checkpoint' = NoCheckpoint
  /\ pc' = "rest" /\ UNCHANGED <<iter, recoveries, status>>

\* completeTaskSuccess and finalizeTaskFailure both delete the checkpoint.
End(final, text) ==
  /\ status' = final /\ output' = text /\ checkpoint' = NoCheckpoint
  /\ pc' = "rest" /\ UNCHANGED <<iter, recoveries>>

\* An interrupt cancels the task, a timeout and every other error fail it.
Fail == \/ aborted /\ End("cancelled", "none")
        \/ End("failed", "none")

\* evaluateFinalVerification for a text that does or does not say what is unverified.
Verification(says) == IF wrote /\ ~verified /\ ~says THEN "missing" ELSE
                 IF wrote /\ ~verified THEN "said" ELSE "verified"
Finish(says) == End("succeeded", IF Verification(says) = "verified" /\ ~says THEN "plain" ELSE "marked")

-----------------------------------------------------------------------------
(* The task begins.                                                         *)

\* run: the row is there, the task is marked running, then planned.
TaskStarts ==
  /\ pc = "new" /\ pc' = "plan" /\ status' = "running"
  /\ UNCHANGED <<iter, checkpoint, recoveries, output, pending, decided, request, finals, inHistory,
                 aborted, history>>

Planned ==
  /\ pc = "plan"
  /\ \/ pc' = "top" /\ UNCHANGED saved
     \/ Fail
  /\ UNCHANGED <<pending, decided, request, finals, inHistory, aborted, history>>

-----------------------------------------------------------------------------
(* An iteration: its request ...                                            *)

\* Seeded fault: an abort is heard between iterations only.
StopAtTop ==
  /\ aborted /\ Fail /\ pc = "top" /\ iter < MaxIterations
  /\ UNCHANGED <<pending, decided, request, finals, inHistory, aborted, history>>

\* throwIfAborted, in an iteration that begins and before each tool call.
Stop ==
  /\ aborted /\ Fail
  /\ \/ pc = "top" /\ iter < MaxIterations
     \/ pc = "tools" /\ pending # <<>>
  /\ UNCHANGED <<pending, decided, request, finals, inHistory, aborted, history>>

NextIteration ==
  /\ pc = "top" /\ ~aborted /\ iter < MaxIterations
  /\ iter' = iter + 1 /\ pc' = "ask" /\ attempt' = 0 /\ compacted' = FALSE /\ asked' = asked + 1
  /\ UNCHANGED <<status, checkpoint, recoveries, output, pending, decided, recovered, finals,
                 inHistory, aborted, pauses, dirty, forgot>>

\* The second provider attempt of an iteration, if the first is the one that failed.
AskAgain ==
  IF attempt = 0
    THEN /\ attempt' = 1 /\ asked' = asked + 1
         /\ UNCHANGED <<status, output, iter, pc>>
    ELSE /\ pc' = "rest" /\ status' = "failed"       \* no response: provider_error
         /\ output' = "none" /\ UNCHANGED <<iter, attempt, asked>>

\* A context overflow drops the oldest messages, if any can be dropped, once.
Overflow ==
  /\ pc = "ask" /\ ~compacted /\ compacted' = TRUE
  /\ AskAgain
  /\ checkpoint' = IF attempt = 0 THEN checkpoint ELSE NoCheckpoint
  /\ inHistory' \in {inHistory, FALSE}
  /\ UNCHANGED <<recoveries, pending, decided, recovered, finals, aborted, pauses, dirty, forgot>>

\* A timeout that the provider reports is recovered from once in the life of a task.
Recover ==
  /\ pc = "ask" /\ ~recovered /\ ~aborted
  /\ recovered' = TRUE /\ recoveries' = recoveries + 1
  /\ AskAgain
  /\ checkpoint' = IF attempt = 0 THEN [kept |-> TRUE, pending |-> <<>>, wrote |-> inHistory]
                   ELSE NoCheckpoint
  /\ UNCHANGED <<pending, decided, compacted, finals, inHistory, aborted, pauses, dirty, forgot>>

\* Every other failure of a request, and an answer that ends the task for its budget.
AskFails ==
  /\ pc = "ask" /\ Fail
  /\ UNCHANGED <<pending, decided, request, finals, inHistory, aborted, history>>

\* The model asks to be called later, or gives a text that is good enough to be
\* the answer but comes before the workspace was verified, the first time.
Continue ==
  /\ pc = "ask" /\ pc' = "top"
  /\ \/ UNCHANGED guarded
     \/ Verification(FALSE) = "missing" /\ ~guarded /\ guarded' = TRUE
  /\ UNCHANGED <<saved, pending, decided, request, wrote, verified, intent, reads, inHistory,
                 aborted, history>>

\* The model answers with an acceptable final text.
Final(says) ==
  /\ pc = "ask" /\ (Verification(says) = "missing" => guarded)
  /\ Finish(says)
  /\ UNCHANGED <<pending, decided, request, finals, inHistory, aborted, history>>

\* An empty or unpolished final text is asked for again without tools.
Unpolished ==
  /\ pc = "ask" /\ pc' = "summary" /\ attempt' = 0 /\ asked' = asked + 1
  /\ UNCHANGED <<saved, pending, decided, compacted, recovered, finals, inHistory, aborted,
                 pauses, dirty, forgot>>

\* evaluatePostCompletionToolCalls: reads after the work was declared complete.
Lingers(calls, done) == wrote /\ (\A i \in DOMAIN calls : calls[i] = "read") /\ (intent \/ done)

AnswerCalls(calls, done) ==
  /\ pc = "ask"
  /\ intent' = (intent \/ Lingers(calls, done))
  /\ IF Lingers(calls, done) /\ reads >= 1
       THEN /\ pc' = "summary" /\ attempt' = 0 /\ asked' = asked + 1
            /\ UNCHANGED <<status, pending, decided, reads>>
       ELSE /\ pc' = "tools" /\ status' = "waiting_tool" /\ pending' = calls /\ decided' = "no"
            /\ reads' = IF Lingers(calls, done) THEN reads + 1 ELSE reads
            /\ UNCHANGED <<attempt, asked>>
  /\ UNCHANGED <<iter, checkpoint, recoveries, output, compacted, recovered, wrote, verified,
                 guarded, inHistory, aborted, pauses, dirty, forgot>>

-----------------------------------------------------------------------------
(* ... its tools ...                                                        *)

\* Seeded fault: a check holds for what is written later.
VerifiedForever(writes, checks) == verified \/ checks

\* A write undoes the verification of what was written before.
VerifiedAfter(writes, checks) == (verified /\ ~writes) \/ checks

\* applyCompletedToolCallOutcome; a denied call is a failed one.
ToolResult(ok) ==
  LET writes == ok /\ Head(pending) = "write"
      checks == ok /\ Head(pending) = "check"
  IN /\ pc = "tools" /\ ~aborted /\ pending # <<>> /\ (decided = "denied" => ~ok)
     /\ pending' = Tail(pending) /\ decided' = "no"
     /\ wrote' = (wrote \/ writes) /\ inHistory' = (inHistory \/ writes)
     /\ verified' = VerifiedAfter(writes, checks)
     /\ dirty' = ((dirty \/ writes) /\ ~checks)
     /\ UNCHANGED <<saved, pc, request, guarded, intent, reads, aborted, asked, pauses, forgot>>

\* tryPauseToolExecution: the call needs an approval or a clarification.
Pause ==
  /\ pc = "tools" /\ ~aborted /\ pending # <<>> /\ decided = "no" /\ pauses < MaxPauses
  /\ status' = "waiting" /\ pc' = "rest" /\ pauses' = pauses + 1
  /\ checkpoint' = [kept |-> TRUE, pending |-> pending, wrote |-> inHistory]
  /\ UNCHANGED <<iter, recoveries, output, pending, decided, request, finals, inHistory, aborted,
                 asked, dirty, forgot>>

\* The end of the turn, with or without a compaction of the messages.
EndTurn ==
  /\ pc = "tools" /\ pending = <<>> /\ pc' = "top"
  /\ status' = "running" /\ checkpoint' = NoCheckpoint
  /\ inHistory' \in {inHistory, FALSE}
  /\ UNCHANGED <<iter, recoveries, output, pending, decided, request, finals, aborted, history>>

-----------------------------------------------------------------------------
(* ... and what comes after the last one.                                   *)

\* A task that ran out of iterations has succeeded if its last check did.
Exhausted ==
  /\ pc = "top" /\ iter >= MaxIterations
  /\ IF verified THEN End("succeeded", "plain") /\ UNCHANGED <<attempt, asked>>
     ELSE /\ pc' = "summary" /\ attempt' = 0 /\ asked' = asked + 1 /\ UNCHANGED saved
  /\ UNCHANGED <<pending, decided, compacted, recovered, finals, inHistory, aborted,
                 pauses, dirty, forgot>>

\* requestFinalSummaryWithoutTools: two attempts at an acceptable text.
Summary(says) ==
  /\ pc = "summary" /\ Finish(says)
  /\ UNCHANGED <<pending, decided, request, finals, inHistory, aborted, history>>

SummaryRejected ==
  /\ pc = "summary"
  /\ IF attempt = 0 THEN attempt' = 1 /\ asked' = asked + 1 /\ UNCHANGED <<saved, pc>>
     ELSE Fail /\ UNCHANGED <<attempt, asked>>
  /\ UNCHANGED <<pending, decided, compacted, recovered, finals, inHistory, aborted,
                 pauses, dirty, forgot>>

SummaryFails ==
  /\ pc = "summary" /\ Fail
  /\ UNCHANGED <<pending, decided, request, finals, inHistory, aborted, history>>

-----------------------------------------------------------------------------
(* The user, the clock, and the decision a parked task waits for.           *)

Abort ==
  /\ pc \notin {"new", "rest"} /\ ~aborted /\ aborted' = TRUE
  /\ UNCHANGED <<saved, pc, pending, decided, request, finals, inHistory, history>>

\* Seeded fault: a resumed task may recover again.
MayRecoverAgain == FALSE

\* hasRecoveryBeenUsed
HasRecoveryBeenUsed == recoveries > 0

\* resumeTask, and resumeTaskAfterApprovalFailure with the denied call alone:
\* the loop starts from the checkpoint, in this process or in a later one.
Resume(decision) ==
  /\ status = "waiting" /\ checkpoint.kept
  /\ status' = "running" /\ pc' = "tools" /\ decided' = decision
  /\ pending' = IF decision = "denied" THEN <<Head(checkpoint.pending)>> ELSE checkpoint.pending
  /\ attempt' = 0 /\ compacted' = FALSE /\ recovered' = HasRecoveryBeenUsed
  /\ wrote' = checkpoint.wrote /\ inHistory' = checkpoint.wrote
  /\ verified' = FALSE /\ guarded' = FALSE /\ intent' = FALSE /\ reads' = 0
  /\ aborted' = FALSE
  /\ forgot' = (forgot \/ (dirty /\ ~checkpoint.wrote))
  /\ UNCHANGED <<iter, checkpoint, recoveries, output, asked, pauses, dirty>>

\* failWaitingApprovalTask, failWaitingClarificationTask
FailWaiting ==
  /\ status = "waiting" /\ End("failed", "none")
  /\ UNCHANGED <<pending, decided, request, finals, inHistory, aborted, history>>

-----------------------------------------------------------------------------
LoopStep ==
  \/ Planned \/ Stop \/ NextIteration \/ Overflow \/ Recover \/ AskFails \/ Continue \/ Unpolished
  \/ \E says \in BOOLEAN : Final(says) \/ Summary(says)
  \/ \E calls \in Turns, done \in BOOLEAN : AnswerCalls(calls, done)
  \/ \E ok \in BOOLEAN : ToolResult(ok)
  \/ Pause \/ EndTurn \/ Exhausted \/ SummaryRejected \/ SummaryFails

Decision == FailWaiting \/ \E decision \in {"granted", "denied"} : Resume(decision)

LoopNext == TaskStarts \/ LoopStep \/ Abort \/ Decision

\* Every request is answered or aborted and every tool ends: both are under the
\* timeout of the managed abort controller.  Nobody owes a parked task a decision.
LoopSpec == LoopInit /\ [][LoopNext]_loopVars /\ WF_loopVars(LoopStep)

-----------------------------------------------------------------------------
(* Properties                                                               *)

\* Every variable has its type, and the loop runs exactly while the row says so.
FlagsOK ==
  /\ checkpoint.kept \in BOOLEAN /\ checkpoint.wrote \in BOOLEAN
  /\ compacted \in BOOLEAN /\ recovered \in BOOLEAN /\ wrote \in BOOLEAN /\ verified \in BOOLEAN
  /\ guarded \in BOOLEAN /\ intent \in BOOLEAN /\ inHistory \in BOOLEAN /\ aborted \in BOOLEAN
  /\ dirty \in BOOLEAN /\ forgot \in BOOLEAN

CountsOK ==
  /\ iter \in 0..MaxIterations /\ recoveries \in Nat /\ attempt \in {0, 1} /\ reads \in {0, 1}
  /\ asked \in Nat /\ pauses \in 0..MaxPauses

StatesOK ==
  /\ status \in Terminal \cup Running \cup {"pending", "waiting"}
  /\ output \in {"none", "plain", "marked"} /\ decided \in {"no", "granted", "denied"}
  /\ pc \in {"new", "plan", "top", "ask", "tools", "summary", "rest"}
  /\ pc \in {"new", "rest"} <=> status \notin Running

LoopTypeOK == FlagsOK /\ CountsOK /\ StatesOK

\* A task that changed the workspace after its last successful verification does
\* not succeed with a text that hides it, on any way out of the loop: a final
\* text, a summary without tools, the iteration limit.  evaluateFinalVerification
\* misses it only if the task was resumed after its messages had lost the write.
UnverifiedIsMarked ==
  status = "succeeded" /\ dirty /\ ~forgot => output = "marked"

\* A task that has ended cannot be resumed, and one that is parked can be, with
\* the call that parked it first, whatever was saved and deleted before.
CheckpointFitsStatus ==
  /\ status \in Terminal => ~checkpoint.kept
  /\ status = "waiting" => checkpoint.kept /\ checkpoint.pending # <<>>

\* However often a task is parked and resumed, it asks the model at most twice
\* in each of its iterations and twice for the summary, and recovers from one
\* timeout: a resumed task goes on in the iteration that its row holds, and reads
\* taskRecoveryUsed from its trace.
RequestsBounded == asked <= 2 * MaxIterations + 2 /\ recoveries <= 1

\* The loop of a task that was started ends: the task ends or is parked.
LoopEnds == (pc # "new") ~> (pc = "rest")
=============================================================================
