------------------------------- MODULE ToolTurn -------------------------------
(***************************************************************************)
(* One tool turn of a task: the model answers with a list of tool calls,   *)
(* the loop clears them with the policy, runs them one by one or in        *)
(* parallel batches, parks the task when a call needs a reviewer, and goes *)
(* on from a checkpoint once the reviewer has decided.                     *)
(*                                                                         *)
(* Modelled: ExecutionLoopRunner.executeLoop from the model's answer to    *)
(* the end of the iteration, ToolBatchExecutor, ToolOrchestrator.execute,  *)
(* resumeTask and resumeTaskAfterApprovalFailure of ExecutionKernel, the   *)
(* two resolution facades with their services, reconcileExpiredApprovals,  *)
(* and the rows they share: tasks, tool_calls, approvals, clarify_prompts  *)
(* and execution_checkpoints.                                              *)
(*                                                                         *)
(* A tool call is its position in the turn; of its tool only the kind      *)
(* counts.  Duplicate reads answered from the loop's cache are left out:   *)
(* they touch none of these rows.                                          *)
(***************************************************************************)
EXTENDS Integers, Sequences

CONSTANTS
  MaxCalls,       \* bound on the length of a turn
  Kinds,          \* kinds of tools the model may call
  NoCheckpoint,   \* "no row in execution_checkpoints"
  Env             \* what may happen around the loop in an instance

AllKinds == {"read", "fetch", "write", "shell", "ask"}
Happenings == {"fault", "interrupt", "expire", "recover", "again", "remote", "crash"}

ASSUME CallsAssumption == MaxCalls \in Nat \ {0}
ASSUME KindAssumption  == Kinds \subseteq AllKinds
ASSUME EnvAssumption   == Env \subseteq Happenings

Calls == 1 .. MaxCalls

\* isParallelSafeTool: tools without side effects run in parallel batches.
Safe(k) == k \in {"read", "fetch"}

\* Kinds the policy lets through only with an approval.
Gated(k) == k \in {"fetch", "shell"}

VARIABLES
  status,         \* status of the task
  turn,           \* kinds of the calls the model asked for, << >> before
  row,            \* table tool_calls
  approval,       \* table approvals
  prompt,         \* table clarify_prompts
  ruled,          \* kinds that an allow of scope session or always covers
  checkpoint,     \* table execution_checkpoints
  pc,             \* where the loop is, "off" when no loop works on the task
  pending,        \* pendingToolCalls of the loop
  pos,            \* toolCallIndex
  cleared,        \* calls the loop is waiting for, in order
  results,        \* calls whose tool message is in `messages'
  inflight,       \* executions that have not reached the tool yet
  executing,      \* executions inside the tool
  execs,          \* how often the tool of a call was run (history)
  parking,        \* checkpoints of loops that have parked the task but not saved
  verdicts,       \* decisions stored whose continuation has not run yet
  recovered       \* taskRecoveryUsed

loop  == <<pc, pending, pos, cleared, results>>
work  == <<inflight, executing, execs>>
table == <<row, approval, prompt, ruled>>
vars  == <<status, turn, table, checkpoint, loop, work, parking, verdicts, recovered>>

-----------------------------------------------------------------------------
(* Rows                                                                    *)

TaskStatus == {"running", "waiting_tool", "waiting_approval", "waiting_clarification",
               "succeeded", "failed", "cancelled"}
Waiting    == {"waiting_approval", "waiting_clarification"}
Ended      == {"succeeded", "failed", "cancelled"}

CallStatus == {"requested", "awaiting_approval", "approved", "started",
               "denied", "timed_out", "finished", "failed"}
CallEnded  == {"denied", "timed_out", "finished", "failed"}

Approval == {"none", "pending", "approved", "denied", "timed_out"}
Prompt   == {"none", "pending", "answered", "cancelled", "timed_out"}

Checkpoint == [pending : Seq(Calls), results : Seq(Calls)]

ASSUME CheckpointAssumption == NoCheckpoint \notin Checkpoint

\* TOOL_CALL_STATUS_TRANSITIONS
CallTransitions ==
  [s \in CallStatus |->
     CASE s = "requested"         -> {"awaiting_approval", "started", "failed"}
       [] s = "awaiting_approval" -> {"approved", "denied", "timed_out"}
       [] s = "approved"          -> {"started", "denied", "timed_out"}
       [] s = "started"           -> {"finished", "failed", "timed_out"}
       [] s \in CallEnded         -> {}]

\* The check of ToolCallRepository.update: it throws when this is FALSE.
CanMoveCall(from, to) == from = to \/ to \in CallTransitions[from]

-----------------------------------------------------------------------------
(* ToolOrchestrator.execute up to the tool                                 *)

\* ensureToolCallRecord
Entered(i) == IF row[i] = "none" THEN "requested" ELSE row[i]

\* What execute comes back with, and what it has written by then.
Outcome(verdict, call, a, p) == [verdict |-> verdict, row |-> call, approval |-> a, prompt |-> p]

Throws(i) == Outcome("throw", Entered(i), approval[i], prompt[i])

\* A step to `to', or an exception where Transitions forbids it.
Reaching(i, verdict, to, a, p) ==
  IF \/ CanMoveCall(Entered(i), to)
     \/ Entered(i) = "requested" /\ to = "approved"   \* by way of awaiting_approval
     \/ Entered(i) = "requested" /\ turn[i] = "ask"   \* by way of started
  THEN Outcome(verdict, to, a, p)
  ELSE Outcome("throw", Entered(i), a, p)

\* Pending records whose time is over are expired by whoever reads them.
Read(record) ==
  CASE record = "none"    -> {"pending"}
    [] record = "pending" -> IF "expire" \in Env THEN {"pending", "timed_out"} ELSE {"pending"}
    [] OTHER              -> {record}

\* The approval gate: ensureApprovalRequest and what follows.
AtApproval(i) ==
  LET parked == IF Entered(i) = "approved" THEN "approved" ELSE "awaiting_approval"
      Gate(a) == CASE a = "pending"                  -> Reaching(i, "park", parked, a, prompt[i])
                   [] a = "approved"                 -> Reaching(i, "clear", "approved", a, prompt[i])
                   [] a \in {"denied", "timed_out"} -> Reaching(i, "done", a, a, prompt[i])
  IN  {Gate(a) : a \in Read(approval[i])}

\* resolveClarifyPrompt, with the row started.
AtPrompt(i) ==
  LET Ask(p) == CASE p = "pending"   -> Reaching(i, "park", "started", approval[i], p)
                  [] p = "answered"  -> Reaching(i, "done", "finished", approval[i], p)
                  [] p = "cancelled" -> Reaching(i, "done", "failed", approval[i], p)
                  [] p = "timed_out" -> Reaching(i, "done", "timed_out", approval[i], p)
  IN  {Ask(p) : p \in Read(prompt[i])}

\* The tool is missing, unavailable, refused by the policy or the sandbox, or
\* its input is not valid.
Faults(i) ==
  IF "fault" \in Env THEN {Reaching(i, "done", "failed", approval[i], prompt[i])} ELSE {}

\* replayTerminalOutcome
Replayed(i) == row[i] = "finished"

\* Seeded fault: a call whose approval was requested once is not stopped again.
AskedOnce(i) == Gated(turn[i]) /\ turn[i] \notin ruled /\ approval[i] = "none"

\* Seeded fault: the preflight asks for the first call of a batch only.
FirstOfBatch(i) == Gated(turn[i]) /\ turn[i] \notin ruled /\ pc # "preflight"

\* The call needs a reviewer: effect allow_with_approval, and no rule matches.
NeedsApproval(i) == Gated(turn[i]) /\ turn[i] \notin ruled

\* Cleared at once: effect allow, or allow_with_approval under a rule.
AtOnce(i) ==
  {Reaching(i, "clear", IF Gated(turn[i]) THEN "approved" ELSE Entered(i), approval[i], prompt[i])}

Outcomes(i) ==
  IF row[i] = "failed" THEN {Throws(i)}
  ELSE IF Replayed(i)  THEN {Outcome("done", row[i], approval[i], prompt[i])}
  ELSE Faults(i) \cup (IF turn[i] = "ask"     THEN AtPrompt(i)
                       ELSE IF NeedsApproval(i) THEN AtApproval(i)
                       ELSE AtOnce(i))

Store(i, o) ==
  /\ row'      = [row EXCEPT ![i] = o.row]
  /\ approval' = [approval EXCEPT ![i] = o.approval]
  /\ prompt'   = [prompt EXCEPT ![i] = o.prompt]
  /\ UNCHANGED ruled

\* tool.execute begins, from the row the gate has left.
Startable(o) == o.verdict = "clear" /\ CanMoveCall(o.row, "started")
Thrown(o)    == \/ o.verdict = "throw"
                \/ o.verdict = "clear" /\ ~CanMoveCall(o.row, "started")

StartTool(i) ==
  /\ row'       = [row EXCEPT ![i] = "started"]
  /\ executing' = executing \cup {i}
  /\ execs'     = [execs EXCEPT ![i] = @ + 1]

\* Seeded fault: a denied call gets no tool message.
NoneWhenDenied(rs, i) == IF turn[i] = "ask" \/ approval[i] = "denied" THEN rs ELSE Append(rs, i)

\* The tool message of a call; an answered question is a user message instead.
WithResult(rs, i) == IF turn[i] = "ask" THEN rs ELSE Append(rs, i)

-----------------------------------------------------------------------------
(* The loop                                                                *)

Init ==
  /\ status     = "running"
  /\ turn       = << >>
  /\ row        = [i \in Calls |-> "none"]
  /\ approval   = [i \in Calls |-> "none"]
  /\ prompt     = [i \in Calls |-> "none"]
  /\ ruled      = {}
  /\ checkpoint = NoCheckpoint
  /\ pc         = "provider"
  /\ pending    = << >>
  /\ pos        = 1
  /\ cleared    = << >>
  /\ results    = << >>
  /\ inflight   = {}
  /\ executing  = {}
  /\ execs      = [i \in Calls |-> 0]
  /\ parking    = {}
  /\ verdicts   = {}
  /\ recovered  = FALSE

\* The model answers with tool calls.
ProviderResponds ==
  /\ pc = "provider"
  /\ turn = << >>
  /\ \E n \in Calls : \E t \in [1 .. n -> Kinds] :
       /\ turn'    = t
       /\ pending' = [i \in 1 .. n |-> i]
  /\ status' = "waiting_tool"
  /\ pos'    = 1
  /\ pc'     = "calls"
  /\ UNCHANGED <<table, checkpoint, cleared, results, work, parking, verdicts, recovered>>

\* The model answers with its final text.
ProviderFinal ==
  /\ pc = "provider"
  /\ status'     = "succeeded"
  /\ checkpoint' = NoCheckpoint
  /\ pc'         = "off"
  /\ UNCHANGED <<turn, table, pending, pos, cleared, results, work,
                 parking, verdicts, recovered>>

\* A timeout of the model is retried once, behind a checkpoint.
ProviderRecovers ==
  /\ "recover" \in Env
  /\ pc = "provider"
  /\ ~recovered
  /\ recovered'  = TRUE
  /\ checkpoint' = [pending |-> pending, results |-> results]
  /\ UNCHANGED <<status, turn, table, loop, work, parking, verdicts>>

\* finalizeTaskFailure
Fail(as) ==
  /\ status'     = as
  /\ checkpoint' = NoCheckpoint
  /\ pc'         = "off"
  /\ UNCHANGED <<pending, pos, cleared, results>>

\* The model fails, the task is interrupted or times out: throwIfAborted.
Interrupt(as) ==
  /\ "interrupt" \in Env
  /\ pc \in {"provider", "calls"}
  /\ Fail(as)
  /\ UNCHANGED <<turn, table, work, parking, verdicts, recovered>>

Current == pending[pos]
HasCurrent == pos <= Len(pending)

\* preflightToolCall in executeParallelToolBatch: governance only.
Preflight ==
  /\ pc \in {"calls", "preflight"}
  /\ HasCurrent
  /\ Safe(turn[Current])
  /\ \E o \in Outcomes(Current) :
       /\ Store(Current, o)
       /\ \/ /\ o.verdict = "throw"
             /\ Fail("failed")
          \/ /\ o.verdict = "park"
             /\ pc' = "park"
             /\ UNCHANGED <<status, checkpoint, pending, pos, cleared, results>>
          \/ /\ o.verdict \in {"clear", "done"}
             /\ pc'  = "preflight"
             /\ pos' = pos + 1
             /\ cleared' = IF o.verdict = "clear" THEN Append(cleared, Current) ELSE cleared
             /\ results' = IF o.verdict = "done" THEN Append(results, Current) ELSE results
             /\ UNCHANGED <<status, checkpoint, pending>>
  /\ UNCHANGED <<turn, work, parking, verdicts, recovered>>

\* The batch is complete: Promise.all over the cleared calls.
StartBatch ==
  /\ pc = "preflight"
  /\ ~(HasCurrent /\ Safe(turn[Current]))
  /\ inflight' = inflight \cup {cleared[k] : k \in 1 .. Len(cleared)}
  /\ pc' = "await"
  /\ UNCHANGED <<status, turn, table, checkpoint, pending, pos, cleared, results,
                 executing, execs, parking, verdicts, recovered>>

\* invokeToolCall in a batch.  The calls of a batch go on by themselves, even
\* when one of them has thrown and the task has failed.  None can park here:
\* the preflight has found its approval or its rule, and both stay.
Launch(i) ==
  /\ i \in inflight
  /\ inflight' = inflight \ {i}
  /\ \E o \in Outcomes(i) :
       \/ /\ Startable(o)
          /\ StartTool(i)
          /\ UNCHANGED <<approval, prompt, ruled, status, checkpoint, loop>>
       \/ /\ o.verdict = "done"
          /\ Store(i, o)
          /\ UNCHANGED <<status, checkpoint, loop, executing, execs>>
       \/ /\ Thrown(o)
          /\ Store(i, o)
          /\ IF pc = "await" THEN Fail("failed") ELSE UNCHANGED <<status, checkpoint, loop>>
          /\ UNCHANGED <<executing, execs>>
  /\ UNCHANGED <<turn, parking, verdicts, recovered>>

\* invokeToolCall of a call that is not parallel-safe.
Invoke ==
  /\ pc = "calls"
  /\ HasCurrent
  /\ ~Safe(turn[Current])
  /\ \E o \in Outcomes(Current) :
       \/ /\ Startable(o)
          /\ StartTool(Current)
          /\ pos'     = pos + 1
          /\ cleared' = <<Current>>
          /\ pc'      = "await"
          /\ UNCHANGED <<approval, prompt, ruled, status, checkpoint, pending, results, inflight>>
       \/ /\ o.verdict = "done"
          /\ Store(Current, o)
          /\ pos'     = pos + 1
          /\ results' = WithResult(results, Current)
          /\ UNCHANGED <<status, checkpoint, pc, pending, cleared, work>>
       \/ /\ o.verdict = "park"
          /\ Store(Current, o)
          /\ pc' = "park"
          /\ UNCHANGED <<status, checkpoint, pending, pos, cleared, results, work>>
       \/ /\ Thrown(o)
          /\ Store(Current, o)
          /\ Fail("failed")
          /\ UNCHANGED work
  /\ UNCHANGED <<turn, parking, verdicts, recovered>>

\* tool.execute returns.
FinishTool(i, to) ==
  /\ i \in executing
  /\ executing' = executing \ {i}
  /\ row'       = [row EXCEPT ![i] = to]
  /\ UNCHANGED <<status, turn, approval, prompt, ruled, checkpoint, loop, inflight, execs,
                 parking, verdicts, recovered>>

\* applyCompletedToolCallOutcome of every call the loop was waiting for.
Collect ==
  /\ pc = "await"
  /\ \A k \in 1 .. Len(cleared) : cleared[k] \notin inflight \cup executing
  /\ results' = results \o cleared
  /\ cleared' = << >>
  /\ pc'      = "calls"
  /\ UNCHANGED <<status, turn, table, checkpoint, pending, pos, work,
                 parking, verdicts, recovered>>

EndTurn ==
  /\ pc = "calls"
  /\ ~HasCurrent
  /\ checkpoint' = NoCheckpoint
  /\ status'     = "running"
  /\ pending'    = << >>
  /\ pos'        = 1
  /\ pc'         = "provider"
  /\ UNCHANGED <<turn, table, cleared, results, work, parking, verdicts, recovered>>

\* Seeded fault: the parked call is not part of what is pending.
RestWithoutCall == SubSeq(pending, pos + 1, Len(pending))

\* The calls still to do: pendingToolCalls.slice(checkpointIndex).
Rest == SubSeq(pending, pos, Len(pending))

\* tryPauseToolExecution: first the status of the task ...
Park ==
  /\ pc = "park"
  /\ status'  = IF turn[Current] = "ask" THEN "waiting_clarification" ELSE "waiting_approval"
  /\ parking' = parking \cup {[pending |-> Rest, results |-> results]}
  /\ pc'      = "off"
  /\ UNCHANGED <<turn, table, checkpoint, pending, pos, cleared, results, work,
                 verdicts, recovered>>

\* ... then the checkpoint.
SaveCheckpoint(c) ==
  /\ c \in parking
  /\ checkpoint' = c
  /\ parking'    = parking \ {c}
  /\ UNCHANGED <<status, turn, table, loop, work, verdicts, recovered>>

-----------------------------------------------------------------------------
(* Reviewers                                                               *)

\* A reviewer in the loop's own process acts only while the loop awaits the
\* model, a tool or nothing; one in another process acts at any time.
Reviewable == \/ "remote" \in Env
              \/ pc # "park" /\ parking = {}

\* A record that is decided, or one that was and is submitted again.
Decidable(record) == \/ record = "pending"
                     \/ record # "none" /\ "again" \in Env

UnchangedByReview == UNCHANGED <<turn, row, loop, work, parking, recovered>>

\* resolveApproval, allow: the verdict is stored, for this call or (allowScope
\* session or always) for every call with its fingerprint.  The calls of one
\* kind share one here.
Allow(i, scope) ==
  /\ Reviewable
  /\ approval[i] = "pending"
  /\ approval' = [approval EXCEPT ![i] = "approved"]
  /\ ruled'    = IF scope = "once" THEN ruled ELSE ruled \cup {turn[i]}
  /\ verdicts' = verdicts \cup {[call |-> i, by |-> "allow"]}
  /\ UNCHANGED <<status, prompt, checkpoint>>
  /\ UnchangedByReview

\* resolveApproval, deny, or reconcileExpiredApprovals; and resolveApproval on
\* an approval that was rejected before.
Reject(i, as) ==
  /\ Reviewable
  /\ Decidable(approval[i])
  /\ approval[i] \in {"pending", as}
  /\ as = "timed_out" => "expire" \in Env
  /\ approval' = [approval EXCEPT ![i] = as]
  /\ verdicts' = verdicts \cup {[call |-> i, by |-> "reject"]}
  /\ UNCHANGED <<status, prompt, ruled, checkpoint>>
  /\ UnchangedByReview

\* answerClarifyPrompt, for the first time or again: the answer joins the
\* messages of the checkpoint, and without one the facade throws.
Answer(i) ==
  /\ Reviewable
  /\ Decidable(prompt[i])
  /\ prompt'   = [prompt EXCEPT ![i] = IF @ = "pending" THEN "answered" ELSE @]
  /\ verdicts' = IF checkpoint = NoCheckpoint THEN verdicts
                 ELSE verdicts \cup {[call |-> i, by |-> "allow"]}
  /\ UNCHANGED <<status, approval, ruled, checkpoint>>
  /\ UnchangedByReview

\* failWaitingClarificationTask
FailWaiting ==
  IF status = "waiting_clarification"
  THEN status' = "failed" /\ checkpoint' = NoCheckpoint
  ELSE UNCHANGED <<status, checkpoint>>

\* cancelClarifyPrompt, for the first time or again.
Cancel(i) ==
  /\ Reviewable
  /\ Decidable(prompt[i])
  /\ prompt' = [prompt EXCEPT ![i] = IF @ = "pending" THEN "cancelled" ELSE @]
  /\ FailWaiting
  /\ UNCHANGED <<approval, ruled, verdicts>>
  /\ UnchangedByReview

\* reconcileExpiredApprovals, prompts.
ExpirePrompt(i) ==
  /\ "expire" \in Env
  /\ Reviewable
  /\ prompt[i] = "pending"
  /\ prompt' = [prompt EXCEPT ![i] = "timed_out"]
  /\ IF CanMoveCall(row[i], "timed_out")
     THEN row' = [row EXCEPT ![i] = "timed_out"] /\ FailWaiting
     ELSE UNCHANGED <<row, status, checkpoint>>
  /\ UNCHANGED <<turn, approval, ruled, loop, work, parking, verdicts, recovered>>

\* A loop over the calls `rest', from the checkpoint.
Resume(rest) ==
  /\ status'  = "running"
  /\ pending' = rest
  /\ pos'     = 1
  /\ cleared' = << >>
  /\ results' = checkpoint.results
  /\ pc'      = IF rest = << >> THEN "provider" ELSE "calls"

\* Seeded fault: the status of the task is not looked at.
ResumableAnytime == checkpoint # NoCheckpoint

\* Seeded fault: only a task that waits for an approval is resumed.
ResumableApproval == status = "waiting_approval" /\ checkpoint # NoCheckpoint

\* The guards of resumeTask.
Resumable == status \in Waiting /\ checkpoint # NoCheckpoint

\* Seeded fault: a rejection resumes everything that was pending.
RestAfterRejection(i) == checkpoint.pending

\* resumeTaskAfterApprovalFailure only keeps the rejected call.
AfterRejection(i) == <<i>>

\* The guards of resumeTaskAfterApprovalFailure.
ResumableRejected(i) ==
  /\ Resumable
  /\ status = "waiting_approval"
  /\ \E k \in DOMAIN checkpoint.pending : checkpoint.pending[k] = i

Refused(v) == IF v.by = "allow" THEN ~Resumable ELSE ~ResumableRejected(v.call)

\* The continuation of a verdict; a refused one is reported and forgotten.
Continue(v) ==
  /\ v \in verdicts
  /\ verdicts' = verdicts \ {v}
  /\ \/ /\ v.by = "allow" /\ Resumable
        /\ Resume(checkpoint.pending)
     \/ /\ v.by = "reject" /\ ResumableRejected(v.call)
        /\ Resume(AfterRejection(v.call))
     \/ /\ Refused(v)
        /\ UNCHANGED <<status, loop>>
  /\ UNCHANGED <<turn, table, checkpoint, work, parking, recovered>>

-----------------------------------------------------------------------------
(* Crashes                                                                 *)

\* The process that runs the loop dies, and with it a reviewer who lives there.
Crash ==
  /\ "crash" \in Env
  /\ pc'        = "off"
  /\ inflight'  = {}
  /\ executing' = {}
  /\ parking'   = {}
  /\ verdicts'  = IF "remote" \in Env THEN verdicts ELSE {}
  /\ UNCHANGED <<status, turn, table, checkpoint, pending, pos, cleared, results,
                 execs, recovered>>

\* The process of a reviewer dies between the verdict and its continuation.
ReviewerCrash ==
  /\ "crash" \in Env
  /\ "remote" \in Env
  /\ verdicts' = {}
  /\ UNCHANGED <<status, turn, table, checkpoint, loop, work, parking, recovered>>

-----------------------------------------------------------------------------
LoopStep ==
  \/ ProviderResponds \/ ProviderFinal \/ ProviderRecovers
  \/ Preflight \/ StartBatch \/ Invoke \/ Collect \/ EndTurn \/ Park
  \/ \E c \in parking : SaveCheckpoint(c)
  \/ \E i \in Calls : Launch(i) \/ FinishTool(i, "finished") \/ FinishTool(i, "failed")

Review(i) ==
  \/ \E scope \in {"once", "session"} : Allow(i, scope)
  \/ Reject(i, "denied") \/ Reject(i, "timed_out")
  \/ Answer(i) \/ Cancel(i) \/ ExpirePrompt(i)

\* In one process the continuation follows its verdict at once.
Settled == "remote" \in Env \/ verdicts = {}

Next ==
  \/ Settled /\ LoopStep
  \/ Settled /\ \E as \in {"failed", "cancelled"} : Interrupt(as)
  \/ Settled /\ \E i \in Calls : Review(i)
  \/ \E v \in verdicts : Continue(v)
  \/ Crash \/ ReviewerCrash

Spec == Init /\ [][Next]_vars

\* A reviewer settles what is pending, or lets it expire.
Decide(i) ==
  \/ approval[i] = "pending" /\ (Allow(i, "once") \/ Reject(i, "denied") \/ Reject(i, "timed_out"))
  \/ prompt[i] = "pending" /\ (Answer(i) \/ Cancel(i) \/ ExpirePrompt(i))

\* The loop and a continuation run as soon as the event loop lets them; the
\* model and a tool are cut off by their timeouts, and a record that nobody
\* decides expires.
FairSpec ==
  /\ Spec
  /\ WF_vars(Settled /\ LoopStep)
  /\ WF_vars(\E v \in verdicts : Continue(v))
  /\ \A i \in Calls : WF_vars(Settled /\ Decide(i))

-----------------------------------------------------------------------------
(* Properties                                                              *)

\* Types; and a call the preflight has cleared needs no reviewer when it is
\* launched, so a batch never parks half-way.
TypeOK ==
  /\ status \in TaskStatus
  /\ turn \in Seq(Kinds) /\ Len(turn) <= MaxCalls
  /\ row \in [Calls -> CallStatus \cup {"none"}]
  /\ approval \in [Calls -> Approval]
  /\ prompt \in [Calls -> Prompt]
  /\ ruled \subseteq Kinds
  /\ checkpoint \in Checkpoint \cup {NoCheckpoint}
  /\ pc \in {"off", "provider", "calls", "preflight", "await", "park"}
  /\ pending \in Seq(Calls) /\ pos \in 1 .. MaxCalls + 1
  /\ cleared \in Seq(Calls) /\ results \in Seq(Calls)
  /\ inflight \subseteq Calls /\ executing \subseteq Calls
  /\ execs \in [Calls -> Nat]
  /\ parking \subseteq Checkpoint
  /\ verdicts \subseteq [call : Calls, by : {"allow", "reject"}]
  /\ recovered \in BOOLEAN
  /\ \A i \in inflight : \A o \in Outcomes(i) : o.verdict # "park"

\* However often a turn is parked, resumed from a checkpoint that may be stale,
\* reviewed by two processes or cut by a crash, the tool of a call runs once.
ExecutedOnce == \A i \in Calls : execs[i] <= 1

\* A tool that needs a reviewer has run only if its own approval was granted or
\* an allow of wider scope covers its kind; and never if it was rejected.
GateHolds ==
  \A i \in 1 .. Len(turn) : execs[i] > 0 /\ Gated(turn[i]) =>
    \/ approval[i] = "approved"
    \/ approval[i] = "none" /\ turn[i] \in ruled

\* The records of a turn seen as those of ReviewedCall.
AsReviewed == INSTANCE ReviewedCall WITH
  gate   <- approval,
  runs   <- execs,
  over   <- {i \in Calls : row[i] \in CallEnded},
  exempt <- {i \in DOMAIN turn : ~NeedsApproval(i)}

\* However a turn is parked, resumed, reviewed and cut, its calls behave like
\* those of ReviewedCall: none runs twice or past its gate, no verdict changes,
\* nothing that is over is taken up again.
CallSpec == AsReviewed!Spec

\* After a deny or a timeout the later calls of the turn are not executed
\* (docs/user/approvals.md).
DenyStopsBatch ==
  \A i, j \in Calls : approval[i] \in {"denied", "timed_out"} /\ i < j => execs[j] = 0

\* A task that waits has a checkpoint, and the first call of the checkpoint has
\* a record that a reviewer can still decide.
ParkedResumable ==
  status \in Waiting /\ parking = {} /\ verdicts = {} =>
    /\ checkpoint # NoCheckpoint
    /\ checkpoint.pending # << >>
    /\ LET record == IF status = "waiting_approval" THEN approval ELSE prompt
       IN  record[Head(checkpoint.pending)] = "pending"

\* When the model is asked again after the turn, it is told of exactly the calls
\* that have come to an end, and of each of them once.
ResultsMatchRows ==
  pc = "provider" /\ turn # << >> =>
    /\ \A i \in 1 .. Len(turn) :
         turn[i] # "ask" => (row[i] \in CallEnded <=> \E k \in DOMAIN results : results[k] = i)
    /\ \A k, m \in DOMAIN results : results[k] = results[m] => k = m

\* "allow resumes the paused tool call and continues the task"
\* (docs/user/approvals.md): when a turn in which nothing was rejected is over,
\* every approved call has come to an end.
AllowedIsExecuted ==
  pc = "provider" /\ (\A i \in Calls : approval[i] \in {"none", "approved"}) =>
    \A i \in Calls : approval[i] = "approved" => row[i] \in CallEnded

\* No task is left in the middle of a turn.
TaskEnds == <>(status \in Ended)

=============================================================================
