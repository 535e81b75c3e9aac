------------------------------ MODULE InboxFlow ------------------------------
(***************************************************************************)
(* What a user is shown of a session: the commitments and next actions of  *)
(* the session, and the inbox items about them.  Nothing here is called    *)
(* directly by the agent loop: TraceService.record hands each event to     *)
(* InboxCollector and then to CommitmentCollector, synchronously, and what *)
(* these write records further events, which are handled first.  So one    *)
(* event with everything it sets off is one step.                          *)
(*                                                                         *)
(* desk holds the tables that the handlers change; an operator on a desk   *)
(* is a method of a service with the handling of the event it records.     *)
(*                                                                         *)
(* Not modelled: pendingDecision, which no code sets; items that only      *)
(* report (budget, skills, memory, routines that went well); the order of  *)
(* next actions, which the user can change at any time: "the first" next   *)
(* action is any of those that could be first.                             *)
(***************************************************************************)
EXTENDS TaskIds, Naturals, FiniteSets

CONSTANTS
  Actions,          \* identifiers of next actions
  Commitments, NoCommitment,
  MaxApprovals,     \* bound: the approvals that one task asks for
  MaxEdits          \* bound: what users and answers change by hand, and routines that fail

ASSUME InboxAssumption == MaxApprovals \in Nat /\ MaxEdits \in Nat

VARIABLES
  desk,      \* [action, commitment, item]: the tables next_actions, commitments, inbox_items
  phase,     \* of each task: "new", "running", "waiting" for an approval, "ended"
  asks,      \* how many approvals each task has asked for
  edits,     \* for its bound
  refiled    \* history: actions that were cancelled, or rewritten by a later answer

deskVars == <<desk, phase, asks, edits, refiled>>

ActionStatus == {"none", "pending", "active", "blocked", "done", "cancelled"}
OpenStatus   == {"pending", "active", "blocked"}
ItemStatus   == {"none", "pending", "closed"}      \* done or dismissed

\* The dedup keys.
BlockedAction(n)     == <<"task_blocked", "next_action", n>>
BlockedCommitment(c) == <<"task_blocked", "commitment", c>>
ApprovalItem(t, i)   == <<"approval_requested", t, i>>
BlockedKeys == {BlockedAction(n) : n \in Actions} \cup {BlockedCommitment(c) : c \in Commitments}
ItemKeys == BlockedKeys \cup {ApprovalItem(t, i) : t \in Tasks, i \in 1..MaxApprovals}

NoAction == [status |-> "none", task |-> NoTask, commitment |-> NoCommitment]
NoItem   == [status |-> "none", task |-> NoTask, awaits |-> FALSE]

DeskInit ==
  /\ desk = [action     |-> [n \in Actions |-> NoAction],
             commitment |-> [c \in Commitments |-> [status |-> "none", task |-> NoTask]],
             item       |-> [k \in ItemKeys |-> NoItem]]
  /\ phase = [t \in Tasks |-> "new"]
  /\ asks = [t \in Tasks |-> 0]
  /\ edits = 0 /\ refiled = {}

OpenActions(d)     == {n \in Actions : d.action[n].status \in OpenStatus}
OpenCommitments(d) == {c \in Commitments : d.commitment[c].status \in {"open", "blocked"}}
Fresh(d)           == {n \in Actions : d.action[n].status = "none"}
Unused(d)          == {c \in Commitments : d.commitment[c].status = "none"}

-----------------------------------------------------------------------------
(* InboxService.                                                            *)

\* append: an item with the same key, in whatever status, is left as it is.  The
\* summary of a block says whether it awaits an approval.
Notify(d, k, t, awaits) ==
  IF d.item[k].status # "none" THEN d
  ELSE [d EXCEPT !.item[k] = [status |-> "pending", task |-> t, awaits |-> awaits]]

\* markMatchingDone, for the pending ones of the keys K.
CloseItems(d, K) ==
  [d EXCEPT !.item = [k \in ItemKeys |-> IF k \in K /\ d.item[k].status = "pending"
                                       THEN [d.item[k] EXCEPT !.status = "closed"] ELSE d.item[k]]]

\* markTaskBlockedItemsDone, of all of the task's or of those that await an approval.
CloseBlocked(d, t, all) ==
  CloseItems(d, {k \in BlockedKeys : d.item[k].task = t /\ (all \/ d.item[k].awaits)})

\* markBlockedItemsDone looks among the items of the task that the row names,
\* or of the session when it names none.
CloseOwn(d, k, t) == IF t = NoTask \/ d.item[k].task = t THEN CloseItems(d, {k}) ELSE d

-----------------------------------------------------------------------------
(* NextActionService and CommitmentService, with the inbox behind them.     *)

Create(d, n, t, c, status) ==
  [d EXCEPT !.action[n] = [status |-> status, task |-> t, commitment |-> c]]

Block(d, n, awaits) ==
  Notify([d EXCEPT !.action[n].status = "blocked"], BlockedAction(n), d.action[n].task, awaits)

\* Seeded fault: the item stays.
SettleRow(d, n, status) == [d EXCEPT !.action[n].status = status]

\* unblock to "active" and markDone to "done" both close the item.
Settle(d, n, status) ==
  CloseOwn([d EXCEPT !.action[n].status = status], BlockedAction(n), d.action[n].task)

CreateCommitment(d, c, t) == [d EXCEPT !.commitment[c] = [status |-> "open", task |-> t]]

BlockCommitment(d, c) ==
  Notify([d EXCEPT !.commitment[c].status = "blocked"],
         BlockedCommitment(c), d.commitment[c].task, FALSE)

SettleCommitment(d, c, status) ==
  CloseOwn([d EXCEPT !.commitment[c].status = status], BlockedCommitment(c), d.commitment[c].task)

-----------------------------------------------------------------------------
(* The events of a task: what InboxCollector does with each of them, then    *)
(* CommitmentCollector.                                                      *)

\* onTaskCreated
TaskCreated(t) ==
  /\ phase[t] = "new" /\ phase' = [phase EXCEPT ![t] = "running"]
  /\ \/ /\ OpenCommitments(desk) = {}
        /\ \E c \in Unused(desk), n \in Fresh(desk) :
             desk' = Create(CreateCommitment(desk, c, t), n, t, c, "active")
     \/ /\ OpenActions(desk) = {}
        /\ \E c \in OpenCommitments(desk), n \in Fresh(desk) : desk' = Create(desk, n, t, c, "active")
     \/ OpenCommitments(desk) # {} /\ OpenActions(desk) # {} /\ UNCHANGED desk
  /\ UNCHANGED <<asks, edits, refiled>>

\* onApprovalRequested blocks the first next action of the session that is not
\* blocked already, whichever task it came from.
Ready(d) == {n \in Actions : d.action[n].status \in {"active", "pending"}}

ApprovalRequested(t) ==
  LET item == Notify(desk, ApprovalItem(t, asks[t] + 1), t, FALSE)
  IN /\ phase[t] = "running" /\ asks[t] < MaxApprovals
     /\ phase' = [phase EXCEPT ![t] = "waiting"] /\ asks' = [asks EXCEPT ![t] = @ + 1]
     /\ \/ \E n \in Ready(desk) : desk' = Block(item, n, TRUE)
        \/ Ready(desk) = {} /\ desk' = item
     /\ UNCHANGED <<edits, refiled>>

\* Seeded fault: the item of the approval stays.
ResolvedBlocks(t) == CloseBlocked(desk, t, FALSE)

\* approval_resolved, by a reviewer or by the clock: the item of the approval and
\* the blocked items of the task that await an approval are done; then
\* onApprovalResolved takes the first blocked action, whatever blocked it.
Resolved(t) == CloseBlocked(CloseItems(desk, {ApprovalItem(t, asks[t])}), t, FALSE)

ApprovalResolved(t, approved) ==
  /\ phase[t] = "waiting" /\ phase' = [phase EXCEPT ![t] = "running"]
  /\ \/ \E n \in {m \in Actions : desk.action[m].status = "blocked"} :
          desk' = IF approved THEN Settle(Resolved(t), n, "active") ELSE Block(Resolved(t), n, FALSE)
     \/ (\A m \in Actions : desk.action[m].status # "blocked") /\ desk' = Resolved(t)
  /\ UNCHANGED <<asks, edits, refiled>>

\* onTaskSuccess: the first open action is done, and with the last one its commitment.
Succeeded(d, n) ==
  LET c == d.action[n].commitment
      done == Settle(d, n, "done")
  IN IF OpenActions(done) = {} /\ c # NoCommitment THEN SettleCommitment(done, c, "completed") ELSE done

\* onSessionSummary for a summary with or without open loops and next actions:
\* the commitment it is about, and what becomes of the desk.
WithLoops(d, c, loops) == IF loops THEN BlockCommitment(d, c) ELSE d

Continued(d, t, c, next) ==
  IF next /\ OpenActions(d) = {}
    THEN \E n \in Fresh(d) : desk' = Create(d, n, t, c, "active")
    ELSE desk' = d

Summarised(d, t, loops, next) ==
  \/ \E c \in OpenCommitments(d) : Continued(WithLoops(d, c, loops), t, c, next)
  \/ /\ OpenCommitments(d) = {} /\ (loops \/ next)
     /\ \E c \in Unused(d) : Continued(WithLoops(CreateCommitment(d, c, t), c, loops), t, c, next)
  \/ OpenCommitments(d) = {} /\ ~loops /\ ~next /\ desk' = d

\* task_success and, in the same turn, session_summary_written.
TaskSuccess(t) ==
  LET told == CloseBlocked(desk, t, TRUE)
  IN /\ phase[t] = "running" /\ phase' = [phase EXCEPT ![t] = "ended"]
     /\ \E loops \in BOOLEAN, next \in BOOLEAN :
          \/ \E n \in OpenActions(told) : Summarised(Succeeded(told, n), t, loops, next)
          \/ OpenActions(told) = {} /\ Summarised(told, t, loops, next)
     /\ UNCHANGED <<asks, edits, refiled>>

\* Seeded fault: the block is added before the items of the task are closed.
FailedLast(t, n) == CloseBlocked(Block(desk, n, FALSE), t, TRUE)

\* task_failure: the items of the task are closed first, so that the block of the
\* first open action is shown.
FailedFirst(t, n) == Block(CloseBlocked(desk, t, TRUE), n, FALSE)

TaskFailure(t) ==
  /\ phase[t] = "running" /\ phase' = [phase EXCEPT ![t] = "ended"]
  /\ \/ \E n \in OpenActions(desk) : desk' = FailedFirst(t, n)
     \/ OpenActions(desk) = {} /\ desk' = CloseBlocked(desk, t, TRUE)
  /\ UNCHANGED <<asks, edits, refiled>>

-----------------------------------------------------------------------------
(* What the answer of a task says, failed routines, and the user.            *)

Edit == edits < MaxEdits /\ edits' = edits + 1

\* AssistantSessionProjectionService.project for one next action of the text: a
\* new one, or one of any status that an earlier answer has named.
Projected(t) ==
  /\ phase[t] = "ended" /\ Edit
  /\ \/ /\ \E n \in Fresh(desk), c \in OpenCommitments(desk) \cup {NoCommitment}, s \in {"active", "pending", "blocked"} :
             LET row == Create(desk, n, t, c, IF s = "blocked" THEN "pending" ELSE s)
             IN /\ c = NoCommitment => OpenCommitments(desk) = {}
                /\ desk' = IF s = "blocked" THEN Block(row, n, FALSE) ELSE row
        /\ UNCHANGED refiled
     \/ \E n \in Actions \ Fresh(desk), s \in {"active", "pending", "blocked"} :
          LET row == [desk EXCEPT !.action[n].task = t]
          IN /\ refiled' = refiled \cup {n}
             /\ desk' = CASE s = "blocked" -> Block(row, n, FALSE)
                          [] s = "active"  -> Settle(row, n, "active")
                          [] s = "pending" -> [row EXCEPT !.action[n].status = s]
  /\ UNCHANGED <<phase, asks>>

\* createFailedRoutineFollowUp, for a routine that ran no task.
RoutineFailed ==
  /\ Edit
  /\ \E n \in Fresh(desk) :
       desk' = Block(Create(desk, n, NoTask, NoCommitment, "blocked"), n, FALSE)
  /\ UNCHANGED <<phase, asks, refiled>>

\* The commands on a next action and on a commitment; cancel closes no item.
UserOnAction(n) ==
  /\ desk.action[n].status # "none" /\ Edit
  /\ \/ desk' = Block(desk, n, FALSE) /\ UNCHANGED refiled
     \/ \E s \in {"active", "done"} : desk' = Settle(desk, n, s) /\ UNCHANGED refiled
     \/ desk' = [desk EXCEPT !.action[n].status = "cancelled"] /\ refiled' = refiled \cup {n}
  /\ UNCHANGED <<phase, asks>>

UserOnCommitment(c) ==
  /\ desk.commitment[c].status # "none" /\ Edit
  /\ \/ desk' = BlockCommitment(desk, c)
     \/ \E s \in {"open", "completed"} : desk' = SettleCommitment(desk, c, s)
     \/ desk' = [desk EXCEPT !.commitment[c].status = "cancelled"]
  /\ UNCHANGED <<phase, asks, refiled>>

\* markInboxDone and markInboxDismissed ask for no status.
UserOnItem(k) ==
  /\ desk.item[k].status # "none" /\ Edit
  /\ desk' = [desk EXCEPT !.item[k].status = "closed"]
  /\ UNCHANGED <<phase, asks, refiled>>

-----------------------------------------------------------------------------
TaskEvent(t) ==
  \/ TaskCreated(t) \/ ApprovalRequested(t) \/ TaskSuccess(t) \/ TaskFailure(t) \/ Projected(t)
  \/ \E approved \in BOOLEAN : ApprovalResolved(t, approved)

DeskNext ==
  \/ \E t \in Tasks : TaskEvent(t)
  \/ RoutineFailed
  \/ \E n \in Actions : UserOnAction(n)
  \/ \E c \in Commitments : UserOnCommitment(c)
  \/ \E k \in ItemKeys : UserOnItem(k)

DeskSpec == DeskInit /\ [][DeskNext]_deskVars

-----------------------------------------------------------------------------
(* Properties                                                               *)

\* Every variable has its type.
DeskTypeOK ==
  /\ \A n \in Actions : /\ desk.action[n].status \in ActionStatus
                       /\ desk.action[n].task \in Tasks \cup {NoTask}
                       /\ desk.action[n].commitment \in Commitments \cup {NoCommitment}
  /\ \A c \in Commitments : desk.commitment[c].status \in
       {"none", "open", "blocked", "completed", "cancelled"}
  /\ \A k \in ItemKeys : /\ desk.item[k].status \in ItemStatus /\ desk.item[k].awaits \in BOOLEAN
                    /\ desk.item[k].task \in Tasks \cup {NoTask}
  /\ phase \in [Tasks -> {"new", "running", "waiting", "ended"}]
  /\ asks \in [Tasks -> 0..MaxApprovals] /\ edits \in 0..MaxEdits /\ refiled \subseteq Actions

\* The inbox asks for a decision only while one is awaited: a resolved or expired
\* approval leaves no pending item, however the task went on.
NoDecisionWithoutApproval ==
  \A t \in Tasks : \A i \in 1..MaxApprovals :
    desk.item[ApprovalItem(t, i)].status = "pending" => phase[t] = "waiting" /\ i = asks[t]

\* The inbox shows no block that is over, unless the user cancelled the action or
\* a later answer rewrote it under another task.
NoStaleBlock ==
  \A n \in Actions : desk.item[BlockedAction(n)].status = "pending" /\ n \notin refiled
                     => desk.action[n].status = "blocked"

\* An action that the failure of a task blocks is shown, the first time: the
\* inbox closes the items of the ended task before the collector adds this one.
\* From then on the reason is in an item, pending or not.
FailureShown ==
  [][\A n \in Actions :
       /\ desk.item[BlockedAction(n)].status = "none"
       /\ desk'.action[n].status = "blocked"
       => desk'.item[BlockedAction(n)].status = "pending"]_deskVars
=============================================================================
