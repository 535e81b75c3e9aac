------------------------------ MODULE FeishuChat ------------------------------
(***************************************************************************)
(* FeishuAdapter: messages and card clicks of Feishu chats become tasks,   *)
(* schedules and decisions on approvals.  Feishu delivers an event again   *)
(* until it is acknowledged, users click twice, every request to Feishu    *)
(* may fail after its retries, and a restart loses everything but the      *)
(* runtime's own rows.                                                     *)
(*                                                                         *)
(* An action ends where a handler awaits.  Not modelled: the text of       *)
(* cards and messages, the patches of cards, which change no state of the  *)
(* adapter, and the /schedule commands, which are the scheduler's.         *)
(***************************************************************************)
EXTENDS Naturals, Sequences

CONSTANTS
  Messages,         \* a message that asks for a task
  Plans,            \* a message that states a schedule
  Approvals, Confirmations,
  MaxHandled,       \* how many handled messages are remembered: 500 in the code
  MaxDeliveries,    \* bound: deliveries of an event, clicks on a card
  MaxRestarts       \* bound: restarts of the gateway

ASSUME ChatAssumption ==
  /\ MaxHandled \in Nat \ {0} /\ MaxDeliveries \in Nat /\ MaxRestarts \in Nat
  /\ Messages \cap Plans = {} /\ Approvals \cap Confirmations = {}
  /\ (Messages \cup Plans) \cap (Approvals \cup Confirmations) = {}

Inbound == Messages \cup Plans
Keys    == Inbound \cup Approvals \cup Confirmations

\* What a stage is named with is no key.
ASSUME StageAssumption == Keys \cap {"none", "task", "reply", "patch", "last"} = {}

VARIABLES
  handled, inFlight,   \* the three handled... and inFlight... sets
  recent,              \* handledInboundKeys
  stage,               \* what the handler of a key awaits
  sending, shown,      \* inFlightApprovalCardIds with who sends, sentApprovalCardIds
  drafts, final,       \* scheduleConfirmationDrafts, ...FinalCards
  \* outside the adapter
  approval,            \* "none", "pending" or "decided"
  card,                \* cards that users can see and click
  done,                \* tasks submitted, verdicts passed on, schedules created, by key
  deliveries, restarts,
  excused              \* history: keys whose handling failed, was cut off or was forgotten

chatVars == <<handled, inFlight, recent, stage, sending, shown, drafts, final, approval, card,
              done, deliveries, restarts, excused>>
memory == <<handled, inFlight, recent>>
cards  == <<sending, shown, card>>

ChatInit ==
  /\ handled = {} /\ inFlight = {} /\ recent = <<>> /\ stage = [x \in Keys |-> "none"]
  /\ sending = [a \in Approvals |-> "nobody"] /\ shown = {} /\ drafts = {}
  /\ final = [k \in Confirmations |-> "none"]
  /\ approval = [a \in Approvals |-> "none"] /\ card = {}
  /\ done = [x \in Keys |-> 0] /\ deliveries = [x \in Keys |-> 0]
  /\ restarts = 0 /\ excused = {}

-----------------------------------------------------------------------------
(* Handling a key once: begin...Handling and complete...Handling.           *)

\* Seeded fault: only what was handled is remembered, not what is being handled.
BeginUnhandled(x) == x \notin handled

Begin(x) == x \notin handled \cup inFlight

Arrives(x) ==
  /\ deliveries[x] < MaxDeliveries /\ deliveries' = [deliveries EXCEPT ![x] = @ + 1]
  /\ Begin(x) /\ inFlight' = inFlight \cup {x}

\* Only messages are remembered in an order, and the oldest is forgotten.
Complete(x, ok) ==
  LET longer == IF x \in Inbound THEN Append(recent, x) ELSE recent
      full   == Len(longer) > MaxHandled
  IN /\ inFlight' = inFlight \ {x} /\ stage' = [stage EXCEPT ![x] = "none"]
     /\ IF ok
          THEN /\ recent' = IF full THEN Tail(longer) ELSE longer
               /\ handled' = (handled \cup {x}) \ (IF full THEN {Head(longer)} ELSE {})
               /\ excused' = IF full THEN excused \cup {Head(longer)} ELSE excused
          ELSE excused' = excused \cup {x} /\ UNCHANGED <<handled, recent>>

Await(x, what) == stage' = [stage EXCEPT ![x] = what]

-----------------------------------------------------------------------------
(* A message that asks for a task.                                          *)

Submit(m) ==
  /\ Arrives(m) /\ Await(m, "task") /\ done' = [done EXCEPT ![m] = @ + 1]
  /\ UNCHANGED <<handled, recent, cards, drafts, final, approval, restarts, excused>>

\* The task ended, or waits for an approval; its result is sent as a text.  A
\* task that cannot be run is an error of the handler.
TaskReturns(m) ==
  /\ stage[m] = "task" /\ Await(m, "reply")
  /\ \/ UNCHANGED approval
     \/ \E a \in Approvals : approval[a] = "none" /\ approval' = [approval EXCEPT ![a] = "pending"]
  /\ UNCHANGED <<memory, cards, drafts, final, done, deliveries, restarts, excused>>

TaskThrows(m) ==
  /\ stage[m] = "task" /\ Complete(m, FALSE)
  /\ UNCHANGED <<cards, drafts, final, approval, done, deliveries, restarts>>

\* sendTaskResultToChat and sendApprovalCard, for the handler of x: a card that
\* was sent, or is being sent for an inbox event, is not sent again.
Free(a) == a \notin shown /\ sending[a] = "nobody"

Reply(x) ==
  /\ stage[x] = "reply"
  /\ \/ \E ok \in BOOLEAN : Complete(x, ok) /\ UNCHANGED sending
     \/ \E a \in Approvals :
          /\ approval[a] = "pending" /\ Free(a) /\ sending' = [sending EXCEPT ![a] = "reply"]
          /\ Await(x, a) /\ UNCHANGED <<memory, excused>>
  /\ UNCHANGED <<shown, card, drafts, final, approval, done, deliveries, restarts>>

\* sendInboxEvent of a routine's approval; a message created although the
\* answer was lost is not created twice, by its uuid.
InboxEvent(a) ==
  /\ approval[a] \in {"none", "pending"} /\ Free(a)
  /\ approval' = [approval EXCEPT ![a] = "pending"] /\ sending' = [sending EXCEPT ![a] = "inbox"]
  /\ UNCHANGED <<memory, stage, shown, card, drafts, final, done, deliveries, restarts, excused>>

CardSent(a, ok) ==
  /\ sending[a] # "nobody" /\ sending' = [sending EXCEPT ![a] = "nobody"]
  /\ shown' = IF ok THEN shown \cup {a} ELSE shown
  /\ card' \in {card \cup {a}} \cup IF ok THEN {} ELSE {card}
  /\ IF sending[a] = "reply" THEN \E x \in Messages \cup Approvals : stage[x] = a /\ Complete(x, ok)
     ELSE UNCHANGED <<memory, stage, excused>>
  /\ UNCHANGED <<drafts, final, approval, done, deliveries, restarts>>

-----------------------------------------------------------------------------
(* A click on an approval card.                                             *)

\* The card is patched first, then the runtime is asked.
ClickApproval(a) ==
  /\ a \in card /\ Arrives(a) /\ Await(a, "patch")
  /\ UNCHANGED <<handled, recent, cards, drafts, final, approval, done, restarts, excused>>

\* resolveApproval runs the task on, up to its next approval or its end.
PassVerdict(a) ==
  /\ stage[a] = "patch" /\ done' = [done EXCEPT ![a] = @ + 1]
  /\ \/ approval' = [approval EXCEPT ![a] = "decided"] /\ Await(a, "reply") /\ UNCHANGED <<memory, excused>>
     \/ approval' = [approval EXCEPT ![a] = "decided"] /\ Complete(a, FALSE)   \* the task went on and threw
     \/ Complete(a, FALSE) /\ UNCHANGED approval
  /\ UNCHANGED <<cards, drafts, final, deliveries, restarts>>

-----------------------------------------------------------------------------
(* A message that states a schedule, and the card that confirms it.         *)

\* sendScheduleConfirmation keeps the draft before the card is sent, under an
\* identifier of its own for each delivery.
Propose(p, k) ==
  /\ Arrives(p) /\ Await(p, k)
  /\ k \notin drafts /\ done[k] = 0 /\ deliveries[k] = 0 /\ k \notin card /\ \A q \in Plans : stage[q] # k
  /\ drafts' = drafts \cup {k}
  /\ UNCHANGED <<handled, recent, cards, final, approval, done, restarts, excused>>

Proposed(p, ok) ==
  /\ stage[p] \in Confirmations
  /\ card' \in {card \cup {stage[p]}} \cup IF ok THEN {} ELSE {card}
  /\ Complete(p, ok)
  /\ UNCHANGED <<sending, shown, drafts, final, approval, done, deliveries, restarts>>

\* A confirmation that nobody handles: without its draft, or cancelled, it only
\* has its card patched; otherwise the card is patched before the schedule is made.
ClickConfirmation(k, decision) ==
  /\ k \in card /\ Arrives(k)
  /\ IF k \in drafts /\ decision = "confirm" THEN Await(k, "patch") /\ UNCHANGED final
     ELSE /\ Await(k, "last")
          /\ final' = [final EXCEPT ![k] = IF k \in drafts THEN "cancelled" ELSE "failed"]
  /\ UNCHANGED <<handled, recent, cards, drafts, approval, done, restarts, excused>>

CreateSchedule(k, ok) ==
  /\ stage[k] = "patch" /\ k \in Confirmations /\ Await(k, "last")
  /\ done' = IF ok THEN [done EXCEPT ![k] = @ + 1] ELSE done
  /\ final' = [final EXCEPT ![k] = IF ok THEN "created" ELSE "failed"]
  /\ UNCHANGED <<memory, cards, drafts, approval, deliveries, restarts, excused>>

\* Seeded fault: the draft stays, and its confirmation may be given again.
LastPatchAgain(k) ==
  /\ stage[k] = "last" /\ Complete(k, FALSE)
  /\ UNCHANGED <<drafts, cards, final, approval, done, deliveries, restarts>>

\* A failed creation counts as handled too.
LastPatch(k) ==
  /\ stage[k] = "last" /\ drafts' = drafts \ {k} /\ Complete(k, TRUE)
  /\ UNCHANGED <<cards, final, approval, done, deliveries, restarts>>

-----------------------------------------------------------------------------
\* The gateway stops and another one starts.
Restart ==
  /\ restarts < MaxRestarts /\ restarts' = restarts + 1
  /\ handled' = {} /\ inFlight' = {} /\ recent' = <<>> /\ stage' = [x \in Keys |-> "none"]
  /\ sending' = [a \in Approvals |-> "nobody"] /\ shown' = {} /\ drafts' = {}
  /\ final' = [k \in Confirmations |-> "none"] /\ excused' = Keys
  /\ UNCHANGED <<approval, card, done, deliveries>>

ChatNext ==
  \/ \E m \in Messages : Submit(m) \/ TaskReturns(m) \/ TaskThrows(m)
  \/ \E x \in Messages \cup Approvals : Reply(x)
  \/ \E a \in Approvals : InboxEvent(a) \/ ClickApproval(a)
  \/ \E a \in Approvals, ok \in BOOLEAN : CardSent(a, ok)
  \/ \E a \in Approvals : PassVerdict(a)
  \/ \E p \in Plans, k \in Confirmations : Propose(p, k)
  \/ \E p \in Plans, ok \in BOOLEAN : Proposed(p, ok)
  \/ \E k \in Confirmations, decision \in {"confirm", "cancel"} : ClickConfirmation(k, decision)
  \/ \E k \in Confirmations, ok \in BOOLEAN : CreateSchedule(k, ok)
  \/ \E k \in Confirmations : LastPatch(k)
  \/ Restart

ChatSpec == ChatInit /\ [][ChatNext]_chatVars

-----------------------------------------------------------------------------
(* Properties                                                               *)

\* Every variable has its type, and what awaits is in flight.
ChatTypeOK ==
  /\ handled \subseteq Keys /\ inFlight \subseteq Keys /\ excused \subseteq Keys
  /\ Len(recent) <= MaxHandled
  /\ sending \in [Approvals -> {"nobody", "reply", "inbox"}] /\ shown \subseteq card
  /\ drafts \subseteq Confirmations /\ card \subseteq Approvals \cup Confirmations
  /\ final \in [Confirmations -> {"none", "created", "cancelled", "failed"}]
  /\ approval \in [Approvals -> {"none", "pending", "decided"}]
  /\ done \in [Keys -> Nat] /\ deliveries \in [Keys -> 0..MaxDeliveries] /\ restarts \in 0..MaxRestarts
  /\ \A x \in Keys : x \in inFlight <=> stage[x] # "none"

\* An event that is delivered again, or a card that is clicked again, at whatever
\* await of its first handling, starts no second task and passes on no second
\* verdict: unless the first handling failed, was cut off by a restart, or was
\* forgotten for MaxHandled later messages.
HandledOnce == \A x \in Messages \cup Approvals : done[x] > 1 => x \in excused

\* A confirmation makes one schedule at most, even over restarts, and the answer
\* that its clicks are given is true: none is made after a cancellation.
ConfirmationHonoured ==
  \A k \in Confirmations :
    /\ done[k] <= 1
    /\ final[k] = "created" => done[k] = 1
    /\ final[k] = "cancelled" => done[k] = 0
=============================================================================
