--------------------------- MODULE InboxChat_proofs ---------------------------
(***************************************************************************)
(* Theorems about FeishuChat and InboxFlow, for any numbers of messages,   *)
(* cards, tasks, next actions and deliveries: what users are asked, shown  *)
(* and promised.                                                           *)
(***************************************************************************)
EXTENDS FeishuChat, InboxFlow, TLAPS

-----------------------------------------------------------------------------
(* A Feishu chat                                                           *)

Words == {"none", "task", "reply", "patch", "last"}

\* ChatTypeOK with what the handlers await, and the messages that are remembered.
ChatTypes ==
  /\ ChatTypeOK
  /\ stage \in [Keys -> Words \cup Approvals \cup Confirmations]
  /\ recent \in Seq(Inbound)
  /\ \A k \in Confirmations : stage[k] \in {"none", "patch", "last"}

\* What was done for a key that was not excused is still known: the key is
\* handled or in flight, and its verdict is yet to come while the card is patched.
Known ==
  \A x \in Messages \cup Approvals : x \notin excused =>
    /\ done[x] <= 1
    /\ done[x] = 1 => x \in handled \cup inFlight
    /\ stage[x] = "patch" => done[x] = 0

\* The draft of a confirmation is there until the schedule is made and the card
\* is patched for the last time.
Confirmed ==
  \A k \in Confirmations :
    /\ done[k] \in {0, 1}
    /\ final[k] = "created" => done[k] = 1
    /\ final[k] = "cancelled" => done[k] = 0
    /\ k \in drafts /\ done[k] = 1 => stage[k] = "last"
    /\ stage[k] = "patch" => done[k] = 0

ChatInv == ChatTypes /\ Known /\ Confirmed

\* The keys, apart from each other and from the words.
LEMMA KeysApart ==
  /\ Messages \subseteq Keys /\ Plans \subseteq Keys /\ Approvals \subseteq Keys /\ Confirmations \subseteq Keys
  /\ Inbound \subseteq Keys /\ Messages \subseteq Inbound /\ Plans \subseteq Inbound
  /\ Messages \cap Plans = {} /\ Approvals \cap Confirmations = {}
  /\ Inbound \cap (Approvals \cup Confirmations) = {} /\ Keys \cap Words = {}
  /\ MaxHandled \in Nat \ {0} /\ MaxDeliveries \in Nat /\ MaxRestarts \in Nat
BY ChatAssumption, StageAssumption DEF Inbound, Keys, Words

\* A handling that begins ...
LEMMA ArrivesIs ==
  ASSUME ChatTypes, NEW x \in Keys, Arrives(x), NEW w \in Words \cup Approvals \cup Confirmations,
         Await(x, w), w # "none"
  PROVE  /\ x \notin handled /\ stage[x] = "none"
         /\ deliveries' \in [Keys -> 0..MaxDeliveries] /\ inFlight' \subseteq Keys
         /\ inFlight' = inFlight \cup {x} /\ stage' \in [Keys -> Words \cup Approvals \cup Confirmations]
         /\ stage'[x] = w /\ \A y \in Keys \ {x} : stage'[y] = stage[y]
         /\ \A y \in Keys : y \in inFlight' <=> stage'[y] # "none"
<1>1. x \notin handled /\ stage[x] = "none" /\ deliveries[x] < MaxDeliveries
  BY DEF Arrives, Begin, ChatTypes, ChatTypeOK
<1>2. deliveries' \in [Keys -> 0..MaxDeliveries]
  <2>1. deliveries[x] + 1 \in 0..MaxDeliveries
    BY <1>1, KeysApart DEF ChatTypes, ChatTypeOK
  <2> QED
    BY <2>1 DEF Arrives, ChatTypes, ChatTypeOK
<1>3. /\ inFlight' = inFlight \cup {x} /\ stage' \in [Keys -> Words \cup Approvals \cup Confirmations]
      /\ stage'[x] = w /\ \A y \in Keys \ {x} : stage'[y] = stage[y]
  BY DEF Arrives, Await, ChatTypes
<1>4. \A y \in Keys : y \in inFlight' <=> stage'[y] # "none"
  BY <1>3 DEF ChatTypes, ChatTypeOK
<1> QED
  BY <1>1, <1>2, <1>3, <1>4 DEF ChatTypes, ChatTypeOK

\* ... awaits something else ...
LEMMA AwaitIs ==
  ASSUME ChatTypes, NEW x \in Keys, NEW w \in Words \cup Approvals \cup Confirmations, Await(x, w),
         stage[x] # "none", w # "none", inFlight' = inFlight
  PROVE  /\ stage' \in [Keys -> Words \cup Approvals \cup Confirmations]
         /\ stage'[x] = w /\ \A y \in Keys \ {x} : stage'[y] = stage[y]
         /\ \A y \in Keys : y \in inFlight' <=> stage'[y] # "none"
<1>1. /\ stage' \in [Keys -> Words \cup Approvals \cup Confirmations]
      /\ stage'[x] = w /\ \A y \in Keys \ {x} : stage'[y] = stage[y]
  BY DEF Await, ChatTypes
<1> QED
  BY <1>1 DEF ChatTypes, ChatTypeOK

\* ... and is over.  What is forgotten is excused.
LEMMA CompleteIs ==
  ASSUME ChatTypes, NEW x \in Keys, NEW ok \in BOOLEAN, Complete(x, ok)
  PROVE  /\ handled' \subseteq Keys /\ inFlight' \subseteq Keys /\ excused' \subseteq Keys
         /\ recent' \in Seq(Inbound) /\ Len(recent') <= MaxHandled
         /\ stage' \in [Keys -> Words \cup Approvals \cup Confirmations]
         /\ stage'[x] = "none" /\ \A y \in Keys \ {x} : stage'[y] = stage[y]
         /\ \A y \in Keys : y \in inFlight' <=> stage'[y] # "none"
         /\ excused \subseteq excused'
         /\ \A y \in Keys : y \in handled \cup inFlight => y \in handled' \cup inFlight' \cup excused'
         /\ ~ok => x \in excused'
<1> DEFINE longer == IF x \in Inbound THEN Append(recent, x) ELSE recent
<1> DEFINE full == Len(longer) > MaxHandled
<1>1. /\ stage' \in [Keys -> Words \cup Approvals \cup Confirmations]
      /\ stage'[x] = "none" /\ \A y \in Keys \ {x} : stage'[y] = stage[y]
      /\ inFlight' = inFlight \ {x} /\ inFlight' \subseteq Keys
      /\ \A y \in Keys : y \in inFlight' <=> stage'[y] # "none"
  <2>1. /\ stage' = [stage EXCEPT ![x] = "none"] /\ inFlight' = inFlight \ {x}
    BY DEF Complete
  <2>2. /\ stage' \in [Keys -> Words \cup Approvals \cup Confirmations]
        /\ stage'[x] = "none" /\ \A y \in Keys \ {x} : stage'[y] = stage[y]
    BY <2>1 DEF ChatTypes, Words
  <2> QED
    BY <2>1, <2>2 DEF ChatTypes, ChatTypeOK
<1>2. longer \in Seq(Inbound) /\ Len(longer) \in Nat /\ Len(longer) <= MaxHandled + 1
  BY KeysApart DEF ChatTypes, ChatTypeOK
<1>3. full => Head(longer) \in Inbound /\ Tail(longer) \in Seq(Inbound) /\ Len(Tail(longer)) <= MaxHandled
  <2>1. full => Len(longer) > 0
    BY <1>2, KeysApart
  <2>2. Len(longer) > 0 => longer # << >>
    BY <1>2
  <2>3. longer # << >> => Head(longer) \in Inbound /\ Tail(longer) \in Seq(Inbound) /\ Len(Tail(longer)) = Len(longer) - 1
    <3> HIDE DEF longer
    <3> QED
      BY <1>2
  <2> QED
    BY <1>2, <2>1, <2>2, <2>3, KeysApart
<1>4. CASE ok
  <2>1. /\ recent' = (IF full THEN Tail(longer) ELSE longer)
        /\ handled' = (handled \cup {x}) \ (IF full THEN {Head(longer)} ELSE {})
        /\ excused' = (IF full THEN excused \cup {Head(longer)} ELSE excused)
    BY <1>4 DEF Complete
  <2> HIDE DEF longer
  <2>2. recent' \in Seq(Inbound) /\ Len(recent') <= MaxHandled
    BY <1>2, <1>3, <2>1, KeysApart
  <2>3. handled' \subseteq Keys /\ excused' \subseteq Keys /\ excused \subseteq excused'
    BY <1>3, <2>1, KeysApart DEF ChatTypes, ChatTypeOK
  <2>4. \A y \in Keys : y \in handled \cup inFlight => y \in handled' \cup inFlight' \cup excused'
    BY <1>1, <2>1
  <2> QED
    BY <1>1, <1>4, <2>2, <2>3, <2>4
<1>5. CASE ~ok
  <2>1. excused' = excused \cup {x} /\ UNCHANGED <<handled, recent>>
    BY <1>5 DEF Complete
  <2> QED
    BY <1>1, <2>1 DEF ChatTypes, ChatTypeOK
<1> QED
  BY <1>4, <1>5

\* A step in which no key of a task or verdict gets done.
LEMMA KnownNext ==
  ASSUME Known, excused \subseteq excused',
         \A x \in Messages \cup Approvals : x \notin excused' =>
           /\ done'[x] = done[x] /\ (stage'[x] = "patch" => stage[x] = "patch" \/ done[x] = 0)
           /\ x \in handled \cup inFlight => x \in handled' \cup inFlight'
  PROVE  Known'
BY DEF Known

\* A step that leaves the confirmations alone.
LEMMA ConfirmedNext ==
  ASSUME Confirmed,
         \A k \in Confirmations :
           /\ done'[k] = done[k] /\ final'[k] = final[k] /\ stage'[k] = stage[k]
           /\ k \in drafts' => k \in drafts \/ done[k] = 0
  PROVE  Confirmed'
BY DEF Confirmed

\* What is not about stages, in a step that begins or goes on with a handling.
LEMMA TypesNext ==
  ASSUME ChatTypes,
         stage' \in [Keys -> Words \cup Approvals \cup Confirmations],
         \A k \in Confirmations : stage'[k] \in {"none", "patch", "last"},
         \A y \in Keys : y \in inFlight' <=> stage'[y] # "none",
         handled' \subseteq Keys, inFlight' \subseteq Keys, excused' \subseteq Keys,
         recent' \in Seq(Inbound), Len(recent') <= MaxHandled,
         sending' \in [Approvals -> {"nobody", "reply", "inbox"}],
         shown' \subseteq card', card' \subseteq Approvals \cup Confirmations, drafts' \subseteq Confirmations,
         final' \in [Confirmations -> {"none", "created", "cancelled", "failed"}],
         approval' \in [Approvals -> {"none", "pending", "decided"}],
         done' \in [Keys -> Nat], deliveries' \in [Keys -> 0..MaxDeliveries], restarts' \in 0..MaxRestarts
  PROVE  ChatTypes'
BY DEF ChatTypes, ChatTypeOK

LEMMA SubmitStep == ASSUME ChatInv, NEW m \in Messages, Submit(m) PROVE ChatInv'
<1> USE DEF cards
<1>1. m \in Keys /\ m \notin Approvals /\ m \notin Confirmations /\ ChatTypes
  BY KeysApart DEF ChatInv
<1>2. /\ m \notin handled /\ stage[m] = "none"
      /\ deliveries' \in [Keys -> 0..MaxDeliveries] /\ inFlight' \subseteq Keys
      /\ inFlight' = inFlight \cup {m} /\ stage' \in [Keys -> Words \cup Approvals \cup Confirmations]
      /\ stage'[m] = "task" /\ \A y \in Keys \ {m} : stage'[y] = stage[y]
      /\ \A y \in Keys : y \in inFlight' <=> stage'[y] # "none"
  <2>1. Arrives(m) /\ Await(m, "task") /\ "task" \in Words
    BY DEF Submit, Words
  <2> QED
    BY <1>1, <2>1, ArrivesIs
<1>3. /\ done' \in [Keys -> Nat] /\ done'[m] = done[m] + 1 /\ \A y \in Keys \ {m} : done'[y] = done[y]
      /\ UNCHANGED <<handled, recent, sending, shown, card, drafts, final, approval, restarts, excused>>
  BY <1>1 DEF Submit, ChatTypes, ChatTypeOK
<1>4. m \notin inFlight /\ done[m] \in Nat
  BY <1>1, <1>2 DEF ChatTypes, ChatTypeOK
<1>5. ChatTypes'
  <2>1. \A k \in Confirmations : stage'[k] \in {"none", "patch", "last"}
    BY <1>1, <1>2, KeysApart DEF ChatTypes
  <2> QED
    BY <1>1, <1>2, <1>3, <2>1, TypesNext DEF ChatTypes, ChatTypeOK
<1>6. Known'
  <2>1. m \notin excused => done[m] = 0
    BY <1>2, <1>4 DEF ChatInv, Known
  <2>2. \A x \in (Messages \cup Approvals) \ {m} : x \in Keys
    BY KeysApart
  <2> QED
    BY <1>2, <1>3, <2>1, <2>2 DEF ChatInv, Known
<1>7. Confirmed'
  <2>1. \A k \in Confirmations : k \in Keys \ {m}
    BY <1>1, KeysApart
  <2> QED
    BY <1>2, <1>3, <2>1, ConfirmedNext DEF ChatInv
<1> QED
  BY <1>5, <1>6, <1>7 DEF ChatInv

\* Steps of a handler that only await something else.
LEMMA GoesOn ==
  ASSUME ChatInv, NEW x \in Messages \cup Approvals, NEW w \in {"reply"} \cup Approvals, Await(x, w),
         stage[x] # "none",
         UNCHANGED <<handled, inFlight, recent, shown, card, drafts, final, done, deliveries, restarts, excused>>,
         sending' \in [Approvals -> {"nobody", "reply", "inbox"}],
         approval' \in [Approvals -> {"none", "pending", "decided"}]
  PROVE  ChatInv'
<1>1. x \in Keys /\ x \notin Confirmations /\ w \in Words \cup Approvals \cup Confirmations /\ w \notin {"none", "patch"}
      /\ ChatTypes
  BY KeysApart DEF ChatInv, Words
<1>2. /\ stage' \in [Keys -> Words \cup Approvals \cup Confirmations]
      /\ stage'[x] = w /\ \A y \in Keys \ {x} : stage'[y] = stage[y]
      /\ \A y \in Keys : y \in inFlight' <=> stage'[y] # "none"
  BY <1>1, AwaitIs
<1>3. ChatTypes'
  <2>1. \A k \in Confirmations : stage'[k] \in {"none", "patch", "last"}
    BY <1>1, <1>2, KeysApart DEF ChatTypes
  <2> QED
    BY <1>1, <1>2, <2>1, TypesNext DEF ChatTypes, ChatTypeOK
<1>4. Known'
  <2>1. \A y \in Messages \cup Approvals : stage'[y] = "patch" => stage[y] = "patch"
    BY <1>1, <1>2, KeysApart
  <2> QED
    BY <2>1, KnownNext DEF ChatInv
<1>5. Confirmed'
  <2>1. \A k \in Confirmations : stage'[k] = stage[k]
    BY <1>1, <1>2, KeysApart
  <2> QED
    BY <2>1, ConfirmedNext DEF ChatInv
<1> QED
  BY <1>3, <1>4, <1>5 DEF ChatInv

\* Steps that end the handling of a message or of an approval.
LEMMA ChatEnds ==
  ASSUME ChatInv, NEW x \in Keys \ Confirmations, NEW ok \in BOOLEAN, Complete(x, ok),
         \/ done' = done
         \/ x \in Approvals /\ ~ok /\ done' = [done EXCEPT ![x] = @ + 1],
         UNCHANGED <<drafts, final, deliveries, restarts>>,
         sending' \in [Approvals -> {"nobody", "reply", "inbox"}],
         shown' \subseteq card', card' \subseteq Approvals \cup Confirmations,
         approval' \in [Approvals -> {"none", "pending", "decided"}]
  PROVE  ChatInv'
<1>1. ChatTypes /\ done \in [Keys -> Nat]
  BY DEF ChatInv, ChatTypes, ChatTypeOK
<1>2. /\ handled' \subseteq Keys /\ inFlight' \subseteq Keys /\ excused' \subseteq Keys
      /\ recent' \in Seq(Inbound) /\ Len(recent') <= MaxHandled
      /\ stage' \in [Keys -> Words \cup Approvals \cup Confirmations]
      /\ stage'[x] = "none" /\ \A y \in Keys \ {x} : stage'[y] = stage[y]
      /\ \A y \in Keys : y \in inFlight' <=> stage'[y] # "none"
      /\ excused \subseteq excused'
      /\ \A y \in Keys : y \in handled \cup inFlight => y \in handled' \cup inFlight' \cup excused'
      /\ ~ok => x \in excused'
  BY <1>1, CompleteIs
<1>3. /\ done' \in [Keys -> Nat] /\ \A y \in Keys \ {x} : done'[y] = done[y]
      /\ x \notin excused' => done'[x] = done[x]
  BY <1>1, <1>2
<1>4. ChatTypes'
  <2>1. \A k \in Confirmations : stage'[k] \in {"none", "patch", "last"}
    BY <1>1, <1>2, KeysApart DEF ChatTypes
  <2> QED
    BY <1>1, <1>2, <1>3, <2>1, TypesNext DEF ChatTypes, ChatTypeOK
<1>5. Known'
  <2>1. \A y \in Messages \cup Approvals : y \notin excused' =>
          /\ done'[y] = done[y] /\ (stage'[y] = "patch" => stage[y] = "patch")
          /\ y \in handled \cup inFlight => y \in handled' \cup inFlight'
    BY <1>2, <1>3, KeysApart
  <2> QED
    BY <1>2, <2>1, KnownNext DEF ChatInv
<1>6. Confirmed'
  <2>1. \A k \in Confirmations : k \in Keys \ {x}
    BY KeysApart
  <2> QED
    BY <1>2, <1>3, <2>1, ConfirmedNext DEF ChatInv
<1> QED
  BY <1>4, <1>5, <1>6 DEF ChatInv

LEMMA TaskReturnsStep == ASSUME ChatInv, NEW m \in Messages, TaskReturns(m) PROVE ChatInv'
<1>1. approval' \in [Approvals -> {"none", "pending", "decided"}]
  BY DEF TaskReturns, ChatInv, ChatTypes, ChatTypeOK
<1>2. sending' \in [Approvals -> {"nobody", "reply", "inbox"}]
  BY DEF TaskReturns, cards, ChatInv, ChatTypes, ChatTypeOK
<1> QED
  BY <1>1, <1>2, GoesOn DEF TaskReturns, memory, cards

LEMMA TaskThrowsStep == ASSUME ChatInv, NEW m \in Messages, TaskThrows(m) PROVE ChatInv'
<1>1. m \in Keys \ Confirmations
  BY KeysApart
<1> QED
  BY <1>1, ChatEnds DEF TaskThrows, cards, ChatInv, ChatTypes, ChatTypeOK

LEMMA ReplyStep == ASSUME ChatInv, NEW x \in Messages \cup Approvals, Reply(x) PROVE ChatInv'
<1>1. x \in Keys \ Confirmations
  BY KeysApart
<1>2. UNCHANGED <<shown, card, drafts, final, approval, done, deliveries, restarts>> /\ stage[x] = "reply"
  BY DEF Reply
<1>3. ASSUME NEW ok \in BOOLEAN, Complete(x, ok), sending' = sending PROVE ChatInv'
  BY <1>1, <1>2, <1>3, ChatEnds DEF ChatInv, ChatTypes, ChatTypeOK
<1>4. ASSUME NEW a \in Approvals, sending' = [sending EXCEPT ![a] = "reply"], Await(x, a),
             UNCHANGED <<memory, excused>>
      PROVE  ChatInv'
  <2>1. sending' \in [Approvals -> {"nobody", "reply", "inbox"}]
    BY <1>4 DEF ChatInv, ChatTypes, ChatTypeOK
  <2>2. approval' \in [Approvals -> {"none", "pending", "decided"}]
    BY <1>2 DEF ChatInv, ChatTypes, ChatTypeOK
  <2> QED
    BY <1>2, <1>4, <2>1, <2>2, GoesOn DEF memory
<1> QED
  BY <1>3, <1>4 DEF Reply

LEMMA InboxEventStep == ASSUME ChatInv, NEW a \in Approvals, InboxEvent(a) PROVE ChatInv'
<1>1. /\ approval' \in [Approvals -> {"none", "pending", "decided"}]
      /\ sending' \in [Approvals -> {"nobody", "reply", "inbox"}]
      /\ UNCHANGED <<handled, inFlight, recent, stage, shown, card, drafts, final, done, deliveries, restarts, excused>>
  BY DEF InboxEvent, memory, ChatInv, ChatTypes, ChatTypeOK
<1>2. ChatTypes'
  BY <1>1 DEF ChatInv, ChatTypes, ChatTypeOK
<1> QED
  BY <1>1, <1>2 DEF ChatInv, Known, Confirmed

LEMMA CardSentStep == ASSUME ChatInv, NEW a \in Approvals, NEW ok \in BOOLEAN, CardSent(a, ok) PROVE ChatInv'
<1>1. /\ sending' \in [Approvals -> {"nobody", "reply", "inbox"}]
      /\ shown' \subseteq card' /\ card' \subseteq Approvals \cup Confirmations
      /\ UNCHANGED <<drafts, final, approval, done, deliveries, restarts>>
      /\ approval' \in [Approvals -> {"none", "pending", "decided"}]
  BY DEF CardSent, ChatInv, ChatTypes, ChatTypeOK
<1>2. ASSUME NEW x \in Messages \cup Approvals, Complete(x, ok) PROVE ChatInv'
  <2>1. x \in Keys \ Confirmations
    BY KeysApart
  <2> QED
    BY <1>1, <1>2, <2>1, ChatEnds
<1>3. CASE UNCHANGED <<memory, stage, excused>>
  <2>1. UNCHANGED <<handled, inFlight, recent, stage, excused>>
    BY <1>3 DEF memory
  <2>2. ChatTypes'
    BY <1>1, <2>1 DEF ChatInv, ChatTypes, ChatTypeOK
  <2> QED
    BY <1>1, <2>1, <2>2 DEF ChatInv, Known, Confirmed
<1> QED
  BY <1>2, <1>3 DEF CardSent

LEMMA ClickApprovalStep == ASSUME ChatInv, NEW a \in Approvals, ClickApproval(a) PROVE ChatInv'
<1>1. a \in Keys /\ a \notin Confirmations /\ ChatTypes
  BY KeysApart DEF ChatInv
<1>2. /\ a \notin handled /\ stage[a] = "none"
      /\ deliveries' \in [Keys -> 0..MaxDeliveries] /\ inFlight' \subseteq Keys
      /\ inFlight' = inFlight \cup {a} /\ stage' \in [Keys -> Words \cup Approvals \cup Confirmations]
      /\ stage'[a] = "patch" /\ \A y \in Keys \ {a} : stage'[y] = stage[y]
      /\ \A y \in Keys : y \in inFlight' <=> stage'[y] # "none"
  <2>1. Arrives(a) /\ Await(a, "patch") /\ "patch" \in Words
    BY DEF ClickApproval, Words
  <2> QED
    BY <1>1, <2>1, ArrivesIs
<1>3. UNCHANGED <<handled, recent, sending, shown, card, drafts, final, approval, done, restarts, excused>>
  BY DEF ClickApproval, cards
<1>4. ChatTypes'
  <2>1. \A k \in Confirmations : stage'[k] \in {"none", "patch", "last"}
    BY <1>1, <1>2, KeysApart DEF ChatTypes
  <2> QED
    BY <1>1, <1>2, <1>3, <2>1, TypesNext DEF ChatTypes, ChatTypeOK
<1>5. Known'
  <2>1. a \notin excused => done[a] = 0
    <3>1. a \notin inFlight /\ done[a] \in Nat
      BY <1>1, <1>2 DEF ChatTypes, ChatTypeOK
    <3> QED
      BY <1>2, <3>1 DEF ChatInv, Known
  <2>2. \A x \in Messages \cup Approvals : stage'[x] = "patch" => stage[x] = "patch" \/ x = a
    BY <1>2, KeysApart
  <2> QED
    BY <1>2, <1>3, <2>1, <2>2, KnownNext DEF ChatInv
<1>6. Confirmed'
  <2>1. \A k \in Confirmations : stage'[k] = stage[k]
    BY <1>1, <1>2, KeysApart
  <2> QED
    BY <1>3, <2>1, ConfirmedNext DEF ChatInv
<1> QED
  BY <1>4, <1>5, <1>6 DEF ChatInv

LEMMA PassVerdictStep == ASSUME ChatInv, NEW a \in Approvals, PassVerdict(a) PROVE ChatInv'
<1>1. a \in Keys /\ a \notin Confirmations /\ ChatTypes
  BY KeysApart DEF ChatInv
<1>2. /\ stage[a] = "patch" /\ done' = [done EXCEPT ![a] = @ + 1]
      /\ UNCHANGED <<sending, shown, card, drafts, final, deliveries, restarts>>
      /\ approval' \in [Approvals -> {"none", "pending", "decided"}]
      /\ \/ Await(a, "reply") /\ UNCHANGED <<handled, inFlight, recent, excused>>
         \/ Complete(a, FALSE)
  BY <1>1 DEF PassVerdict, cards, memory, ChatTypes, ChatTypeOK
<1>3. CASE Complete(a, FALSE)
  BY <1>1, <1>2, <1>3, ChatEnds DEF ChatTypes, ChatTypeOK
<1>4. CASE Await(a, "reply") /\ UNCHANGED <<handled, inFlight, recent, excused>>
  <2>1. /\ stage' \in [Keys -> Words \cup Approvals \cup Confirmations]
        /\ stage'[a] = "reply" /\ \A y \in Keys \ {a} : stage'[y] = stage[y]
        /\ \A y \in Keys : y \in inFlight' <=> stage'[y] # "none"
    <3>1. "reply" \in Words
      BY DEF Words
    <3> QED
      BY <1>1, <1>2, <1>4, <3>1, AwaitIs
  <2>2. done' \in [Keys -> Nat] /\ done'[a] = done[a] + 1 /\ \A y \in Keys \ {a} : done'[y] = done[y]
    BY <1>1, <1>2 DEF ChatTypes, ChatTypeOK
  <2>3. ChatTypes'
    <3>1. \A k \in Confirmations : stage'[k] \in {"none", "patch", "last"}
      BY <1>1, <2>1, KeysApart DEF ChatTypes
    <3> QED
      BY <1>1, <1>2, <1>4, <2>1, <2>2, <3>1, TypesNext DEF ChatTypes, ChatTypeOK
  <2>4. Known'
    <3>1. a \notin excused => done[a] = 0
      BY <1>2 DEF ChatInv, Known
    <3>2. a \in inFlight
      BY <1>1, <1>2 DEF ChatTypes, ChatTypeOK
    <3>3. \A x \in Messages \cup Approvals : x \in Keys
      BY KeysApart
    <3> QED
      BY <1>4, <2>1, <2>2, <3>1, <3>2, <3>3 DEF ChatInv, Known
  <2>5. Confirmed'
    <3>1. \A k \in Confirmations : k \in Keys \ {a}
      BY <1>1, KeysApart
    <3> QED
      BY <1>2, <2>1, <2>2, <3>1, ConfirmedNext DEF ChatInv
  <2> QED
    BY <2>3, <2>4, <2>5 DEF ChatInv
<1> QED
  BY <1>2, <1>3, <1>4

LEMMA ProposeStep == ASSUME ChatInv, NEW p \in Plans, NEW k \in Confirmations, Propose(p, k) PROVE ChatInv'
<1>1. p \in Keys /\ p \notin Messages \cup Approvals \cup Confirmations /\ k \in Keys /\ k \notin Words /\ ChatTypes
  BY KeysApart DEF ChatInv
<1>2. /\ deliveries' \in [Keys -> 0..MaxDeliveries] /\ inFlight' \subseteq Keys
      /\ inFlight' = inFlight \cup {p} /\ stage' \in [Keys -> Words \cup Approvals \cup Confirmations]
      /\ stage'[p] = k /\ \A y \in Keys \ {p} : stage'[y] = stage[y]
      /\ \A y \in Keys : y \in inFlight' <=> stage'[y] # "none"
  <2>1. Arrives(p) /\ Await(p, k) /\ k # "none"
    BY <1>1 DEF Propose, Words
  <2> QED
    BY <1>1, <2>1, ArrivesIs
<1>3. /\ done[k] = 0 /\ drafts' = drafts \cup {k}
      /\ UNCHANGED <<handled, recent, sending, shown, card, final, approval, done, restarts, excused>>
  BY DEF Propose, cards
<1>4. ChatTypes'
  <2>1. \A q \in Confirmations : stage'[q] \in {"none", "patch", "last"}
    BY <1>1, <1>2, KeysApart DEF ChatTypes
  <2> QED
    BY <1>1, <1>2, <1>3, <2>1, TypesNext DEF ChatTypes, ChatTypeOK
<1>5. Known'
  <2>1. \A x \in Messages \cup Approvals : stage'[x] = stage[x]
    BY <1>1, <1>2, KeysApart
  <2> QED
    BY <1>2, <1>3, <2>1, KnownNext DEF ChatInv
<1>6. Confirmed'
  <2>1. \A q \in Confirmations : stage'[q] = stage[q]
    BY <1>1, <1>2, KeysApart
  <2> QED
    BY <1>3, <2>1, ConfirmedNext DEF ChatInv
<1> QED
  BY <1>4, <1>5, <1>6 DEF ChatInv

LEMMA ProposedStep == ASSUME ChatInv, NEW p \in Plans, NEW ok \in BOOLEAN, Proposed(p, ok) PROVE ChatInv'
<1>1. p \in Keys \ Confirmations
  BY KeysApart
<1>2. /\ Complete(p, ok) /\ UNCHANGED <<sending, shown, drafts, final, approval, done, deliveries, restarts>>
      /\ shown' \subseteq card' /\ card' \subseteq Approvals \cup Confirmations
  BY DEF Proposed, ChatInv, ChatTypes, ChatTypeOK
<1> QED
  BY <1>1, <1>2, ChatEnds DEF ChatInv, ChatTypes, ChatTypeOK

LEMMA ClickConfirmationStep ==
  ASSUME ChatInv, NEW k \in Confirmations, NEW decision \in {"confirm", "cancel"}, ClickConfirmation(k, decision)
  PROVE  ChatInv'
<1>1. k \in Keys /\ k \notin Messages \cup Approvals /\ ChatTypes
  BY KeysApart DEF ChatInv
<1>2. UNCHANGED <<handled, recent, sending, shown, card, drafts, approval, done, restarts, excused>>
  BY DEF ClickConfirmation, cards
<1>3. PICK w \in {"patch", "last"} :
        /\ Arrives(k) /\ Await(k, w)
        /\ \/ w = "patch" /\ k \in drafts /\ final' = final
           \/ w = "last" /\ final' = [final EXCEPT ![k] = IF k \in drafts THEN "cancelled" ELSE "failed"]
  BY DEF ClickConfirmation
<1>4. /\ stage[k] = "none" /\ deliveries' \in [Keys -> 0..MaxDeliveries] /\ inFlight' \subseteq Keys
      /\ inFlight' = inFlight \cup {k} /\ stage' \in [Keys -> Words \cup Approvals \cup Confirmations]
      /\ stage'[k] = w /\ \A y \in Keys \ {k} : stage'[y] = stage[y]
      /\ \A y \in Keys : y \in inFlight' <=> stage'[y] # "none"
  <2>1. w \in Words \cup Approvals \cup Confirmations /\ w # "none"
    BY DEF Words
  <2> QED
    BY <1>1, <1>3, <2>1, ArrivesIs
<1>5. /\ final' \in [Confirmations -> {"none", "created", "cancelled", "failed"}]
      /\ \A q \in Confirmations \ {k} : final'[q] = final[q]
      /\ w = "patch" => k \in drafts /\ final'[k] = final[k]
      /\ w = "last" => final'[k] = IF k \in drafts THEN "cancelled" ELSE "failed"
  BY <1>1, <1>3 DEF ChatTypes, ChatTypeOK
<1>6. ChatTypes'
  <2>1. \A q \in Confirmations : stage'[q] \in {"none", "patch", "last"}
    BY <1>1, <1>4, KeysApart DEF ChatTypes
  <2> QED
    BY <1>1, <1>2, <1>4, <1>5, <2>1, TypesNext DEF ChatTypes, ChatTypeOK
<1>7. Known'
  <2>1. \A x \in Messages \cup Approvals : stage'[x] = stage[x]
    BY <1>1, <1>4, KeysApart
  <2> QED
    BY <1>2, <1>4, <2>1, KnownNext DEF ChatInv
<1>8. Confirmed'
  <2>1. k \in drafts => done[k] = 0
    BY <1>4 DEF ChatInv, Confirmed
  <2>2. \A q \in Confirmations \ {k} : stage'[q] = stage[q]
    BY <1>4, KeysApart
  <2> QED
    BY <1>2, <1>4, <1>5, <2>1, <2>2 DEF ChatInv, Confirmed
<1> QED
  BY <1>6, <1>7, <1>8 DEF ChatInv

LEMMA CreateScheduleStep ==
  ASSUME ChatInv, NEW k \in Confirmations, NEW ok \in BOOLEAN, CreateSchedule(k, ok)
  PROVE  ChatInv'
<1>1. k \in Keys /\ k \notin Messages \cup Approvals /\ ChatTypes
  BY KeysApart DEF ChatInv
<1>2. /\ UNCHANGED <<handled, inFlight, recent, sending, shown, card, drafts, approval, deliveries, restarts, excused>>
      /\ stage[k] = "patch" /\ Await(k, "last")
  BY DEF CreateSchedule, cards, memory
<1>3. /\ stage' \in [Keys -> Words \cup Approvals \cup Confirmations]
      /\ stage'[k] = "last" /\ \A y \in Keys \ {k} : stage'[y] = stage[y]
      /\ \A y \in Keys : y \in inFlight' <=> stage'[y] # "none"
  <2>1. "last" \in Words
    BY DEF Words
  <2> QED
    BY <1>1, <1>2, <2>1, AwaitIs
<1>4. /\ done' \in [Keys -> Nat] /\ \A y \in Keys \ {k} : done'[y] = done[y]
      /\ done'[k] = IF ok THEN done[k] + 1 ELSE done[k]
      /\ final' \in [Confirmations -> {"none", "created", "cancelled", "failed"}]
      /\ final'[k] = (IF ok THEN "created" ELSE "failed") /\ \A q \in Confirmations \ {k} : final'[q] = final[q]
  BY <1>1 DEF CreateSchedule, ChatTypes, ChatTypeOK
<1>5. ChatTypes'
  <2>1. \A q \in Confirmations : stage'[q] \in {"none", "patch", "last"}
    BY <1>1, <1>3, KeysApart DEF ChatTypes
  <2> QED
    BY <1>1, <1>2, <1>3, <1>4, <2>1, TypesNext DEF ChatTypes, ChatTypeOK
<1>6. Known'
  <2>1. \A x \in Messages \cup Approvals : x \in Keys \ {k}
    BY <1>1, KeysApart
  <2> QED
    BY <1>2, <1>3, <1>4, <2>1, KnownNext DEF ChatInv
<1>7. Confirmed'
  <2>1. done[k] = 0
    BY <1>2 DEF ChatInv, Confirmed
  <2>2. \A q \in Confirmations \ {k} : q \in Keys \ {k}
    BY KeysApart
  <2> QED
    BY <1>2, <1>3, <1>4, <2>1, <2>2 DEF ChatInv, Confirmed
<1> QED
  BY <1>5, <1>6, <1>7 DEF ChatInv

LEMMA LastPatchStep == ASSUME ChatInv, NEW k \in Confirmations, LastPatch(k) PROVE ChatInv'
<1>1. k \in Keys /\ k \notin Messages \cup Approvals /\ ChatTypes
  BY KeysApart DEF ChatInv
<1>2. /\ stage[k] = "last" /\ drafts' = drafts \ {k} /\ Complete(k, TRUE)
      /\ UNCHANGED <<sending, shown, card, final, approval, done, deliveries, restarts>>
  BY DEF LastPatch, cards
<1>3. /\ handled' \subseteq Keys /\ inFlight' \subseteq Keys /\ excused' \subseteq Keys
      /\ recent' \in Seq(Inbound) /\ Len(recent') <= MaxHandled
      /\ stage' \in [Keys -> Words \cup Approvals \cup Confirmations]
      /\ stage'[k] = "none" /\ \A y \in Keys \ {k} : stage'[y] = stage[y]
      /\ \A y \in Keys : y \in inFlight' <=> stage'[y] # "none"
      /\ excused \subseteq excused'
      /\ \A y \in Keys : y \in handled \cup inFlight => y \in handled' \cup inFlight' \cup excused'
  BY <1>1, <1>2, CompleteIs
<1>4. ChatTypes'
  <2>1. \A q \in Confirmations : stage'[q] \in {"none", "patch", "last"}
    BY <1>1, <1>3, KeysApart DEF ChatTypes
  <2> QED
    BY <1>1, <1>2, <1>3, <2>1, TypesNext DEF ChatTypes, ChatTypeOK
<1>5. Known'
  <2>1. \A x \in Messages \cup Approvals : x \in Keys \ {k}
    BY <1>1, KeysApart
  <2> QED
    BY <1>2, <1>3, <2>1, KnownNext DEF ChatInv
<1>6. Confirmed'
  <2>1. \A q \in Confirmations \ {k} : q \in Keys \ {k}
    BY KeysApart
  <2> QED
    BY <1>2, <1>3, <2>1 DEF ChatInv, Confirmed
<1> QED
  BY <1>4, <1>5, <1>6 DEF ChatInv

LEMMA RestartStep == ASSUME ChatInv, Restart PROVE ChatInv'
<1>1. /\ handled' = {} /\ inFlight' = {} /\ recent' = <<>> /\ stage' = [x \in Keys |-> "none"]
      /\ sending' = [a \in Approvals |-> "nobody"] /\ shown' = {} /\ drafts' = {}
      /\ final' = [k \in Confirmations |-> "none"] /\ excused' = Keys
      /\ UNCHANGED <<approval, card, done, deliveries>> /\ restarts' \in 0..MaxRestarts
  BY KeysApart DEF Restart, ChatInv, ChatTypes, ChatTypeOK
<1>2. ChatTypes'
  <2>1. "none" \in Words /\ Len(recent') <= MaxHandled /\ recent' \in Seq(Inbound) /\ Confirmations \subseteq Keys
    BY <1>1, KeysApart DEF Words
  <2> QED
    BY <1>1, <2>1 DEF ChatInv, ChatTypes, ChatTypeOK
<1>3. Known'
  BY <1>1, KeysApart DEF Known
<1>4. Confirmed'
  <2>1. Confirmations \subseteq Keys
    BY KeysApart
  <2> QED
    BY <1>1, <2>1 DEF ChatInv, Confirmed
<1> QED
  BY <1>2, <1>3, <1>4 DEF ChatInv

LEMMA ChatBegins == ChatInit => ChatInv
<1> SUFFICES ASSUME ChatInit PROVE ChatInv
  OBVIOUS
<1>1. ChatTypes
  <2>1. "none" \in Words /\ recent \in Seq(Inbound) /\ Len(recent) <= MaxHandled /\ Confirmations \subseteq Keys
    BY KeysApart DEF ChatInit, Words
  <2> QED
    BY <2>1, KeysApart DEF ChatInit, ChatTypes, ChatTypeOK
<1>2. Messages \subseteq Keys /\ Approvals \subseteq Keys /\ Confirmations \subseteq Keys
  BY KeysApart
<1>3. Known /\ Confirmed
  BY <1>2 DEF ChatInit, Known, Confirmed
<1> QED
  BY <1>1, <1>3 DEF ChatInv

LEMMA ChatGoesOn == ChatInv /\ [ChatNext]_chatVars => ChatInv'
<1> SUFFICES ASSUME ChatInv, [ChatNext]_chatVars PROVE ChatInv'
  OBVIOUS
<1>1. CASE UNCHANGED chatVars
  <2>1. UNCHANGED <<handled, inFlight, recent, stage, sending, shown, drafts, final, approval, card, done,
                    deliveries, restarts, excused>>
    BY <1>1 DEF chatVars
  <2>2. ChatTypes'
    BY <2>1 DEF ChatInv, ChatTypes, ChatTypeOK
  <2> QED
    BY <2>1, <2>2 DEF ChatInv, Known, Confirmed
<1> QED
  BY <1>1, SubmitStep, TaskReturnsStep, TaskThrowsStep, ReplyStep, InboxEventStep, ClickApprovalStep,
     CardSentStep, PassVerdictStep, ProposeStep, ProposedStep, ClickConfirmationStep, CreateScheduleStep,
     LastPatchStep, RestartStep DEF ChatNext

LEMMA ChatHolds == ChatSpec => []ChatInv
BY ChatBegins, ChatGoesOn, PTL DEF ChatSpec

\* Every variable of the adapter has its type, and the keys in flight are those
\* whose handlers await something (begin...Handling, complete...Handling).
THEOREM ChatTypeCorrect == ChatSpec => []ChatTypeOK
<1>1. ChatInv => ChatTypeOK
  BY DEF ChatInv, ChatTypes
<1> QED
  BY <1>1, ChatHolds, PTL

\* An event that is delivered again, or a card that is clicked again, at whatever
\* await of its first handling, starts no second task and passes on no second
\* verdict: unless the first handling failed, was cut off by a restart or was
\* forgotten for MaxHandled later messages (FeishuAdapter).
THEOREM EventsHandledOnce == ChatSpec => []HandledOnce
<1>1. ChatInv => HandledOnce
  <2> SUFFICES ASSUME ChatInv, NEW x \in Messages \cup Approvals, done[x] > 1, x \notin excused PROVE FALSE
    BY DEF HandledOnce
  <2>1. done[x] \in Nat /\ done[x] <= 1
    BY KeysApart DEF ChatInv, ChatTypes, ChatTypeOK, Known
  <2> QED
    BY <2>1
<1> QED
  BY <1>1, ChatHolds, PTL

\* A confirmation makes one schedule at most, even over restarts, and the answer
\* that its clicks are given is true: a draft that was confirmed is gone once the
\* card was patched for the last time (handleScheduleConfirmation).
THEOREM ConfirmationsHonoured == ChatSpec => []ConfirmationHonoured
<1>1. ChatInv => ConfirmationHonoured
  BY DEF ChatInv, Confirmed, ConfirmationHonoured
<1> QED
  BY <1>1, ChatHolds, PTL

-----------------------------------------------------------------------------
(* A session's desk                                                        *)

ActionRows == [status : ActionStatus, task : Tasks \cup {NoTask}, commitment : Commitments \cup {NoCommitment}]
CommitmentRows == [status : {"none", "open", "blocked", "completed", "cancelled"}, task : Tasks \cup {NoTask}]
ItemRows == [status : ItemStatus, task : Tasks \cup {NoTask}, awaits : BOOLEAN]
Desks == [action : [Actions -> ActionRows], commitment : [Commitments -> CommitmentRows], item : [ItemKeys -> ItemRows]]

\* A blocked action has an item, and the item that shows a block names the task
\* of the action, by which it is found when the block is over; unless refiled.
Blocks(d, R) ==
  \A n \in Actions :
    LET i == d.item[BlockedAction(n)]
    IN /\ d.action[n].status = "blocked" => i.status # "none"
       /\ i.status = "pending" /\ n \notin R => d.action[n].status = "blocked" /\ i.task = d.action[n].task

DeskTypes ==
  /\ desk \in Desks
  /\ phase \in [Tasks -> {"new", "running", "waiting", "ended"}]
  /\ asks \in [Tasks -> 0..MaxApprovals] /\ edits \in 0..MaxEdits /\ refiled \subseteq Actions

DeskInv == DeskTypes /\ Blocks(desk, refiled) /\ NoDecisionWithoutApproval

\* What a step does to a desk besides: no approval asks again, ...
NoneAsks(d, e) ==
  \A t \in Tasks, i \in 1..MaxApprovals :
    e.item[ApprovalItem(t, i)].status = "pending" => d.item[ApprovalItem(t, i)].status = "pending"

\* ... an action that had no item gets none, ...
Silent(d, e) ==
  \A n \in Actions : d.item[BlockedAction(n)].status = "none" => e.item[BlockedAction(n)].status = "none"

\* ... or gets one that is still there after the step.
Shown(d, e) ==
  \A n \in Actions :
    d.item[BlockedAction(n)].status = "none" => e.item[BlockedAction(n)].status \in {"none", "pending"}

Quietly(d, e, R) == e \in Desks /\ Blocks(e, R) /\ NoneAsks(d, e) /\ Silent(d, e)
Openly(d, e, R)  == e \in Desks /\ Blocks(e, R) /\ NoneAsks(d, e) /\ Shown(d, e)

LEMMA QuietlyOn ==
  ASSUME NEW R, NEW d, NEW e, NEW f, Quietly(d, e, R)
  PROVE  /\ Quietly(e, f, R) => Quietly(d, f, R)
         /\ Openly(e, f, R) => Openly(d, f, R)
         /\ Openly(d, e, R)
BY DEF Quietly, Openly, NoneAsks, Silent, Shown

\* The keys of items are apart.
LEMMA ItemKeysApart ==
  /\ BlockedKeys \subseteq ItemKeys
  /\ \A n \in Actions : BlockedAction(n) \in BlockedKeys
  /\ \A c \in Commitments : BlockedCommitment(c) \in BlockedKeys
  /\ \A t \in Tasks, i \in 1..MaxApprovals :
       ApprovalItem(t, i) \in ItemKeys /\ ApprovalItem(t, i) \notin BlockedKeys
  /\ \A n, m \in Actions : BlockedAction(n) = BlockedAction(m) => n = m
  /\ \A n \in Actions, c \in Commitments : BlockedAction(n) # BlockedCommitment(c)
  /\ \A t, u \in Tasks, i, j \in 1..MaxApprovals :
       ApprovalItem(t, i) = ApprovalItem(u, j) => t = u /\ i = j
BY DEF BlockedKeys, ItemKeys, BlockedAction, BlockedCommitment, ApprovalItem

LEMMA DeskParts ==
  ASSUME NEW d \in Desks
  PROVE  /\ d.action \in [Actions -> ActionRows] /\ d.commitment \in [Commitments -> CommitmentRows]
         /\ d.item \in [ItemKeys -> ItemRows]
         /\ d = [action |-> d.action, commitment |-> d.commitment, item |-> d.item]
BY DEF Desks

LEMMA NotifyIs ==
  ASSUME NEW d \in Desks, NEW k \in ItemKeys, NEW t \in Tasks \cup {NoTask}, NEW awaits \in BOOLEAN
  PROVE  /\ Notify(d, k, t, awaits) \in Desks
         /\ Notify(d, k, t, awaits).action = d.action
         /\ \A j \in ItemKeys \ {k} : Notify(d, k, t, awaits).item[j] = d.item[j]
         /\ d.item[k].status # "none" => Notify(d, k, t, awaits).item[k] = d.item[k]
         /\ d.item[k].status = "none"
              => Notify(d, k, t, awaits).item[k] = [status |-> "pending", task |-> t, awaits |-> awaits]
<1>1. CASE d.item[k].status # "none"
  BY <1>1 DEF Notify
<1>2. CASE d.item[k].status = "none"
  <2> DEFINE row == [status |-> "pending", task |-> t, awaits |-> awaits]
  <2>1. Notify(d, k, t, awaits) = [action |-> d.action, commitment |-> d.commitment, item |-> [d.item EXCEPT ![k] = row]]
    BY <1>2, DeskParts DEF Notify, Desks
  <2>2. row \in ItemRows
    BY DEF ItemRows, ItemStatus
  <2>3. [d.item EXCEPT ![k] = row] \in [ItemKeys -> ItemRows]
    BY <2>2, DeskParts
  <2> QED
    BY <1>2, <2>1, <2>3, DeskParts DEF Desks
<1> QED
  BY <1>1, <1>2

LEMMA CloseIs ==
  ASSUME NEW d \in Desks, NEW K
  PROVE  /\ CloseItems(d, K) \in Desks
         /\ CloseItems(d, K).action = d.action
         /\ \A j \in ItemKeys : /\ CloseItems(d, K).item[j].task = d.item[j].task
                                /\ j \in K => CloseItems(d, K).item[j].status # "pending"
                                /\ j \notin K => CloseItems(d, K).item[j] = d.item[j]
                                /\ d.item[j].status # "pending" => CloseItems(d, K).item[j] = d.item[j]
                                /\ d.item[j].status = "pending"
                                     => CloseItems(d, K).item[j].status \in {"pending", "closed"}
<1> DEFINE closed == [k \in ItemKeys |-> IF k \in K /\ d.item[k].status = "pending"
                                         THEN [d.item[k] EXCEPT !.status = "closed"] ELSE d.item[k]]
<1>1. CloseItems(d, K) = [action |-> d.action, commitment |-> d.commitment, item |-> closed]
  BY DeskParts DEF CloseItems, Desks
<1>2. \A k \in ItemKeys : /\ closed[k] \in ItemRows /\ closed[k].task = d.item[k].task
                          /\ k \in K /\ d.item[k].status = "pending" => closed[k].status = "closed"
                          /\ ~(k \in K /\ d.item[k].status = "pending") => closed[k] = d.item[k]
  BY DeskParts DEF ItemRows, ItemStatus
<1>3. closed \in [ItemKeys -> ItemRows]
  BY <1>2
<1> QED
  BY <1>1, <1>2, <1>3, DeskParts DEF Desks

\* Items are closed: any of them, ...
LEMMA CloseQuietly ==
  ASSUME NEW R, NEW d \in Desks, Blocks(d, R), NEW K
  PROVE  Quietly(d, CloseItems(d, K), R)
<1> DEFINE e == CloseItems(d, K)
<1>1. /\ e \in Desks /\ e.action = d.action
      /\ \A j \in ItemKeys : /\ e.item[j].task = d.item[j].task
                             /\ d.item[j].status # "pending" => e.item[j] = d.item[j]
                             /\ d.item[j].status = "pending" => e.item[j].status \in {"pending", "closed"}
  BY CloseIs
<1> HIDE DEF e
<1>2. Blocks(e, R)
  BY <1>1, ItemKeysApart DEF Blocks
<1>3. NoneAsks(d, e) /\ Silent(d, e)
  BY <1>1, ItemKeysApart DEF NoneAsks, Silent
<1> QED
  BY <1>1, <1>2, <1>3 DEF Quietly, e

\* ... those of a task, ...
LEMMA CloseBlockedQuietly ==
  ASSUME NEW R, NEW d \in Desks, Blocks(d, R), NEW t, NEW all
  PROVE  Quietly(d, CloseBlocked(d, t, all), R)
BY CloseQuietly DEF CloseBlocked

\* ... or that of one row.
LEMMA CloseOwnQuietly ==
  ASSUME NEW R, NEW d \in Desks, Blocks(d, R), NEW k, NEW t
  PROVE  Quietly(d, CloseOwn(d, k, t), R)
<1>1. Quietly(d, d, R)
  BY DEF Quietly, NoneAsks, Silent
<1> QED
  BY <1>1, CloseQuietly DEF CloseOwn

\* The row of an action changes, and its item as it may.
LEMMA RowIs ==
  ASSUME NEW d \in Desks, NEW n \in Actions, NEW row \in ActionRows
  PROVE  LET e == [d EXCEPT !.action[n] = row]
         IN e \in Desks /\ e.item = d.item /\ e.action[n] = row /\ \A m \in Actions \ {n} : e.action[m] = d.action[m]
<1>1. [d EXCEPT !.action[n] = row]
        = [action |-> [d.action EXCEPT ![n] = row], commitment |-> d.commitment, item |-> d.item]
  BY DeskParts DEF Desks
<1>2. [d.action EXCEPT ![n] = row] \in [Actions -> ActionRows]
  BY DeskParts
<1> QED
  BY <1>1, <1>2, DeskParts DEF Desks

LEMMA StatusIs ==
  ASSUME NEW d \in Desks, NEW n \in Actions, NEW status \in ActionStatus
  PROVE  LET e == [d EXCEPT !.action[n].status = status]
         IN /\ e \in Desks /\ e.item = d.item
            /\ e.action[n].status = status /\ e.action[n].task = d.action[n].task
            /\ \A m \in Actions \ {n} : e.action[m] = d.action[m]
<1> DEFINE row == [d.action[n] EXCEPT !.status = status]
<1>1. row \in ActionRows /\ row.status = status /\ row.task = d.action[n].task
  BY DeskParts DEF ActionRows
<1>2. [d EXCEPT !.action[n].status = status] = [d EXCEPT !.action[n] = row]
  BY DeskParts DEF Desks
<1> QED
  BY <1>1, <1>2, RowIs, ZenonT(60)

LEMMA TaskIs ==
  ASSUME NEW d \in Desks, NEW n \in Actions, NEW t \in Tasks
  PROVE  LET e == [d EXCEPT !.action[n].task = t]
         IN /\ e \in Desks /\ e.item = d.item
            /\ e.action[n].status = d.action[n].status
            /\ \A m \in Actions \ {n} : e.action[m] = d.action[m]
<1> DEFINE row == [d.action[n] EXCEPT !.task = t]
<1>1. row \in ActionRows /\ row.status = d.action[n].status
  BY DeskParts DEF ActionRows
<1>2. [d EXCEPT !.action[n].task = t] = [d EXCEPT !.action[n] = row]
  BY DeskParts DEF Desks
<1> QED
  BY <1>1, <1>2, RowIs

\* A new action has no item that shows a block; created as "blocked" it gets one.
LEMMA CreateQuietly ==
  ASSUME NEW R, NEW d \in Desks, Blocks(d, R), NEW n \in Fresh(d), NEW t \in Tasks \cup {NoTask},
         NEW c \in Commitments \cup {NoCommitment}, NEW status \in ActionStatus \ {"blocked"}
  PROVE  Quietly(d, Create(d, n, t, c, status), R)
<1> DEFINE e == Create(d, n, t, c, status)
<1>1. n \in Actions /\ d.action[n].status = "none"
  BY DEF Fresh
<1>2. [status |-> status, task |-> t, commitment |-> c] \in ActionRows
  BY DEF ActionRows
<1>3. /\ e \in Desks /\ e.item = d.item /\ e.action[n].status = status
      /\ \A m \in Actions \ {n} : e.action[m] = d.action[m]
  BY <1>1, <1>2, RowIs DEF Create
<1> HIDE DEF e
<1>4. Blocks(e, R)
  BY <1>1, <1>3 DEF Blocks
<1> QED
  BY <1>3, <1>4 DEF Quietly, NoneAsks, Silent, e

\* A block is shown, unless its item was closed.
LEMMA BlockOpenly ==
  ASSUME NEW R, NEW d \in Desks, Blocks(d, R), NEW n \in Actions, NEW awaits \in BOOLEAN
  PROVE  Openly(d, Block(d, n, awaits), R)
<1> DEFINE b == [d EXCEPT !.action[n].status = "blocked"]
           k == BlockedAction(n)
           t == d.action[n].task
           e == Block(d, n, awaits)
<1>1. /\ b \in Desks /\ b.item = d.item /\ b.action[n].status = "blocked" /\ b.action[n].task = t
      /\ \A m \in Actions \ {n} : b.action[m] = d.action[m]
  <2>1. "blocked" \in ActionStatus
    BY DEF ActionStatus
  <2> QED
    BY <2>1, StatusIs
<1>2. k \in ItemKeys /\ t \in Tasks \cup {NoTask}
  BY ItemKeysApart, DeskParts DEF ActionRows
<1>3. e = Notify(b, k, t, awaits)
  BY DEF Block
<1> HIDE DEF b, k, t, e
<1>4. /\ e \in Desks /\ e.action = b.action
      /\ \A j \in ItemKeys \ {k} : e.item[j] = d.item[j]
      /\ d.item[k].status # "none" => e.item[k] = d.item[k]
      /\ d.item[k].status = "none" => e.item[k] = [status |-> "pending", task |-> t, awaits |-> awaits]
  BY <1>1, <1>2, <1>3, NotifyIs
<1>5. \A m \in Actions \ {n} : BlockedAction(m) \in ItemKeys \ {k}
  BY ItemKeysApart DEF k
<1>6. \A a \in Tasks, i \in 1..MaxApprovals : ApprovalItem(a, i) \in ItemKeys \ {k}
  BY ItemKeysApart DEF k
<1>7. Blocks(e, R)
  <2> SUFFICES ASSUME NEW m \in Actions
               PROVE  /\ e.action[m].status = "blocked" => e.item[BlockedAction(m)].status # "none"
                      /\ e.item[BlockedAction(m)].status = "pending" /\ m \notin R
                           => /\ e.action[m].status = "blocked"
                              /\ e.item[BlockedAction(m)].task = e.action[m].task
    BY DEF Blocks
  <2>1. CASE m # n
    BY <1>1, <1>4, <1>5, <2>1 DEF Blocks
  <2>2. CASE m = n
    <3>1. e.action[n].status = "blocked" /\ e.action[n].task = t /\ k = BlockedAction(n)
      BY <1>1, <1>4 DEF k
    <3>2. CASE d.item[k].status = "none"
      BY <1>4, <2>2, <3>1, <3>2
    <3>3. CASE d.item[k].status # "none"
      BY <1>4, <2>2, <3>1, <3>3 DEF Blocks, t
    <3> QED
      BY <3>2, <3>3
  <2> QED
    BY <2>1, <2>2
<1>8. NoneAsks(d, e)
  BY <1>4, <1>6 DEF NoneAsks
<1>9. Shown(d, e)
  BY <1>4, <1>5 DEF Shown, k
<1> QED
  BY <1>4, <1>7, <1>8, <1>9 DEF Openly, e

\* A settled action is blocked no more, and its item is closed: it is found by
\* the task that the row still names.
LEMMA SettleQuietly ==
  ASSUME NEW R, NEW d \in Desks, Blocks(d, R), NEW n \in Actions, NEW status \in ActionStatus \ {"blocked"}
  PROVE  Quietly(d, Settle(d, n, status), R)
<1> DEFINE s == [d EXCEPT !.action[n].status = status]
           k == BlockedAction(n)
           t == d.action[n].task
           e == Settle(d, n, status)
<1>1. /\ s \in Desks /\ s.item = d.item /\ s.action[n].status = status /\ s.action[n].task = t
      /\ \A m \in Actions \ {n} : s.action[m] = d.action[m]
  <2>1. status \in ActionStatus
    OBVIOUS
  <2> QED
    BY <2>1, StatusIs
<1>2. e = CloseOwn(s, k, t)
  BY DEF Settle
<1>3. \A m \in Actions \ {n} : BlockedAction(m) \in ItemKeys \ {k}
  BY ItemKeysApart DEF k
<1>4. k \in ItemKeys /\ \A a \in Tasks, i \in 1..MaxApprovals : ApprovalItem(a, i) \in ItemKeys \ {k}
  BY ItemKeysApart DEF k
<1> HIDE DEF s, k, t, e
<1>5. /\ e \in Desks /\ e.action = s.action
      /\ \A j \in ItemKeys \ {k} : e.item[j] = d.item[j]
      /\ d.item[k].status # "pending" => e.item[k] = d.item[k]
      /\ e.item[k].status = "pending" => d.item[k].status = "pending" /\ t # NoTask /\ d.item[k].task # t
  <2>1. CASE t = NoTask \/ d.item[k].task = t
    <3>1. e = CloseItems(s, {k})
      BY <1>1, <1>2, <2>1 DEF CloseOwn
    <3> QED
      BY <1>1, <1>4, <3>1, CloseIs
  <2>2. CASE t # NoTask /\ d.item[k].task # t
    BY <1>1, <1>2, <2>2 DEF CloseOwn
  <2> QED
    BY <2>1, <2>2
<1>6. Blocks(e, R)
  <2> SUFFICES ASSUME NEW m \in Actions
               PROVE  /\ e.action[m].status = "blocked" => e.item[BlockedAction(m)].status # "none"
                      /\ e.item[BlockedAction(m)].status = "pending" /\ m \notin R
                           => /\ e.action[m].status = "blocked"
                              /\ e.item[BlockedAction(m)].task = e.action[m].task
    BY DEF Blocks
  <2>1. CASE m # n
    BY <1>1, <1>3, <1>5, <2>1 DEF Blocks
  <2>2. CASE m = n
    <3>1. e.action[n].status # "blocked" /\ k = BlockedAction(n)
      BY <1>1, <1>5 DEF k
    <3>2. e.item[k].status = "pending" => n \in R
      BY <1>5 DEF Blocks, k, t
    <3> QED
      BY <2>2, <3>1, <3>2
  <2> QED
    BY <2>1, <2>2
<1>7. NoneAsks(d, e)
  BY <1>4, <1>5 DEF NoneAsks
<1>8. Silent(d, e)
  BY <1>3, <1>5 DEF Silent, k
<1> QED
  BY <1>5, <1>6, <1>7, <1>8 DEF Quietly, e

\* An action that is refiled may leave an item of the past.
LEMMA RefiledQuietly ==
  ASSUME NEW R, NEW d \in Desks, Blocks(d, R), NEW n \in R, n \in Actions
  PROVE  /\ \A t \in Tasks : Quietly(d, [d EXCEPT !.action[n].task = t], R)
         /\ \A s \in ActionStatus \ {"blocked"} : Quietly(d, [d EXCEPT !.action[n].status = s], R)
<1>1. ASSUME NEW t \in Tasks PROVE Quietly(d, [d EXCEPT !.action[n].task = t], R)
  <2> DEFINE e == [d EXCEPT !.action[n].task = t]
  <2>1. /\ e \in Desks /\ e.item = d.item /\ e.action[n].status = d.action[n].status
        /\ \A m \in Actions \ {n} : e.action[m] = d.action[m]
    BY TaskIs
  <2> HIDE DEF e
  <2>2. Blocks(e, R)
    BY <2>1 DEF Blocks
  <2> QED
    BY <2>1, <2>2 DEF Quietly, NoneAsks, Silent, e
<1>2. ASSUME NEW s \in ActionStatus \ {"blocked"} PROVE Quietly(d, [d EXCEPT !.action[n].status = s], R)
  <2> DEFINE e == [d EXCEPT !.action[n].status = s]
  <2>1. s \in ActionStatus
    OBVIOUS
  <2>2. /\ e \in Desks /\ e.item = d.item /\ e.action[n].status = s
        /\ \A m \in Actions \ {n} : e.action[m] = d.action[m]
    BY <2>1, StatusIs
  <2> HIDE DEF e
  <2>3. Blocks(e, R)
    BY <2>2 DEF Blocks
  <2> QED
    BY <2>2, <2>3 DEF Quietly, NoneAsks, Silent, e
<1> QED
  BY <1>1, <1>2

\* An action of a routine is created "blocked", which Block says again.
LEMMA CreateBlockedOpenly ==
  ASSUME NEW R, NEW d \in Desks, Blocks(d, R), NEW n \in Fresh(d), NEW t \in Tasks \cup {NoTask},
         NEW c \in Commitments \cup {NoCommitment}, NEW status \in {"blocked", "pending"}
  PROVE  Openly(d, Block(Create(d, n, t, c, status), n, FALSE), R)
<1> DEFINE p == Create(d, n, t, c, "pending")
           b == Create(d, n, t, c, "blocked")
<1>1. n \in Actions
  BY DEF Fresh
<1>2. Quietly(d, p, R)
  <2>1. "pending" \in ActionStatus \ {"blocked"}
    BY DEF ActionStatus
  <2> QED
    BY <2>1, CreateQuietly
<1>3. Openly(p, Block(p, n, FALSE), R)
  BY <1>1, <1>2, BlockOpenly DEF Quietly
<1>4. Openly(d, Block(p, n, FALSE), R)
  BY <1>2, <1>3, QuietlyOn
<1>5. Block(b, n, FALSE) = Block(p, n, FALSE)
  <2>1. [status |-> "pending", task |-> t, commitment |-> c] \in ActionRows
    BY DEF ActionRows, ActionStatus
  <2>2. [status |-> "blocked", task |-> t, commitment |-> c] \in ActionRows
    BY DEF ActionRows, ActionStatus
  <2>3. /\ b \in Desks /\ b.item = d.item /\ b.action[n] = [status |-> "blocked", task |-> t, commitment |-> c]
        /\ \A m \in Actions \ {n} : b.action[m] = d.action[m]
    BY <1>1, <2>2, RowIs DEF Create
  <2>4. /\ p \in Desks /\ p.item = d.item /\ p.action[n] = [status |-> "pending", task |-> t, commitment |-> c]
        /\ \A m \in Actions \ {n} : p.action[m] = d.action[m]
    BY <1>1, <2>1, RowIs DEF Create
  <2>5. b.commitment = d.commitment /\ p.commitment = d.commitment
    BY DeskParts DEF Create
  <2> HIDE DEF b, p
  <2> DEFINE bb == [b.action EXCEPT ![n].status = "blocked"]
             pp == [p.action EXCEPT ![n].status = "blocked"]
  <2>6. bb = pp
    <3>1. b.action \in [Actions -> ActionRows] /\ p.action \in [Actions -> ActionRows]
      BY <2>3, <2>4, DeskParts
    <3>2. \A m \in Actions : bb[m] = pp[m]
      BY <2>3, <2>4, <3>1, <1>1
    <3> QED
      BY <3>1, <3>2
  <2>7. [b EXCEPT !.action[n].status = "blocked"] = [action |-> bb, commitment |-> b.commitment, item |-> b.item]
    BY <2>3, DeskParts DEF Desks
  <2>8. [p EXCEPT !.action[n].status = "blocked"] = [action |-> pp, commitment |-> p.commitment, item |-> p.item]
    BY <2>4, DeskParts DEF Desks
  <2>9. [b EXCEPT !.action[n].status = "blocked"] = [p EXCEPT !.action[n].status = "blocked"]
    BY <2>3, <2>4, <2>5, <2>6, <2>7, <2>8
  <2> QED
    BY <2>3, <2>4, <2>9 DEF Block
<1> QED
  BY <1>4, <1>5

\* Commitments have items of their own.
LEMMA CommitmentQuietly ==
  ASSUME NEW R, NEW d \in Desks, Blocks(d, R), NEW c \in Commitments
  PROVE  /\ \A t \in Tasks : Quietly(d, CreateCommitment(d, c, t), R)
         /\ \A s \in {"open", "blocked", "completed", "cancelled"} :
              LET e == [d EXCEPT !.commitment[c].status = s]
              IN Quietly(d, e, R) /\ e.item = d.item
<1>1. ASSUME NEW row \in CommitmentRows
      PROVE  LET e == [d EXCEPT !.commitment[c] = row] IN Quietly(d, e, R) /\ e.item = d.item
  <2> DEFINE e == [d EXCEPT !.commitment[c] = row]
  <2>1. e = [action |-> d.action, commitment |-> [d.commitment EXCEPT ![c] = row], item |-> d.item]
    BY DeskParts DEF Desks
  <2>2. [d.commitment EXCEPT ![c] = row] \in [Commitments -> CommitmentRows]
    BY DeskParts
  <2>3. e \in Desks /\ e.action = d.action /\ e.item = d.item
    BY <2>1, <2>2, DeskParts DEF Desks
  <2> HIDE DEF e
  <2>4. Quietly(d, e, R)
    BY <2>3 DEF Quietly, Blocks, NoneAsks, Silent
  <2> QED
    BY <2>3, <2>4 DEF e
<1>2. ASSUME NEW t \in Tasks PROVE Quietly(d, CreateCommitment(d, c, t), R)
  <2>1. [status |-> "open", task |-> t] \in CommitmentRows
    BY DEF CommitmentRows
  <2> QED
    BY <1>1, <2>1 DEF CreateCommitment
<1>3. ASSUME NEW s \in {"open", "blocked", "completed", "cancelled"}
      PROVE  LET e == [d EXCEPT !.commitment[c].status = s]
             IN Quietly(d, e, R) /\ e.item = d.item
  <2> DEFINE row == [d.commitment[c] EXCEPT !.status = s]
  <2>1. row \in CommitmentRows
    BY DeskParts DEF CommitmentRows
  <2>2. [d EXCEPT !.commitment[c].status = s] = [d EXCEPT !.commitment[c] = row]
    BY DeskParts DEF Desks
  <2> QED
    BY <1>1, <2>1, <2>2
<1> QED
  BY <1>2, <1>3

LEMMA BlockCommitmentQuietly ==
  ASSUME NEW R, NEW d \in Desks, Blocks(d, R), NEW c \in Commitments
  PROVE  Quietly(d, BlockCommitment(d, c), R)
<1> DEFINE b == [d EXCEPT !.commitment[c].status = "blocked"]
           k == BlockedCommitment(c)
           t == d.commitment[c].task
           e == BlockCommitment(d, c)
<1>1. Quietly(d, b, R) /\ b.item = d.item
  BY CommitmentQuietly
<1>2. k \in ItemKeys /\ t \in Tasks \cup {NoTask}
  BY ItemKeysApart, DeskParts DEF CommitmentRows
<1>3. \A m \in Actions : BlockedAction(m) \in ItemKeys \ {k}
  BY ItemKeysApart
<1>4. \A a \in Tasks, i \in 1..MaxApprovals : ApprovalItem(a, i) \in ItemKeys \ {k}
  BY ItemKeysApart
<1>5. e = Notify(b, k, t, FALSE)
  BY DEF BlockCommitment
<1> HIDE DEF b, k, t, e
<1>6. e \in Desks /\ e.action = b.action /\ \A j \in ItemKeys \ {k} : e.item[j] = b.item[j]
  <2>1. b \in Desks
    BY <1>1 DEF Quietly
  <2> QED
    BY <1>2, <1>5, <2>1, NotifyIs, ZenonT(60)
<1>7. Blocks(e, R)
  BY <1>1, <1>3, <1>6 DEF Quietly, Blocks
<1>8. NoneAsks(d, e) /\ Silent(d, e)
  BY <1>1, <1>3, <1>4, <1>6 DEF NoneAsks, Silent
<1> QED
  BY <1>6, <1>7, <1>8 DEF Quietly, e

LEMMA SettleCommitmentQuietly ==
  ASSUME NEW R, NEW d \in Desks, Blocks(d, R), NEW c \in Commitments, NEW s \in {"open", "completed"}
  PROVE  Quietly(d, SettleCommitment(d, c, s), R)
<1> DEFINE b == [d EXCEPT !.commitment[c].status = s]
<1>1. Quietly(d, b, R)
  BY CommitmentQuietly
<1> HIDE DEF b
<1>2. Quietly(b, CloseOwn(b, BlockedCommitment(c), d.commitment[c].task), R)
  BY <1>1, CloseOwnQuietly DEF Quietly
<1>3. SettleCommitment(d, c, s) = CloseOwn(b, BlockedCommitment(c), d.commitment[c].task)
  BY DEF SettleCommitment, b
<1> QED
  BY <1>1, <1>2, <1>3, QuietlyOn

\* What is left to show of a step by which no approval is asked for or resolved.
LEMMA DeskMoves ==
  ASSUME DeskInv, Openly(desk, desk', refiled'), refiled' \subseteq Actions, edits' \in 0..MaxEdits, asks' = asks,
         phase' \in [Tasks -> {"new", "running", "waiting", "ended"}],
         \A t \in Tasks : phase[t] = "waiting" => phase'[t] = "waiting"
  PROVE  DeskInv' /\ Shown(desk, desk')
<1>1. DeskTypes'
  BY DEF DeskInv, DeskTypes, Openly
<1>2. NoDecisionWithoutApproval'
  BY DEF DeskInv, Openly, NoneAsks, NoDecisionWithoutApproval
<1> QED
  BY <1>1, <1>2 DEF DeskInv, Openly

LEMMA EditIs ==
  ASSUME DeskInv, Edit
  PROVE  edits' \in 0..MaxEdits
BY InboxAssumption DEF Edit, DeskInv, DeskTypes

LEMMA BlocksRefiled ==
  ASSUME NEW d, NEW R, NEW n, Blocks(d, R)
  PROVE  Blocks(d, R \cup {n})
BY DEF Blocks

LEMMA DeskIsIts == DeskInv => desk \in Desks /\ Blocks(desk, refiled) /\ refiled \subseteq Actions /\ edits \in 0..MaxEdits
BY DEF DeskInv, DeskTypes

LEMMA UnchangedQuietly ==
  ASSUME NEW R, NEW d \in Desks, Blocks(d, R)
  PROVE  Quietly(d, d, R)
BY DEF Quietly, NoneAsks, Silent

LEMMA CreatedStep ==
  ASSUME DeskInv, NEW t \in Tasks, TaskCreated(t)
  PROVE  DeskInv' /\ Shown(desk, desk')
<1>1. desk \in Desks /\ Blocks(desk, refiled) /\ refiled \subseteq Actions /\ edits \in 0..MaxEdits
  BY DeskIsIts
<1>2. UNCHANGED <<asks, edits, refiled>> /\ phase[t] = "new" /\ phase' = [phase EXCEPT ![t] = "running"]
  BY DEF TaskCreated
<1>3. "active" \in ActionStatus \ {"blocked"}
  BY DEF ActionStatus
<1>4. Quietly(desk, desk', refiled)
  <2>1. CASE \E c \in Unused(desk), n \in Fresh(desk) :
               desk' = Create(CreateCommitment(desk, c, t), n, t, c, "active")
    <3>1. PICK c \in Unused(desk), n \in Fresh(desk) :
            desk' = Create(CreateCommitment(desk, c, t), n, t, c, "active")
      BY <2>1
    <3> DEFINE d == CreateCommitment(desk, c, t)
    <3>2. c \in Commitments
      BY DEF Unused
    <3>3. Quietly(desk, d, refiled)
      BY <1>1, <3>2, CommitmentQuietly
    <3>4. n \in Fresh(d)
      BY <1>1, DeskParts DEF Fresh, CreateCommitment, Desks
    <3> HIDE DEF d
    <3>5. Quietly(d, Create(d, n, t, c, "active"), refiled)
      BY <1>3, <3>2, <3>3, <3>4, CreateQuietly DEF Quietly
    <3> QED
      BY <3>1, <3>3, <3>5, QuietlyOn DEF d
  <2>2. CASE \E c \in OpenCommitments(desk), n \in Fresh(desk) : desk' = Create(desk, n, t, c, "active")
    <3>1. PICK c \in OpenCommitments(desk), n \in Fresh(desk) : desk' = Create(desk, n, t, c, "active")
      BY <2>2
    <3>2. c \in Commitments
      BY DEF OpenCommitments
    <3>3. Quietly(desk, Create(desk, n, t, c, "active"), refiled)
      BY <1>1, <1>3, <3>2, CreateQuietly
    <3> QED
      BY <3>1, <3>3
  <2>3. CASE UNCHANGED desk
    BY <1>1, <2>3, UnchangedQuietly
  <2> QED
    BY <2>1, <2>2, <2>3 DEF TaskCreated
<1>5. Openly(desk, desk', refiled')
  BY <1>2, <1>4, QuietlyOn
<1>6. /\ phase' \in [Tasks -> {"new", "running", "waiting", "ended"}]
      /\ \A u \in Tasks : phase[u] = "waiting" => phase'[u] = "waiting"
  BY <1>2 DEF DeskInv, DeskTypes
<1> QED
  BY <1>1, <1>2, <1>5, <1>6, DeskMoves

\* An approval is asked for: its item is the only one that may be new.
LEMMA AskedStep ==
  ASSUME DeskInv, NEW t \in Tasks, ApprovalRequested(t)
  PROVE  DeskInv' /\ Shown(desk, desk')
<1> DEFINE a == asks[t] + 1
           k == ApprovalItem(t, a)
           d == Notify(desk, k, t, FALSE)
<1>1. desk \in Desks /\ Blocks(desk, refiled) /\ refiled \subseteq Actions /\ edits \in 0..MaxEdits
  BY DeskIsIts
<1>2. /\ UNCHANGED <<edits, refiled>> /\ phase[t] = "running" /\ asks[t] < MaxApprovals
      /\ phase' = [phase EXCEPT ![t] = "waiting"] /\ asks' = [asks EXCEPT ![t] = @ + 1]
  BY DEF ApprovalRequested
<1>3. asks[t] \in 0..MaxApprovals /\ a \in 1..MaxApprovals
  BY <1>2, InboxAssumption DEF DeskInv, DeskTypes
<1>4. k \in ItemKeys /\ k \notin BlockedKeys
  BY <1>3, ItemKeysApart
<1>5. \A u \in Tasks, i \in 1..MaxApprovals : u # t \/ i # a => ApprovalItem(u, i) \in ItemKeys \ {k}
  BY <1>3, ItemKeysApart
<1>6. \A n \in Actions : BlockedAction(n) \in ItemKeys \ {k}
  BY <1>4, ItemKeysApart
<1>7. d \in Desks /\ d.action = desk.action /\ \A j \in ItemKeys \ {k} : d.item[j] = desk.item[j]
  <2> HIDE DEF k
  <2>1. t \in Tasks \cup {NoTask} /\ FALSE \in BOOLEAN
    OBVIOUS
  <2> QED
    BY <1>1, <1>4, <2>1, NotifyIs
<1>8. desk' = d \/ \E n \in Actions : desk' = Block(d, n, TRUE)
  BY DEF ApprovalRequested, Ready
<1> HIDE DEF d, k, a
<1>9. Blocks(d, refiled) /\ Silent(desk, d)
  BY <1>1, <1>6, <1>7 DEF Blocks, Silent
<1>10. Openly(d, desk', refiled)
  <2>1. CASE desk' = d
    BY <1>7, <1>9, <2>1, UnchangedQuietly, QuietlyOn
  <2>2. CASE \E n \in Actions : desk' = Block(d, n, TRUE)
    BY <1>7, <1>9, <2>2, BlockOpenly
  <2> QED
    BY <1>8, <2>1, <2>2
<1>11. Shown(desk, desk')
  BY <1>9, <1>10 DEF Openly, Shown, Silent
<1>12. DeskTypes'
  BY <1>1, <1>2, <1>3, <1>10 DEF DeskInv, DeskTypes, Openly, a
<1>13. NoDecisionWithoutApproval'
  <2> SUFFICES ASSUME NEW u \in Tasks, NEW i \in 1..MaxApprovals, desk'.item[ApprovalItem(u, i)].status = "pending"
               PROVE  phase'[u] = "waiting" /\ i = asks'[u]
    BY DEF NoDecisionWithoutApproval
  <2>1. d.item[ApprovalItem(u, i)].status = "pending"
    BY <1>10 DEF Openly, NoneAsks
  <2>2. asks \in [Tasks -> 0..MaxApprovals] /\ phase \in [Tasks -> {"new", "running", "waiting", "ended"}]
    BY DEF DeskInv, DeskTypes
  <2>3. CASE u = t /\ i = a
    BY <1>2, <2>2, <2>3 DEF a
  <2>4. CASE u # t \/ i # a
    <3>1. desk.item[ApprovalItem(u, i)].status = "pending"
      BY <1>5, <1>7, <2>1, <2>4
    <3>2. phase[u] = "waiting" /\ i = asks[u]
      BY <3>1 DEF DeskInv, NoDecisionWithoutApproval
    <3>3. u # t
      BY <1>2, <3>2
    <3> QED
      BY <1>2, <2>2, <3>2, <3>3
  <2> QED
    BY <2>3, <2>4
<1> QED
  BY <1>1, <1>2, <1>10, <1>11, <1>12, <1>13 DEF DeskInv, Openly

\* An approval is resolved: its item is closed, before the blocks are looked at.
LEMMA ResolvedStep ==
  ASSUME DeskInv, NEW t \in Tasks, NEW approved \in BOOLEAN, ApprovalResolved(t, approved)
  PROVE  DeskInv' /\ Shown(desk, desk')
<1> DEFINE k == ApprovalItem(t, asks[t])
           c == CloseItems(desk, {k})
           d == CloseBlocked(c, t, FALSE)
<1>1. desk \in Desks /\ Blocks(desk, refiled) /\ refiled \subseteq Actions /\ edits \in 0..MaxEdits
  BY DeskIsIts
<1>2. UNCHANGED <<asks, edits, refiled>> /\ phase[t] = "waiting" /\ phase' = [phase EXCEPT ![t] = "running"]
  BY DEF ApprovalResolved
<1>3. Quietly(desk, c, refiled) /\ \A j \in ItemKeys : j = k => c.item[j].status # "pending"
  BY <1>1, CloseQuietly, CloseIs
<1>4. /\ \/ desk' = d
         \/ \E n \in Actions : desk' = Settle(d, n, "active")
         \/ \E n \in Actions : desk' = Block(d, n, FALSE)
  BY DEF ApprovalResolved, Resolved
<1> HIDE DEF c
<1>5. Quietly(c, d, refiled)
  BY <1>3, CloseBlockedQuietly DEF Quietly
<1> HIDE DEF d
<1>6. Openly(d, desk', refiled)
  <2>1. d \in Desks /\ Blocks(d, refiled)
    BY <1>5 DEF Quietly
  <2>2. CASE desk' = d
    BY <2>1, <2>2, UnchangedQuietly, QuietlyOn
  <2>3. CASE \E n \in Actions : desk' = Settle(d, n, "active")
    <3>1. "active" \in ActionStatus \ {"blocked"}
      BY DEF ActionStatus
    <3>2. PICK n \in Actions : desk' = Settle(d, n, "active")
      BY <2>3
    <3>3. Quietly(d, Settle(d, n, "active"), refiled)
      BY <2>1, <3>1, SettleQuietly
    <3> QED
      BY <3>2, <3>3, QuietlyOn
  <2>4. CASE \E n \in Actions : desk' = Block(d, n, FALSE)
    BY <2>1, <2>4, BlockOpenly
  <2> QED
    BY <1>4, <2>2, <2>3, <2>4
<1>7. Openly(c, desk', refiled)
  BY <1>5, <1>6, QuietlyOn
<1>8. Openly(desk, desk', refiled)
  BY <1>3, <1>7, QuietlyOn
<1>9. DeskTypes'
  BY <1>1, <1>2, <1>8 DEF DeskInv, DeskTypes, Openly
<1>10. NoDecisionWithoutApproval'
  <2> SUFFICES ASSUME NEW u \in Tasks, NEW i \in 1..MaxApprovals, desk'.item[ApprovalItem(u, i)].status = "pending"
               PROVE  phase'[u] = "waiting" /\ i = asks'[u]
    BY DEF NoDecisionWithoutApproval
  <2>1. c.item[ApprovalItem(u, i)].status = "pending" /\ desk.item[ApprovalItem(u, i)].status = "pending"
    BY <1>7, <1>8 DEF Openly, NoneAsks
  <2>2. phase[u] = "waiting" /\ i = asks[u] /\ phase \in [Tasks -> {"new", "running", "waiting", "ended"}]
    BY <2>1 DEF DeskInv, DeskTypes, NoDecisionWithoutApproval
  <2>3. u # t
    BY <1>3, <2>1, <2>2, ItemKeysApart DEF k
  <2> QED
    BY <1>2, <2>2, <2>3
<1> QED
  BY <1>1, <1>2, <1>8, <1>9, <1>10 DEF DeskInv, Openly

\* The first action is done, and its commitment with the last.
LEMMA SucceededQuietly ==
  ASSUME NEW R, NEW d \in Desks, Blocks(d, R), NEW n \in Actions
  PROVE  Quietly(d, Succeeded(d, n), R)
<1> DEFINE c == d.action[n].commitment
           e == Settle(d, n, "done")
<1>1. "done" \in ActionStatus \ {"blocked"} /\ c \in Commitments \cup {NoCommitment}
  BY DeskParts DEF ActionStatus, ActionRows
<1>2. Quietly(d, e, R)
  BY <1>1, SettleQuietly
<1>3. CASE OpenActions(e) = {} /\ c # NoCommitment
  <2>1. Quietly(e, SettleCommitment(e, c, "completed"), R)
    BY <1>1, <1>2, <1>3, SettleCommitmentQuietly DEF Quietly
  <2>2. Succeeded(d, n) = SettleCommitment(e, c, "completed")
    BY <1>3 DEF Succeeded
  <2> QED
    BY <1>2, <2>1, <2>2, QuietlyOn
<1>4. CASE ~(OpenActions(e) = {} /\ c # NoCommitment)
  BY <1>2, <1>4 DEF Succeeded
<1> QED
  BY <1>3, <1>4

\* What a summary of the session does to a desk.
LEMMA ContinuedQuietly ==
  ASSUME NEW R, NEW d \in Desks, Blocks(d, R), NEW t \in Tasks, NEW c \in Commitments, NEW next \in BOOLEAN,
         Continued(d, t, c, next)
  PROVE  Quietly(d, desk', R)
<1>1. CASE desk' = d
  BY <1>1, UnchangedQuietly
<1>2. CASE \E n \in Fresh(d) : desk' = Create(d, n, t, c, "active")
  <2>1. "active" \in ActionStatus \ {"blocked"}
    BY DEF ActionStatus
  <2>2. PICK n \in Fresh(d) : desk' = Create(d, n, t, c, "active")
    BY <1>2
  <2>3. Quietly(d, Create(d, n, t, c, "active"), R)
    BY <2>1, CreateQuietly
  <2> QED
    BY <2>2, <2>3
<1> QED
  BY <1>1, <1>2 DEF Continued

LEMMA LoopsQuietly ==
  ASSUME NEW R, NEW d \in Desks, Blocks(d, R), NEW c \in Commitments, NEW loops \in BOOLEAN
  PROVE  Quietly(d, WithLoops(d, c, loops), R)
BY BlockCommitmentQuietly, UnchangedQuietly DEF WithLoops

LEMMA SummarisedQuietly ==
  ASSUME NEW R, NEW d \in Desks, Blocks(d, R), NEW t \in Tasks, NEW loops \in BOOLEAN, NEW next \in BOOLEAN,
         Summarised(d, t, loops, next)
  PROVE  Quietly(d, desk', R)
<1>1. CASE \E c \in OpenCommitments(d) : Continued(WithLoops(d, c, loops), t, c, next)
  <2>1. PICK c \in OpenCommitments(d) : Continued(WithLoops(d, c, loops), t, c, next)
    BY <1>1
  <2>2. c \in Commitments
    BY DEF OpenCommitments
  <2>3. PICK e : e = WithLoops(d, c, loops)
    OBVIOUS
  <2>4. Quietly(d, e, R)
    BY <2>2, <2>3, LoopsQuietly
  <2>5. Quietly(e, desk', R)
    BY <2>1, <2>2, <2>3, <2>4, ContinuedQuietly DEF Quietly
  <2> QED
    BY <2>4, <2>5, QuietlyOn
<1>2. CASE \E c \in Unused(d) : Continued(WithLoops(CreateCommitment(d, c, t), c, loops), t, c, next)
  <2>1. PICK c \in Unused(d) : Continued(WithLoops(CreateCommitment(d, c, t), c, loops), t, c, next)
    BY <1>2
  <2>2. c \in Commitments
    BY DEF Unused
  <2>3. PICK e : e = CreateCommitment(d, c, t)
    OBVIOUS
  <2>4. Quietly(d, e, R)
    BY <2>2, <2>3, CommitmentQuietly
  <2>5. PICK f : f = WithLoops(e, c, loops)
    OBVIOUS
  <2>6. Quietly(e, f, R)
    BY <2>2, <2>4, <2>5, LoopsQuietly DEF Quietly
  <2>7. Quietly(f, desk', R)
    BY <2>1, <2>2, <2>3, <2>5, <2>6, ContinuedQuietly DEF Quietly
  <2>8. Quietly(e, desk', R)
    BY <2>6, <2>7, QuietlyOn
  <2> QED
    BY <2>4, <2>8, QuietlyOn
<1>3. CASE desk' = d
  BY <1>3, UnchangedQuietly
<1> QED
  BY <1>1, <1>2, <1>3 DEF Summarised

LEMMA SuccessStep ==
  ASSUME DeskInv, NEW t \in Tasks, TaskSuccess(t)
  PROVE  DeskInv' /\ Shown(desk, desk')
<1>1. desk \in Desks /\ Blocks(desk, refiled) /\ refiled \subseteq Actions /\ edits \in 0..MaxEdits
  BY DeskIsIts
<1>2. UNCHANGED <<asks, edits, refiled>> /\ phase[t] = "running" /\ phase' = [phase EXCEPT ![t] = "ended"]
  BY DEF TaskSuccess
<1>3. PICK d : d = CloseBlocked(desk, t, TRUE)
  OBVIOUS
<1>4. Quietly(desk, d, refiled)
  BY <1>1, <1>3, CloseBlockedQuietly
<1>5. PICK loops \in BOOLEAN, next \in BOOLEAN :
        \/ \E n \in OpenActions(d) : Summarised(Succeeded(d, n), t, loops, next)
        \/ OpenActions(d) = {} /\ Summarised(d, t, loops, next)
  BY <1>3 DEF TaskSuccess
<1>6. Quietly(d, desk', refiled)
  <2>1. d \in Desks /\ Blocks(d, refiled)
    BY <1>4 DEF Quietly
  <2>2. CASE \E n \in OpenActions(d) : Summarised(Succeeded(d, n), t, loops, next)
    <3>1. PICK n \in OpenActions(d) : Summarised(Succeeded(d, n), t, loops, next)
      BY <2>2
    <3>2. PICK e : e = Succeeded(d, n)
      OBVIOUS
    <3>3. Quietly(d, e, refiled)
      BY <2>1, <3>2, SucceededQuietly DEF OpenActions
    <3>4. Quietly(e, desk', refiled)
      BY <3>1, <3>2, <3>3, SummarisedQuietly DEF Quietly
    <3> QED
      BY <3>3, <3>4, QuietlyOn
  <2>3. CASE Summarised(d, t, loops, next)
    BY <2>1, <2>3, SummarisedQuietly
  <2> QED
    BY <1>5, <2>2, <2>3
<1>7. Openly(desk, desk', refiled')
  BY <1>2, <1>4, <1>6, QuietlyOn
<1>8. /\ phase' \in [Tasks -> {"new", "running", "waiting", "ended"}]
      /\ \A u \in Tasks : phase[u] = "waiting" => phase'[u] = "waiting"
  BY <1>2 DEF DeskInv, DeskTypes
<1> QED
  BY <1>1, <1>2, <1>7, <1>8, DeskMoves

LEMMA FailureStep ==
  ASSUME DeskInv, NEW t \in Tasks, TaskFailure(t)
  PROVE  DeskInv' /\ Shown(desk, desk')
<1>1. desk \in Desks /\ Blocks(desk, refiled) /\ refiled \subseteq Actions /\ edits \in 0..MaxEdits
  BY DeskIsIts
<1>2. UNCHANGED <<asks, edits, refiled>> /\ phase[t] = "running" /\ phase' = [phase EXCEPT ![t] = "ended"]
  BY DEF TaskFailure
<1>3. PICK d : d = CloseBlocked(desk, t, TRUE)
  OBVIOUS
<1>4. Quietly(desk, d, refiled)
  BY <1>1, <1>3, CloseBlockedQuietly
<1>5. Openly(desk, desk', refiled')
  <2>1. CASE \E n \in OpenActions(desk) : desk' = Block(d, n, FALSE)
    <3>1. PICK n \in Actions : desk' = Block(d, n, FALSE)
      BY <2>1 DEF OpenActions
    <3>2. Openly(d, desk', refiled)
      BY <1>4, <3>1, BlockOpenly DEF Quietly
    <3> QED
      BY <1>2, <1>4, <3>2, QuietlyOn
  <2>2. CASE desk' = d
    BY <1>2, <1>4, <2>2, QuietlyOn
  <2> QED
    BY <1>3, <2>1, <2>2 DEF TaskFailure, FailedFirst
<1>6. /\ phase' \in [Tasks -> {"new", "running", "waiting", "ended"}]
      /\ \A u \in Tasks : phase[u] = "waiting" => phase'[u] = "waiting"
  BY <1>2 DEF DeskInv, DeskTypes
<1> QED
  BY <1>1, <1>2, <1>5, <1>6, DeskMoves

LEMMA ProjectedStep ==
  ASSUME DeskInv, NEW t \in Tasks, Projected(t)
  PROVE  DeskInv' /\ Shown(desk, desk')
<1>1. desk \in Desks /\ Blocks(desk, refiled) /\ refiled \subseteq Actions /\ edits \in 0..MaxEdits
  BY DeskIsIts
<1>2. UNCHANGED <<phase, asks>> /\ Edit
  BY DEF Projected
<1>3. Openly(desk, desk', refiled') /\ refiled' \subseteq Actions
  <2>1. CASE \E n \in Fresh(desk), c \in OpenCommitments(desk) \cup {NoCommitment}, s \in {"active", "pending", "blocked"} :
               /\ desk' = IF s = "blocked" THEN Block(Create(desk, n, t, c, "pending"), n, FALSE)
                                           ELSE Create(desk, n, t, c, s)
               /\ UNCHANGED refiled
    <3>1. PICK n \in Fresh(desk), c \in Commitments \cup {NoCommitment}, s \in {"active", "pending", "blocked"} :
             /\ desk' = IF s = "blocked" THEN Block(Create(desk, n, t, c, "pending"), n, FALSE)
                                         ELSE Create(desk, n, t, c, s)
             /\ UNCHANGED refiled
      BY <2>1 DEF OpenCommitments
    <3>2. CASE s = "blocked"
      BY <1>1, <3>1, <3>2, CreateBlockedOpenly
    <3>3. CASE s # "blocked"
      <4>1. s \in ActionStatus \ {"blocked"} /\ t \in Tasks \cup {NoTask}
        BY <3>3 DEF ActionStatus
      <4>2. Quietly(desk, Create(desk, n, t, c, s), refiled)
        BY <1>1, <4>1, CreateQuietly
      <4> QED
        BY <1>1, <3>1, <3>3, <4>2, QuietlyOn
    <3> QED
      BY <3>2, <3>3
  <2>2. CASE \E n \in Actions \ Fresh(desk), s \in {"active", "pending", "blocked"} :
               LET row == [desk EXCEPT !.action[n].task = t]
               IN /\ refiled' = refiled \cup {n}
                  /\ desk' = CASE s = "blocked" -> Block(row, n, FALSE)
                               [] s = "active"  -> Settle(row, n, "active")
                               [] s = "pending" -> [row EXCEPT !.action[n].status = s]
    <3>1. PICK n \in Actions, s \in {"active", "pending", "blocked"} :
             LET row == [desk EXCEPT !.action[n].task = t]
             IN /\ refiled' = refiled \cup {n}
                /\ desk' = CASE s = "blocked" -> Block(row, n, FALSE)
                             [] s = "active"  -> Settle(row, n, "active")
                             [] s = "pending" -> [row EXCEPT !.action[n].status = s]
      BY <2>2
    <3>2. PICK row : row = [desk EXCEPT !.action[n].task = t]
      OBVIOUS
    <3>3. PICK R : R = refiled \cup {n}
      OBVIOUS
    <3>4. n \in R /\ refiled' = R /\ Blocks(desk, R)
      BY <1>1, <3>1, <3>3, BlocksRefiled
    <3>5. Quietly(desk, row, R)
      BY <1>1, <3>2, <3>4, RefiledQuietly
    <3>6. row \in Desks /\ Blocks(row, R)
      BY <3>5 DEF Quietly
    <3>7. "active" \in ActionStatus \ {"blocked"} /\ "pending" \in ActionStatus \ {"blocked"}
      BY DEF ActionStatus
    <3>8. Openly(row, desk', R)
      <4>1. CASE s = "blocked"
        <5>1. desk' = Block(row, n, FALSE)
          BY <3>1, <3>2, <4>1
        <5> QED
          BY <3>6, <5>1, BlockOpenly
      <4>2. CASE s = "active"
        <5>1. desk' = Settle(row, n, "active")
          BY <3>1, <3>2, <4>2
        <5>2. Quietly(row, Settle(row, n, "active"), R)
          BY <3>6, <3>7, SettleQuietly
        <5> QED
          BY <5>1, <5>2, QuietlyOn
      <4>3. CASE s = "pending"
        <5>1. desk' = [row EXCEPT !.action[n].status = "pending"]
          BY <3>1, <3>2, <4>3
        <5>2. Quietly(row, [row EXCEPT !.action[n].status = "pending"], R)
          BY <3>4, <3>6, <3>7, RefiledQuietly
        <5> QED
          BY <5>1, <5>2, QuietlyOn
      <4> QED
        BY <4>1, <4>2, <4>3
    <3>9. Openly(desk, desk', R)
      BY <3>5, <3>8, QuietlyOn
    <3> QED
      BY <1>1, <3>3, <3>4, <3>9
  <2> QED
    BY <2>1, <2>2 DEF Projected
<1>4. edits' \in 0..MaxEdits
  BY <1>2, EditIs
<1>5. phase' \in [Tasks -> {"new", "running", "waiting", "ended"}]
  BY <1>2 DEF DeskInv, DeskTypes
<1> QED
  BY <1>2, <1>3, <1>4, <1>5, DeskMoves

LEMMA RoutineStep ==
  ASSUME DeskInv, RoutineFailed
  PROVE  DeskInv' /\ Shown(desk, desk')
<1>1. desk \in Desks /\ Blocks(desk, refiled) /\ refiled \subseteq Actions /\ edits \in 0..MaxEdits
  BY DeskIsIts
<1>2. UNCHANGED <<phase, asks, refiled>> /\ Edit
  BY DEF RoutineFailed
<1>3. PICK n \in Fresh(desk) : desk' = Block(Create(desk, n, NoTask, NoCommitment, "blocked"), n, FALSE)
  BY DEF RoutineFailed
<1>4. Openly(desk, desk', refiled')
  <2>1. Openly(desk, Block(Create(desk, n, NoTask, NoCommitment, "blocked"), n, FALSE), refiled)
    BY <1>1, CreateBlockedOpenly
  <2> QED
    BY <1>2, <1>3, <2>1
<1>5. edits' \in 0..MaxEdits
  BY <1>2, EditIs
<1>6. phase' \in [Tasks -> {"new", "running", "waiting", "ended"}]
  BY <1>2 DEF DeskInv, DeskTypes
<1> QED
  BY <1>1, <1>2, <1>4, <1>5, <1>6, DeskMoves

LEMMA UserOnActionStep ==
  ASSUME DeskInv, NEW n \in Actions, UserOnAction(n)
  PROVE  DeskInv' /\ Shown(desk, desk')
<1>1. desk \in Desks /\ Blocks(desk, refiled) /\ refiled \subseteq Actions /\ edits \in 0..MaxEdits
  BY DeskIsIts
<1>2. UNCHANGED <<phase, asks>> /\ Edit
  BY DEF UserOnAction
<1>3. Openly(desk, desk', refiled') /\ refiled' \subseteq Actions
  <2>1. CASE desk' = Block(desk, n, FALSE) /\ UNCHANGED refiled
    BY <1>1, <2>1, BlockOpenly
  <2>2. CASE \E s \in {"active", "done"} : desk' = Settle(desk, n, s) /\ UNCHANGED refiled
    <3>1. PICK s \in {"active", "done"} : desk' = Settle(desk, n, s) /\ UNCHANGED refiled
      BY <2>2
    <3>2. s \in ActionStatus \ {"blocked"}
      BY DEF ActionStatus
    <3>3. Quietly(desk, Settle(desk, n, s), refiled)
      BY <1>1, <3>2, SettleQuietly
    <3> QED
      BY <1>1, <3>1, <3>3, QuietlyOn
  <2>3. CASE desk' = [desk EXCEPT !.action[n].status = "cancelled"] /\ refiled' = refiled \cup {n}
    <3>1. PICK R : R = refiled \cup {n}
      OBVIOUS
    <3>2. n \in R /\ refiled' = R /\ Blocks(desk, R)
      BY <1>1, <2>3, <3>1, BlocksRefiled
    <3>3. "cancelled" \in ActionStatus \ {"blocked"}
      BY DEF ActionStatus
    <3>4. Quietly(desk, [desk EXCEPT !.action[n].status = "cancelled"], R)
      BY <1>1, <3>2, <3>3, RefiledQuietly
    <3> QED
      BY <1>1, <2>3, <3>1, <3>4, QuietlyOn
  <2> QED
    BY <2>1, <2>2, <2>3 DEF UserOnAction
<1>4. edits' \in 0..MaxEdits
  BY <1>2, EditIs
<1>5. phase' \in [Tasks -> {"new", "running", "waiting", "ended"}]
  BY <1>2 DEF DeskInv, DeskTypes
<1> QED
  BY <1>2, <1>3, <1>4, <1>5, DeskMoves

LEMMA UserOnCommitmentStep ==
  ASSUME DeskInv, NEW c \in Commitments, UserOnCommitment(c)
  PROVE  DeskInv' /\ Shown(desk, desk')
<1>1. desk \in Desks /\ Blocks(desk, refiled) /\ refiled \subseteq Actions /\ edits \in 0..MaxEdits
  BY DeskIsIts
<1>2. UNCHANGED <<phase, asks, refiled>> /\ Edit
  BY DEF UserOnCommitment
<1>3. Quietly(desk, desk', refiled)
  <2>1. CASE desk' = BlockCommitment(desk, c)
    BY <1>1, <2>1, BlockCommitmentQuietly
  <2>2. CASE \E s \in {"open", "completed"} : desk' = SettleCommitment(desk, c, s)
    BY <1>1, <2>2, SettleCommitmentQuietly
  <2>3. CASE desk' = [desk EXCEPT !.commitment[c].status = "cancelled"]
    <3>1. Quietly(desk, [desk EXCEPT !.commitment[c].status = "cancelled"], refiled)
      BY <1>1, CommitmentQuietly
    <3> QED
      BY <2>3, <3>1
  <2> QED
    BY <2>1, <2>2, <2>3 DEF UserOnCommitment
<1>4. Openly(desk, desk', refiled')
  BY <1>2, <1>3, QuietlyOn
<1>5. edits' \in 0..MaxEdits
  BY <1>2, EditIs
<1>6. phase' \in [Tasks -> {"new", "running", "waiting", "ended"}]
  BY <1>2 DEF DeskInv, DeskTypes
<1> QED
  BY <1>1, <1>2, <1>4, <1>5, <1>6, DeskMoves

LEMMA UserOnItemStep ==
  ASSUME DeskInv, NEW k \in ItemKeys, UserOnItem(k)
  PROVE  DeskInv' /\ Shown(desk, desk')
<1>1. desk \in Desks /\ Blocks(desk, refiled) /\ refiled \subseteq Actions /\ edits \in 0..MaxEdits
  BY DeskIsIts
<1>2. /\ UNCHANGED <<phase, asks, refiled>> /\ Edit /\ desk.item[k].status # "none"
      /\ desk' = [desk EXCEPT !.item[k].status = "closed"]
  BY DEF UserOnItem
<1>3. Quietly(desk, desk', refiled)
  <2> DEFINE row == [desk.item[k] EXCEPT !.status = "closed"]
  <2>1. PICK e : e = [desk EXCEPT !.item[k].status = "closed"]
    OBVIOUS
  <2>2. row \in ItemRows /\ row.status = "closed"
    BY <1>1, DeskParts DEF ItemRows, ItemStatus
  <2>3. e = [action |-> desk.action, commitment |-> desk.commitment, item |-> [desk.item EXCEPT ![k] = row]]
    BY <1>1, <2>1, DeskParts DEF Desks
  <2> HIDE DEF row
  <2>4. [desk.item EXCEPT ![k] = row] \in [ItemKeys -> ItemRows]
    BY <1>1, <2>2, DeskParts
  <2>5. /\ e \in Desks /\ e.action = desk.action /\ e.item[k].status = "closed"
        /\ \A j \in ItemKeys \ {k} : e.item[j] = desk.item[j]
    BY <1>1, <2>2, <2>3, <2>4, DeskParts DEF Desks
  <2>6. Blocks(e, refiled)
    BY <1>1, <2>5, ItemKeysApart DEF Blocks
  <2>7. NoneAsks(desk, e) /\ Silent(desk, e)
    BY <1>2, <2>5, ItemKeysApart DEF NoneAsks, Silent
  <2> QED
    BY <1>2, <2>1, <2>5, <2>6, <2>7 DEF Quietly
<1>4. Openly(desk, desk', refiled')
  BY <1>2, <1>3, QuietlyOn
<1>5. edits' \in 0..MaxEdits
  BY <1>2, EditIs
<1>6. phase' \in [Tasks -> {"new", "running", "waiting", "ended"}]
  BY <1>2 DEF DeskInv, DeskTypes
<1> QED
  BY <1>1, <1>2, <1>4, <1>5, <1>6, DeskMoves

LEMMA DeskBegins == DeskInit => DeskInv
<1> SUFFICES ASSUME DeskInit PROVE DeskInv
  OBVIOUS
<1>1. NoAction \in ActionRows /\ NoItem \in ItemRows /\ [status |-> "none", task |-> NoTask] \in CommitmentRows
  BY DEF NoAction, NoItem, ActionRows, ItemRows, CommitmentRows, ActionStatus, ItemStatus
<1>2. desk \in Desks
  BY <1>1 DEF DeskInit, Desks
<1>3. /\ \A n \in Actions : desk.action[n].status = "none"
      /\ \A k \in ItemKeys : desk.item[k].status = "none"
  BY DEF DeskInit, NoAction, NoItem
<1>4. Blocks(desk, refiled)
  BY <1>3, ItemKeysApart DEF Blocks
<1>5. NoDecisionWithoutApproval
  BY <1>3, ItemKeysApart DEF NoDecisionWithoutApproval
<1>6. DeskTypes
  BY <1>2, InboxAssumption DEF DeskInit, DeskTypes
<1> QED
  BY <1>4, <1>5, <1>6 DEF DeskInv

LEMMA DeskGoesOn == DeskInv /\ [DeskNext]_deskVars => DeskInv' /\ Shown(desk, desk')
<1> SUFFICES ASSUME DeskInv, [DeskNext]_deskVars PROVE DeskInv' /\ Shown(desk, desk')
  OBVIOUS
<1>1. CASE UNCHANGED deskVars
  BY <1>1 DEF deskVars, DeskInv, DeskTypes, Blocks, NoDecisionWithoutApproval, Shown
<1> QED
  BY <1>1, CreatedStep, AskedStep, ResolvedStep, SuccessStep, FailureStep, ProjectedStep, RoutineStep,
     UserOnActionStep, UserOnCommitmentStep, UserOnItemStep DEF DeskNext, TaskEvent

LEMMA DeskHolds == DeskSpec => []DeskInv
<1>1. DeskInv /\ [DeskNext]_deskVars => DeskInv'
  BY DeskGoesOn
<1> QED
  BY <1>1, DeskBegins, PTL DEF DeskSpec

\* The rows of a session's tables have their types (CommitmentCollector,
\* InboxCollector and the services behind them).
THEOREM DeskTypeCorrect == DeskSpec => []DeskTypeOK
<1>1. DeskInv => DeskTypeOK
  BY DeskParts DEF DeskInv, DeskTypes, DeskTypeOK, ActionRows, CommitmentRows, ItemRows
<1> QED
  BY <1>1, DeskHolds, PTL

\* An item that asks for a decision is about the approval that its task waits
\* for: whether a reviewer or the clock resolved an approval, its item is closed
\* (InboxCollector on approval_requested and approval_resolved).
THEOREM DecisionsAreAwaited == DeskSpec => []NoDecisionWithoutApproval
<1>1. DeskInv => NoDecisionWithoutApproval
  BY DEF DeskInv
<1> QED
  BY <1>1, DeskHolds, PTL

\* An item that shows a block is about an action that is blocked, whichever task,
\* answer or user blocked and unblocked it, unless a user cancelled the action or
\* an answer renamed its task (NextActionService with InboxCollector behind it).
THEOREM BlocksAreCurrent == DeskSpec => []NoStaleBlock
<1>1. DeskInv => NoStaleBlock
  BY DEF DeskInv, Blocks, NoStaleBlock
<1> QED
  BY <1>1, DeskHolds, PTL

\* No step blocks an action that had no item and leaves it without one, or closes
\* the new item again (the order of the two collectors in TraceService.record).
THEOREM FailuresAreShown == DeskSpec => FailureShown
<1>1. DeskInv /\ [DeskNext]_deskVars =>
        [\A n \in Actions :
           /\ desk.item[BlockedAction(n)].status = "none"
           /\ desk'.action[n].status = "blocked"
           => desk'.item[BlockedAction(n)].status = "pending"]_deskVars
  <2> SUFFICES ASSUME DeskInv, [DeskNext]_deskVars, NEW n \in Actions,
                      desk.item[BlockedAction(n)].status = "none", desk'.action[n].status = "blocked"
               PROVE  desk'.item[BlockedAction(n)].status = "pending"
    OBVIOUS
  <2>1. DeskInv' /\ Shown(desk, desk')
    BY DeskGoesOn
  <2>2. desk'.item[BlockedAction(n)].status # "none"
    BY <2>1 DEF DeskInv, Blocks
  <2> QED
    BY <2>1, <2>2 DEF Shown
<1> QED
  BY <1>1, DeskHolds, PTL DEF DeskSpec, FailureShown

=============================================================================
