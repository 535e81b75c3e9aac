------------------------------- MODULE MCParts -------------------------------
(***************************************************************************)
(* One instance of the parts that share no state with each other: requests *)
(* to models, the loop of a task, the inbox, an MCP server, a Feishu chat, *)
(* the messages of a task, the chat in the terminal, the rate limit of the *)
(* gateway.  A behaviour is one of one part, chosen at its start; the      *)
(* others stay as they begin.                                              *)
(***************************************************************************)
EXTENDS ModelCalls, AgentLoop, InboxFlow, McpLink, FeishuChat, MessageHistory,
        ChatController, GatewayGuard

CONSTANTS t1, t2, s1, A, B, w1, w2

\* A session of two tasks, a model with two keys that is cheap and the fallback,
\* and one that only a switch chooses.
TwoTasks       == {t1, t2}
OneSession     == {s1}
SameSession    == [t \in {t1, t2} |-> s1]
TwoModels      == {A, B}
CheapOnly      == [cheap |-> A, balanced |-> NoModel, quality |-> NoModel]
TwoKeys        == [m \in {A, B} |-> IF m = A THEN <<1, 2>> ELSE <<1>>]
FallBackToA    == <<A>>
TwoSessions    == {w1, w2}

VARIABLE part

parts ==
  <<callVars, loopVars, deskVars, linkVars, chatVars, histVars, ctrlVars, guardVars>>

Init ==
  /\ part \in {"calls", "loop", "desk", "link", "chat", "history", "screen", "guard"}
  /\ CallInit /\ LoopInit /\ DeskInit /\ LinkInit
  /\ ChatInit /\ HistInit /\ ControllerInit /\ GuardInit
  /\ default = A
  /\ activeSession = w1
  /\ part # "history" => Len(messages) = 2

\* The parts that do not move.
OnlyCalls ==
  part = "calls" /\ UNCHANGED <<loopVars, deskVars, linkVars, chatVars, histVars, ctrlVars, guardVars>>
OnlyLoop ==
  part = "loop" /\ UNCHANGED <<callVars, deskVars, linkVars, chatVars, histVars, ctrlVars, guardVars>>
OnlyDesk ==
  part = "desk" /\ UNCHANGED <<callVars, loopVars, linkVars, chatVars, histVars, ctrlVars, guardVars>>
OnlyLink ==
  part = "link" /\ UNCHANGED <<callVars, loopVars, deskVars, chatVars, histVars, ctrlVars, guardVars>>
OnlyChat ==
  part = "chat" /\ UNCHANGED <<callVars, loopVars, deskVars, linkVars, histVars, ctrlVars, guardVars>>
OnlyHistory ==
  part = "history" /\ UNCHANGED <<callVars, loopVars, deskVars, linkVars, chatVars, ctrlVars, guardVars>>
OnlyScreen ==
  part = "screen" /\ UNCHANGED <<callVars, loopVars, deskVars, linkVars, chatVars, histVars, guardVars>>
OnlyGuard ==
  part = "guard" /\ UNCHANGED <<callVars, loopVars, deskVars, linkVars, chatVars, histVars, ctrlVars>>

Next ==
  /\ UNCHANGED part
  /\ \/ OnlyCalls /\ CallNext
     \/ OnlyLoop /\ LoopNext
     \/ OnlyDesk /\ DeskNext
     \/ OnlyLink /\ LinkNext
     \/ OnlyChat /\ ChatNext
     \/ OnlyHistory /\ HistNext
     \/ OnlyScreen /\ ControllerNext
     \/ OnlyGuard /\ GuardNext

\* The fairness of LoopSpec, of LinkSpec and of ControllerSpec.
Spec ==
  /\ Init /\ [][Next]_<<part, parts>>
  /\ WF_loopVars(part = "loop" /\ LoopStep)
  /\ \A c \in Callers : WF_linkVars(part = "link" /\ Expires(c))
  /\ WF_ctrlVars(part = "screen" /\ ControllerStep)

\* The types of all parts.
PartsTypeOK ==
  /\ CallTypeOK /\ LoopTypeOK /\ DeskTypeOK /\ LinkTypeOK
  /\ ChatTypeOK /\ HistTypeOK /\ ChatTypeInv /\ GuardTypeOK
=============================================================================
