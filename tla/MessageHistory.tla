--------------------------- MODULE MessageHistory ---------------------------
(***************************************************************************)
(* The messages of a task, which every request carries to the model: how   *)
(* turns, denied and clarified calls, a context overflow and a compaction  *)
(* change them, and the two repairs on their way out.  A provider refuses  *)
(* a request in which a call has no result or a result has no call.        *)
(*                                                                         *)
(* What a message says is left out, and with it what only rewrites or      *)
(* pins texts: pruneOldToolResults, the pinned file reads and the todos.   *)
(* In the code the list that is sent is a copy of the one that is kept,    *)
(* until the end of a turn; here they are one.                             *)
(***************************************************************************)
EXTENDS Integers, Sequences, FiniteSets

CONSTANTS
  ProtectFirst, TailMin,   \* compact.protectFirstN and tailMinMessages
  MaxTurns, MaxTurnCalls   \* bounds: requests of the task, calls of one answer

ASSUME HistoryAssumption ==
  /\ ProtectFirst \in Nat /\ TailMin \in Nat \ {0}
  /\ MaxTurns \in Nat /\ MaxTurnCalls \in Nat \ {0}

VARIABLES
  messages,
  step,        \* "plan" a request, "asked" the model, "tools" of its answer
  turn,        \* the number of the request
  retried,     \* the request was made a second time
  toRun,       \* the calls of the turn that are still to be run
  split        \* history: something was put between a call and its result

histVars == <<messages, step, turn, retried, toRun, split>>

\* A call is identified by its turn and its place in the answer.
Message(role, calls, id) == [role |-> role, calls |-> calls, id |-> id]
System   == Message("system", {}, <<>>)
Handoff  == Message("handoff", {}, <<>>)     \* the system message of a compaction
User     == Message("user", {}, <<>>)
Text     == Message("assistant", {}, <<>>)
Asks(C)  == Message("assistant", C, <<>>)
Result(c) == Message("tool", {}, c)

\* A task of a session that has gone on for a while starts with its messages.
Earlier == <<System, User, Asks({<<0, 1>>}), Result(<<0, 1>>), Text, User>>

HistInit ==
  /\ messages \in {<<System, User>>, Earlier}
  /\ step = "plan" /\ turn = 0 /\ retried = FALSE /\ toRun = <<>> /\ split = FALSE

-----------------------------------------------------------------------------
(* Lists that are made of others: a value has a place, a pair of numbers.   *)

Before(p, q) == p[1] < q[1] \/ (p[1] = q[1] /\ p[2] < q[2])

Position(p, P) == Cardinality({q \in P : Before(q, p)}) + 1

\* The values of f in the order of their places.
Listed(f) ==
  [n \in 1..Cardinality(DOMAIN f) |-> f[CHOOSE p \in DOMAIN f : Position(p, DOMAIN f) = n]]

Picked(m, I) == Listed([p \in I \X {0} |-> m[p[1]]])

-----------------------------------------------------------------------------
(* Calls and the results that follow them.                                  *)

IsTool(m, i)    == i \in DOMAIN m /\ m[i].role = "tool"
ResultsOf(m, i) == {j \in (i + 1)..Len(m) : \A k \in (i + 1)..j : IsTool(m, k)}
Answers(m, i)   == {m[j].id : j \in ResultsOf(m, i)}

\* Seeded fault: calls without a result stay beside those with one.
Unrepaired(m, i) == m[i]

Repaired(m, i) ==
  IF m[i].calls = {} \/ ResultsOf(m, i) = {} THEN m[i]
  ELSE [m[i] EXCEPT !.calls = @ \cap Answers(m, i)]

\* sanitizeToolCallPairing: of an answer with some results the other calls are
\* taken back, one without any gets a placeholder for each call.
Sanitized(m) ==
  LET holders == {p \in (DOMAIN m) \X (1..MaxTurnCalls) :
                    ResultsOf(m, p[1]) = {} /\ \E c \in m[p[1]].calls : c[2] = p[2]}
  IN Listed([p \in ((DOMAIN m) \X {0}) \cup holders |->
               IF p[2] = 0 THEN Repaired(m, p[1])
               ELSE Result(CHOOSE c \in m[p[1]].calls : c[2] = p[2])])

\* A result that is not the first one of a call it follows.
Stray(m, j) ==
  /\ IsTool(m, j)
  /\ \A i \in 1..(j - 1) :
       \/ IsTool(m, i) \/ j \notin ResultsOf(m, i)
       \/ m[j].id \notin m[i].calls
       \/ \E k \in (i + 1)..(j - 1) : m[k].id = m[j].id

\* Calls of which none has a result are taken back.
Stripped(m) ==
  [i \in 1..Len(m) |->
     IF m[i].calls # {} /\ m[i].calls \cap Answers(m, i) = {} THEN Text ELSE m[i]]

\* normalizeOpenAiCompatibleMessages.
Normalised(m) == Stripped(Picked(m, {i \in DOMAIN m : ~Stray(m, i)}))

-----------------------------------------------------------------------------
(* A request.                                                               *)

Prepare ==
  /\ step = "plan" /\ turn < MaxTurns
  /\ messages' = Sanitized(messages)
  /\ step' = "asked" /\ turn' = turn + 1 /\ retried' = FALSE
  /\ UNCHANGED <<toRun, split>>

\* isReactiveCompactDroppable
LatestUser(m, i) ==
  m[i].role = "user" /\ \A j \in DOMAIN m : m[j].role = "user" => j <= i
Droppable(m) == {i \in DOMAIN m : m[i].role # "system" /\ ~LatestUser(m, i)}

\* dropOldestCompactibleMessages: a call goes with its results.
Drops(m) ==
  LET oldest == CHOOSE i \in Droppable(m) : \A j \in Droppable(m) : i <= j
  IN {oldest} \cup (IF m[oldest].calls = {} THEN {} ELSE ResultsOf(m, oldest))

Dropped(m) == Picked(m, (DOMAIN m) \ Drops(m))

Retry ==
  /\ step = "asked" /\ ~retried /\ retried' = TRUE
  /\ \/ Droppable(messages) # {} /\ messages' = Dropped(messages)    \* context overflow
     \/ messages' = Append(messages, System)                        \* recovery from a timeout
  /\ UNCHANGED <<step, turn, toRun, split>>

\* A text that is not the end of the task: its verification is asked for.
AnswerText ==
  /\ step = "asked" /\ step' = "plan"
  /\ \E guard \in {<<>>, <<System>>} : messages' = messages \o <<Text>> \o guard
  /\ UNCHANGED <<turn, retried, toRun, split>>

AnswerTools(n) ==
  /\ step = "asked" /\ step' = "tools"
  /\ messages' = Append(messages, Asks({<<turn, i>> : i \in 1..n}))
  /\ toRun' = [i \in 1..n |-> <<turn, i>>]
  /\ UNCHANGED <<turn, retried, split>>

-----------------------------------------------------------------------------
(* Its tools.                                                               *)

ToolEnds ==
  /\ step = "tools" /\ toRun # <<>> /\ toRun' = Tail(toRun)
  /\ messages' = Append(messages, Result(Head(toRun)))
  /\ UNCHANGED <<step, turn, retried, split>>

\* The task is parked for an approval of the j-th call, without those of the
\* same batch before it, and resumed with the rest, or with a denied call alone.
Approval(j) ==
  /\ step = "tools" /\ j \in DOMAIN toRun
  /\ toRun' \in {SubSeq(toRun, j, Len(toRun)), <<toRun[j]>>}
  /\ UNCHANGED <<messages, step, turn, retried, split>>

\* answerClarifyPrompt adds the answer to the checkpoint as a message of the
\* user; in the resumed task ask_user ends without a result message.
Clarification(j) ==
  /\ step = "tools" /\ j \in DOMAIN toRun
  /\ messages' = Append(messages, User)
  /\ toRun' = SubSeq(toRun, j + 1, Len(toRun))
  /\ split' = (split \/ j < Len(toRun))
  /\ UNCHANGED <<step, turn, retried>>

-----------------------------------------------------------------------------
(* The end of the turn, and the compaction.                                 *)

\* selectHeadMessages
Talk(m)        == {i \in DOMAIN m : m[i].role \notin {"system", "handoff"}}
HeadIndexes(m) == {i \in Talk(m) : Cardinality({j \in Talk(m) : j < i}) < ProtectFirst}

Least(m) == IF TailMin < Len(m) THEN Len(m) - TailMin + 1 ELSE 1

\* Seeded fault: the tail starts wherever its length puts it.
TailStartsAnywhere(m) == {Least(m)}

\* selectTailMessages: where a tail of TailMin messages may start, without
\* cutting a block, and what the budget of tokens adds to it.
TailStarts(m) ==
  LET heads  == {i \in 1..(Least(m) - 1) : Least(m) \in ResultsOf(m, i) /\ m[i].calls # {}}
      rewind == IF heads = {} THEN {Least(m)} ELSE heads
  IN rewind \cup {i \in DOMAIN m : ~IsTool(m, i) /\ \E start \in rewind : i < start}

\* mergeProtectedMessages, with the handoff after the head, and the system prompt.
Compacted(m, start) ==
  LET head == HeadIndexes(m)
      tail == (start..Len(m)) \ head
  IN Listed([p \in {<<0, 0>>} \cup ({1} \X head) \cup {<<2, 0>>} \cup ({3} \X tail) |->
               CASE p[1] = 0 -> System [] p[1] = 2 -> Handoff [] OTHER -> m[p[2]]])

\* The head ends inside a block that the tail holds: the handoff comes between.
Cuts(m, start) ==
  \E h \in HeadIndexes(m) : (\A i \in HeadIndexes(m) : i <= h) /\ IsTool(m, h + 1) /\ start <= h + 1

EndToolTurn ==
  /\ step = "tools" /\ toRun = <<>> /\ step' = "plan"
  /\ \E m \in {messages, Append(messages, System)} :
       \/ messages' = m /\ UNCHANGED split
       \/ \E start \in TailStarts(m) :
            messages' = Compacted(m, start) /\ split' = (split \/ Cuts(m, start))
  /\ UNCHANGED <<turn, retried, toRun>>

-----------------------------------------------------------------------------
HistNext ==
  \/ Prepare \/ Retry \/ AnswerText \/ ToolEnds \/ EndToolTurn
  \/ \E n \in 1..MaxTurnCalls : AnswerTools(n)
  \/ \E j \in 1..MaxTurnCalls : Approval(j) \/ Clarification(j)

HistSpec == HistInit /\ [][HistNext]_histVars

-----------------------------------------------------------------------------
(* Properties                                                               *)

\* Every variable has its type, and the first message is the system prompt.
HistTypeOK ==
  /\ \A i \in DOMAIN messages : messages[i].role \in {"system", "handoff", "user", "assistant", "tool"}
  /\ messages[1] = System
  /\ step \in {"plan", "asked", "tools"} /\ turn \in 0..MaxTurns
  /\ {retried, split} \subseteq BOOLEAN /\ Len(toRun) <= MaxTurnCalls

\* What an OpenAI-compatible provider is sent has a result for every call, right
\* after it, and a call for every result, however the task was parked, cut and
\* compacted: sanitizeToolCallPairing leaves no call without a result, and
\* normalizeOpenAiCompatibleMessages no result without a call.
RequestsPaired ==
  step = "asked" =>
    LET sent == Normalised(messages)
    IN /\ \A i \in DOMAIN sent : sent[i].role = "assistant" => sent[i].calls = Answers(sent, i)
       /\ \A i \in DOMAIN sent : IsTool(sent, i) => ~Stray(sent, i)

\* The model is shown every result that the task still holds, and the requests of
\* the other providers need no such repair: unless the answer to a clarification
\* or a handoff was put between a call and its result.
ResultsReachModel == step = "asked" /\ ~split => Normalised(messages) = messages
=============================================================================
