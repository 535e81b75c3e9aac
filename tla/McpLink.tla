------------------------------- MODULE McpLink -------------------------------
(***************************************************************************)
(* McpStdioTransport: the requests that the tools of a process make to one *)
(* MCP server, a child process that the transport starts when it is first  *)
(* needed, and starts again after it has gone.  Requests wait in a table   *)
(* by identifier until a line of the server, a timer, the end of the child *)
(* or a close takes them out.                                              *)
(*                                                                         *)
(* A handler of an event runs to completion with the promises it settles.  *)
(* Not modelled: listToolsSync, whose child ends within the call, and what *)
(* requests and responses say.                                             *)
(***************************************************************************)
EXTENDS Naturals

CONSTANTS
  Callers,          \* tool calls and catalog refreshes of the process
  MaxChildren,      \* bound: children started
  MaxRequests,      \* bound: requests written
  MaxCloses         \* bound: calls of close()

ASSUME LinkAssumption == MaxChildren \in Nat /\ MaxRequests \in Nat /\ MaxCloses \in Nat

VARIABLES
  child,         \* this.child: 0 is none, k the k-th child started
  started,       \* how many have been
  process,       \* what has become of each: "none", "up", "gone" before its close event, "over"
  deaf,          \* the children whose line reader was closed
  initialized,
  nextId,
  waiting,       \* this.pending: [id, serial, caller]
  wire,          \* what running children have not answered: [child, id, serial]
  caller,        \* of each caller: [stage, serial, answer]
  sent, closes   \* history: requests written, calls of close()

linkVars == <<child, started, process, deaf, initialized, nextId, waiting, wire, caller, sent, closes>>
children == <<child, started, process, deaf>>

Children == 1..MaxChildren

\* A caller awaits initialize(), then its own request.
Awaiting == {"init", "ask"}
CallerAt(stage, n, answer) == [stage |-> stage, serial |-> n, answer |-> answer]
Failed == CallerAt("failed", 0, 0)

LinkInit ==
  /\ child = 0 /\ started = 0 /\ process = [k \in Children |-> "none"] /\ deaf = {}
  /\ initialized = FALSE /\ nextId = 1 /\ waiting = {} /\ wire = {}
  /\ caller = [c \in Callers |-> CallerAt("idle", 0, 0)]
  /\ sent = 0 /\ closes = 0

-----------------------------------------------------------------------------
(* Requests.                                                                *)

\* request(), written to child k with the other entries in table and lines; the
\* write may succeed although the child has gone.
Write(c, stage, k, table, lines) ==
  /\ sent < MaxRequests /\ sent' = sent + 1 /\ nextId' = nextId + 1
  /\ waiting' = table \cup {[id |-> nextId, serial |-> sent + 1, caller |-> c]}
  /\ wire' = lines \cup {[child |-> k, id |-> nextId, serial |-> sent + 1]}
  /\ caller' = [caller EXCEPT ![c] = CallerAt(stage, sent + 1, 0)]

\* request() without a child, or with one whose stream is known to be destroyed.
Refuse(c, table, lines) ==
  /\ child = 0 \/ process[child] # "up"
  /\ waiting' = table /\ wire' = lines /\ caller' = [caller EXCEPT ![c] = Failed]
  /\ UNCHANGED <<sent, nextId>>

Post(c, stage, table, lines) ==
  \/ child # 0 /\ Write(c, stage, child, table, lines)
  \/ Refuse(c, table, lines)

\* Seeded fault: the child that is there is not looked at.
CanStartAnother == TRUE

\* start(): a child is started only when there is none.
CanStart == child = 0

Start(c) ==
  /\ CanStart /\ started < MaxChildren
  /\ child' = started + 1 /\ started' = started + 1
  /\ process' = [process EXCEPT ![started + 1] = "up"]
  /\ Write(c, "init", started + 1, waiting, wire)
  /\ UNCHANGED <<deaf, initialized, closes>>

\* callTool, listTools, ...: initialize() comes first.  An initialize in flight is
\* not waited for: each caller sends its own.
Call(c) ==
  /\ caller[c].stage \notin Awaiting
  /\ \/ ~initialized /\ Start(c)
     \/ /\ initialized \/ ~CanStart
        /\ Post(c, IF initialized THEN "ask" ELSE "init", waiting, wire)
        /\ UNCHANGED <<children, initialized, closes>>

\* The signal of requestWithAbort: the caller is told, the entry stays.
AbortCall(c) ==
  /\ caller[c].stage = "ask" /\ caller' = [caller EXCEPT ![c] = Failed]
  /\ UNCHANGED <<children, initialized, nextId, waiting, wire, sent, closes>>

-----------------------------------------------------------------------------
(* What takes requests out of the table.                                    *)

\* The promise of an entry belongs to the call that made it.
Owner(p) == caller[p.caller].stage \in Awaiting /\ caller[p.caller].serial = p.serial

\* Seeded fault: entries are dropped without a word.
RejectsNobody(entries) == [c \in Callers |-> caller[c]]

RejectedBy(entries) ==
  [c \in Callers |-> IF \E p \in entries : p.caller = c /\ Owner(p) THEN Failed ELSE caller[c]]

Reject(entries) == waiting' = waiting \ entries /\ caller' = RejectedBy(entries)

\* Seeded fault: answers are taken to come in the order of the requests.
OldestEntries(w) == {p \in waiting : \A q \in waiting : p.id <= q.id}

\* handleLine for a response to w.
Line(w) == w \in wire /\ process[w.child] = "up" /\ w.child \notin deaf
Entries(w) == {p \in waiting : p.id = w.id}

\* It timed out, or failed, or its caller was aborted: nobody is told.
Unheard(w) ==
  /\ Line(w) /\ \A p \in Entries(w) : ~Owner(p)
  /\ waiting' = waiting \ Entries(w) /\ wire' = wire \ {w}
  /\ UNCHANGED <<children, initialized, nextId, caller, sent, closes>>

\* The answer to an initialize: its caller goes on in the same turn.
Initialized(w) ==
  /\ Line(w)
  /\ \E p \in Entries(w) :
       /\ Owner(p) /\ caller[p.caller].stage = "init"
       /\ Post(p.caller, "ask", waiting \ {p}, wire \ {w})
  /\ initialized' = TRUE
  /\ UNCHANGED <<children, closes>>

\* The answer to a request, or an error for either.
Answered(w) ==
  /\ Line(w)
  /\ \E p \in Entries(w) :
       /\ Owner(p) /\ waiting' = waiting \ {p} /\ wire' = wire \ {w}
       /\ \/ caller[p.caller].stage = "ask"
             /\ caller' = [caller EXCEPT ![p.caller] = CallerAt("answered", p.serial, w.serial)]
          \/ caller' = [caller EXCEPT ![p.caller] = Failed]
  /\ UNCHANGED <<children, initialized, nextId, sent, closes>>

\* A line that is not JSON fails every request of the table.
Malformed(k) ==
  /\ process[k] = "up" /\ k \notin deaf /\ waiting # {} /\ Reject(waiting)
  /\ UNCHANGED <<children, initialized, nextId, wire, sent, closes>>

\* The timer of a request.
TimesOut(p) == p \in waiting /\ Reject({p})
             /\ UNCHANGED <<children, initialized, nextId, wire, sent, closes>>

\* The callback of a write that failed, to a child that has gone.
WriteFails(p) ==
  /\ p \in waiting /\ child # 0 /\ process[child] = "gone" /\ Reject({p})
  /\ UNCHANGED <<children, initialized, nextId, wire, sent, closes>>

\* The child ends, or is killed by a close, or could not be run, ...
Dies(k) ==
  /\ process[k] = "up" /\ process' = [process EXCEPT ![k] = "gone"]
  /\ wire' = {w \in wire : w.child # k}
  /\ UNCHANGED <<child, started, deaf, initialized, nextId, waiting, caller, sent, closes>>

\* ... which its error event tells, if it could not be run, ...
ErrorEvent(k) ==
  /\ process[k] = "gone" /\ waiting # {} /\ Reject(waiting)
  /\ UNCHANGED <<children, initialized, nextId, wire, sent, closes>>

\* ... and its close event, which asks nothing of the child that is in use by now.
CloseEvent(k) ==
  /\ process[k] = "gone" /\ process' = [process EXCEPT ![k] = "over"]
  /\ Reject(waiting) /\ child' = 0 /\ initialized' = FALSE
  /\ UNCHANGED <<started, deaf, nextId, wire, sent, closes>>

\* close(): the child is told to end; its close event is still to come.
Close ==
  /\ closes < MaxCloses /\ closes' = closes + 1
  /\ Reject(waiting) /\ deaf' = deaf \cup {started} /\ child' = 0 /\ initialized' = FALSE
  /\ UNCHANGED <<started, process, nextId, wire, sent>>

-----------------------------------------------------------------------------
LinkEvent ==
  \/ \E w \in wire : Unheard(w) \/ Initialized(w) \/ Answered(w)
  \/ \E p \in waiting : WriteFails(p)
  \/ \E k \in Children : Malformed(k) \/ Dies(k) \/ ErrorEvent(k) \/ CloseEvent(k)
  \/ Close

Expires(c) == \E p \in waiting : p.caller = c /\ Owner(p) /\ TimesOut(p)

LinkNext == LinkEvent \/ \E c \in Callers : Call(c) \/ AbortCall(c) \/ Expires(c)

\* Timers fire; servers need not answer, end or say that they have ended.
LinkSpec == LinkInit /\ [][LinkNext]_linkVars /\ \A c \in Callers : WF_linkVars(Expires(c))

-----------------------------------------------------------------------------
(* Properties                                                               *)

\* Every variable has its type.
LinkTypeOK ==
  /\ child \in 0..started /\ started \in 0..MaxChildren /\ deaf \subseteq 0..started
  /\ process \in [Children -> {"none", "up", "gone", "over"}]
  /\ initialized \in BOOLEAN /\ nextId \in Nat /\ sent \in 0..MaxRequests /\ closes \in 0..MaxCloses
  /\ \A p \in waiting : p.id < nextId /\ p.serial \in 1..sent /\ p.caller \in Callers
  /\ \A w \in wire : w.child \in 1..started /\ w.serial \in 1..sent
  /\ \A c \in Callers : /\ caller[c].stage \in Awaiting \cup {"idle", "answered", "failed"}
                       /\ caller[c].serial \in 0..sent /\ caller[c].answer \in 0..sent

\* A call is given the answer to its own request, however many have timed out,
\* were aborted or failed before it and are answered late, and by whichever child.
AnswerIsOwn == \A c \in Callers : caller[c].stage = "answered" => caller[c].answer = caller[c].serial

\* Until the transport is closed there is one server at most, and the transport
\* knows it: a child is replaced only after its close event.
OneServer == closes = 0 => \A k \in Children : process[k] = "up" => k = child

\* No call waits forever, whatever the server does: each entry has its timer, and
\* whatever takes an entry out of the table settles the call it belongs to.
CallsSettle == \A c \in Callers : (caller[c].stage \in Awaiting) ~> (caller[c].stage \notin Awaiting)
=============================================================================
