----------------------------- MODULE ReviewedCall -----------------------------
(***************************************************************************)
(* What a user is promised of the tool calls of a turn: a tool runs once   *)
(* at most, and only if the call needs no reviewer or its own reviewer has *)
(* allowed it; a verdict is final, and is asked for before the tool runs;  *)
(* what an allow covers is never taken back; a call that is over stays so. *)
(***************************************************************************)
EXTENDS Naturals

CONSTANT Calls

VARIABLES
  gate,     \* the approval of each call, "none" before it is requested
  runs,     \* how often its tool was run
  over,     \* the calls that came to an end, with or without their tool
  exempt    \* the calls that need no reviewer

callVars == <<gate, runs, over, exempt>>

Init ==
  /\ gate = [i \in Calls |-> "none"]
  /\ runs = [i \in Calls |-> 0]
  /\ over = {} /\ exempt = {}

\* Nothing has become of the call yet.
New(i) == runs[i] = 0 /\ i \notin over

\* The model asks for the calls: what they need follows from their tools.
Ask ==
  /\ Init
  /\ exempt' \in SUBSET Calls
  /\ UNCHANGED <<gate, runs, over>>

Request(i) ==
  /\ New(i) /\ gate[i] = "none" /\ i \notin exempt
  /\ gate' = [gate EXCEPT ![i] = "pending"]
  /\ UNCHANGED <<runs, over, exempt>>

\* An allow may cover other calls as well.
Allow(i) ==
  /\ New(i) /\ gate[i] = "pending"
  /\ gate' = [gate EXCEPT ![i] = "approved"]
  /\ exempt' \in SUBSET Calls /\ exempt \subseteq exempt'
  /\ UNCHANGED <<runs, over>>

\* By a reviewer or by the clock; the call ends with it or later.
Reject(i) ==
  /\ New(i) /\ gate[i] = "pending"
  /\ \E as \in {"denied", "timed_out"} : gate' = [gate EXCEPT ![i] = as]
  /\ over' \in {over, over \cup {i}}
  /\ UNCHANGED <<runs, exempt>>

Start(i) ==
  /\ New(i)
  /\ gate[i] = "approved" \/ (gate[i] = "none" /\ i \in exempt)
  /\ runs' = [runs EXCEPT ![i] = @ + 1]
  /\ UNCHANGED <<gate, over, exempt>>

\* The tool returns, or the call is refused or rejected.
End(i) ==
  /\ i \notin over /\ gate[i] # "pending"
  /\ over' = over \cup {i}
  /\ UNCHANGED <<gate, runs, exempt>>

Next ==
  \/ Ask
  \/ \E i \in Calls : Request(i) \/ Allow(i) \/ Reject(i) \/ Start(i) \/ End(i)

Spec == Init /\ [][Next]_callVars
=============================================================================
