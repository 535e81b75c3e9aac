--------------------------- MODULE ToolTurn_proofs ---------------------------
(***************************************************************************)
(* Theorems about ToolTurn, for a turn of any length, any kinds of tools   *)
(* and whatever may happen around the loop.                                *)
(***************************************************************************)
EXTENDS ToolTurn, TLAPS

\* The calls of the turn.
Asked == 1 .. Len(turn)

\* Lists of calls, none longer than the turn, and the checkpoints of a turn of
\* n calls.
Lists(n) == {s \in Seq(1 .. n) : Len(s) <= n}
Saved(n) == [pending : Lists(n), results : Seq(1 .. n)]

\* The rows of the database and the state of the loop are what they are
\* declared to be, and no list names a call the model has not made.
Rows ==
  /\ status \in TaskStatus
  /\ turn \in Seq(Kinds) /\ Len(turn) <= MaxCalls
  /\ row \in [Calls -> CallStatus \cup {"none"}]
  /\ approval \in [Calls -> Approval]
  /\ prompt \in [Calls -> Prompt]
  /\ ruled \subseteq Kinds
  /\ execs \in [Calls -> Nat]
  /\ verdicts \subseteq [call : Calls, by : {"allow", "reject"}]
  /\ recovered \in BOOLEAN

Shapes ==
  /\ pc \in {"off", "provider", "calls", "preflight", "await", "park"}
  /\ pending \in Lists(Len(turn)) /\ pos \in 1 .. Len(pending) + 1
  /\ cleared \in Seq(Asked) /\ results \in Seq(Asked)
  /\ checkpoint \in Saved(Len(turn)) \cup {NoCheckpoint}
  /\ parking \subseteq Saved(Len(turn))
  /\ inflight \subseteq Asked /\ executing \subseteq Asked

Types == Rows /\ Shapes

-----------------------------------------------------------------------------
(* What execute may come back with                                         *)

\* TOOL_CALL_STATUS_TRANSITIONS, row by row.
LEMMA Moves ==
  \A from, to \in CallStatus :
    CanMoveCall(from, to) <=>
      \/ from = to
      \/ from = "requested" /\ to \in {"awaiting_approval", "started", "failed"}
      \/ from = "awaiting_approval" /\ to \in {"approved", "denied", "timed_out"}
      \/ from = "approved" /\ to \in {"started", "denied", "timed_out"}
      \/ from = "started" /\ to \in {"finished", "failed", "timed_out"}
BY DEF CanMoveCall, CallTransitions, CallStatus, CallEnded

\* A call of the turn is a call, and of a kind the model may call.
LEMMA AskedCalls ==
  ASSUME Rows, NEW i \in Asked
  PROVE  /\ i \in Calls /\ turn[i] \in AllKinds /\ Len(turn) \in Nat
         /\ row[i] \in CallStatus \cup {"none"} /\ approval[i] \in Approval /\ prompt[i] \in Prompt
         /\ Entered(i) \in CallStatus
         /\ Entered(i) = IF row[i] = "none" THEN "requested" ELSE row[i]
<1>1. i \in Calls /\ turn[i] \in Kinds /\ Len(turn) \in Nat
  BY CallsAssumption DEF Rows, Asked, Calls
<1>2. turn[i] \in AllKinds
  BY <1>1, KindAssumption
<1>3. row[i] \in CallStatus \cup {"none"} /\ approval[i] \in Approval /\ prompt[i] \in Prompt
  BY <1>1 DEF Rows
<1>4. "requested" \in CallStatus
  BY DEF CallStatus
<1> QED
  BY <1>1, <1>2, <1>3, <1>4 DEF Entered

\* A step of a call's row is taken, or it throws and leaves the row.
LEMMA ReachingIs ==
  ASSUME Rows, NEW i \in Asked, NEW v, NEW to \in CallStatus, NEW a, NEW p
  PROVE  LET o == Reaching(i, v, to, a, p) IN
         /\ o.approval = a /\ o.prompt = p
         /\ \/ /\ o.verdict = v /\ o.row = to
               /\ \/ CanMoveCall(Entered(i), to)
                  \/ Entered(i) = "requested" /\ (to = "approved" \/ turn[i] = "ask")
            \/ /\ o.verdict = "throw" /\ o.row = Entered(i)
               /\ ~CanMoveCall(Entered(i), to) /\ ~(Entered(i) = "requested" /\ to = "approved")
BY DEF Reaching, Outcome

\* What a gate makes of an approval `a', and a question of its prompt `p': how
\* execute ends and where it wants the row, which is at `at'.
AtGate(v, to, a, at) ==
  \/ a = "pending"  /\ v = "park"  /\ to = (IF at = "approved" THEN "approved" ELSE "awaiting_approval")
  \/ a = "approved" /\ v = "clear" /\ to = "approved"
  \/ a \in {"denied", "timed_out"} /\ v = "done" /\ to = a

AtQuestion(v, to, p) ==
  \/ p = "pending"   /\ v = "park" /\ to = "started"
  \/ p = "answered"  /\ v = "done" /\ to = "finished"
  \/ p = "cancelled" /\ v = "done" /\ to = "failed"
  \/ p = "timed_out" /\ v = "done" /\ to = "timed_out"

\* The way of a call to its outcome, by its kind and the rules.
Way(i, v, to, a, p) ==
  \/ v = "done" /\ to = "failed" /\ a = approval[i] /\ p = prompt[i]
  \/ /\ turn[i] = "ask"
     /\ a = approval[i] /\ p \in Read(prompt[i]) /\ AtQuestion(v, to, p)
  \/ /\ turn[i] # "ask" /\ NeedsApproval(i)
     /\ p = prompt[i] /\ a \in Read(approval[i]) /\ AtGate(v, to, a, Entered(i))
  \/ /\ turn[i] # "ask" /\ ~NeedsApproval(i)
     /\ a = approval[i] /\ p = prompt[i]
     /\ v = "clear" /\ to = (IF Gated(turn[i]) THEN "approved" ELSE Entered(i))

\* A record is read as it is, as new, or as expired.
LEMMA ReadIs ==
  ASSUME NEW r, NEW q \in Read(r)
  PROVE  \/ r = "none" /\ q = "pending"
         \/ r = "pending" /\ q \in {"pending", "timed_out"}
         \/ r \notin {"none", "pending"} /\ q = r
BY DEF Read

\* Every outcome of a call that has not come to its end before is reached on
\* one of these ways.
LEMMA Ways ==
  ASSUME Rows, NEW i \in Asked, NEW o \in Outcomes(i), row[i] \notin {"failed", "finished"}
  PROVE  \E v, to, a, p : o = Reaching(i, v, to, a, p) /\ to \in CallStatus /\ Way(i, v, to, a, p)
<1>0. Entered(i) \in CallStatus /\ approval[i] \in Approval /\ prompt[i] \in Prompt
  BY AskedCalls
<1>s. CallStatus = {"requested", "awaiting_approval", "approved", "started",
                   "denied", "timed_out", "finished", "failed"}
  BY DEF CallStatus
<1>1. \/ o \in Faults(i)
      \/ turn[i] = "ask" /\ o \in AtPrompt(i)
      \/ turn[i] # "ask" /\ NeedsApproval(i) /\ o \in AtApproval(i)
      \/ turn[i] # "ask" /\ ~NeedsApproval(i) /\ o \in AtOnce(i)
  BY DEF Outcomes, Replayed
<1>2. CASE o \in Faults(i)
  <2>1. o = Reaching(i, "done", "failed", approval[i], prompt[i])
    BY <1>2 DEF Faults
  <2>2. Way(i, "done", "failed", approval[i], prompt[i])
    BY DEF Way
  <2> QED
    BY <2>1, <2>2, <1>s
<1>3. CASE turn[i] = "ask" /\ o \in AtPrompt(i)
  <2>1. PICK p \in Read(prompt[i]) :
          o = CASE p = "pending"   -> Reaching(i, "park", "started", approval[i], p)
                [] p = "answered"  -> Reaching(i, "done", "finished", approval[i], p)
                [] p = "cancelled" -> Reaching(i, "done", "failed", approval[i], p)
                [] p = "timed_out" -> Reaching(i, "done", "timed_out", approval[i], p)
    BY <1>3 DEF AtPrompt
  <2>2. p \in {"pending", "answered", "cancelled", "timed_out"}
    BY <1>0, ReadIs DEF Prompt
  <2>3. PICK v, to : o = Reaching(i, v, to, approval[i], p) /\ to \in CallStatus /\ AtQuestion(v, to, p)
    BY <2>1, <2>2, <1>s DEF AtQuestion
  <2>4. Way(i, v, to, approval[i], p)
    BY <1>3, <2>1, <2>3 DEF Way
  <2> QED
    BY <2>3, <2>4
<1>4. CASE turn[i] # "ask" /\ NeedsApproval(i) /\ o \in AtApproval(i)
  <2> DEFINE Parked == IF Entered(i) = "approved" THEN "approved" ELSE "awaiting_approval"
  <2>1. PICK a \in Read(approval[i]) :
          o = CASE a = "pending"                  -> Reaching(i, "park", Parked, a, prompt[i])
                [] a = "approved"                 -> Reaching(i, "clear", "approved", a, prompt[i])
                [] a \in {"denied", "timed_out"} -> Reaching(i, "done", a, a, prompt[i])
    BY <1>4 DEF AtApproval
  <2>2. a \in {"pending", "approved", "denied", "timed_out"}
    BY <1>0, ReadIs DEF Approval
  <2>3. PICK v, to : /\ o = Reaching(i, v, to, a, prompt[i]) /\ to \in CallStatus
                     /\ AtGate(v, to, a, Entered(i))
    BY <2>1, <2>2, <1>s DEF AtGate
  <2>4. Way(i, v, to, a, prompt[i])
    BY <1>4, <2>1, <2>3 DEF Way
  <2> QED
    BY <2>3, <2>4
<1>5. CASE turn[i] # "ask" /\ ~NeedsApproval(i) /\ o \in AtOnce(i)
  <2> DEFINE to == IF Gated(turn[i]) THEN "approved" ELSE Entered(i)
  <2>1. o = Reaching(i, "clear", to, approval[i], prompt[i]) /\ to \in CallStatus
    BY <1>5, <1>0, <1>s DEF AtOnce
  <2>2. Way(i, "clear", to, approval[i], prompt[i])
    BY <1>5 DEF Way
  <2> QED
    BY <2>1, <2>2
<1> QED
  BY <1>1, <1>2, <1>3, <1>4, <1>5

\* What an outcome is, in one formula without the tables.
LEMMA OutcomeIs ==
  ASSUME Rows, NEW i \in Asked, NEW o \in Outcomes(i)
  PROVE  \/ /\ row[i] = "failed" /\ o.verdict = "throw" /\ o.row = "failed"
            /\ o.approval = approval[i] /\ o.prompt = prompt[i]
         \/ /\ row[i] = "finished" /\ o.verdict = "done" /\ o.row = "finished"
            /\ o.approval = approval[i] /\ o.prompt = prompt[i]
         \/ /\ row[i] \notin {"failed", "finished"}
            /\ \E v, to : /\ to \in CallStatus /\ Way(i, v, to, o.approval, o.prompt)
                          /\ \/ /\ o.verdict = v /\ o.row = to
                                /\ \/ CanMoveCall(Entered(i), to)
                                   \/ Entered(i) = "requested" /\ (to = "approved" \/ turn[i] = "ask")
                             \/ /\ o.verdict = "throw" /\ o.row = Entered(i)
                                /\ ~CanMoveCall(Entered(i), to)
                                /\ ~(Entered(i) = "requested" /\ to = "approved")
<1>1. CASE row[i] = "failed"
  <2>1. o = Throws(i)
    BY <1>1 DEF Outcomes
  <2> QED
    BY <1>1, <2>1 DEF Throws, Outcome, Entered
<1>2. CASE row[i] = "finished"
  <2>1. o = Outcome("done", row[i], approval[i], prompt[i])
    BY <1>2 DEF Outcomes, Replayed
  <2> QED
    BY <1>2, <2>1 DEF Outcome
<1>3. CASE row[i] \notin {"failed", "finished"}
  <2>1. PICK v, to, a, p : o = Reaching(i, v, to, a, p) /\ to \in CallStatus /\ Way(i, v, to, a, p)
    BY <1>3, Ways
  <2>2. /\ o.approval = a /\ o.prompt = p
        /\ \/ /\ o.verdict = v /\ o.row = to
              /\ \/ CanMoveCall(Entered(i), to)
                 \/ Entered(i) = "requested" /\ (to = "approved" \/ turn[i] = "ask")
           \/ /\ o.verdict = "throw" /\ o.row = Entered(i)
              /\ ~CanMoveCall(Entered(i), to) /\ ~(Entered(i) = "requested" /\ to = "approved")
    BY <2>1, ReachingIs
  <2> QED
    BY <1>3, <2>1, <2>2
<1> QED
  BY <1>1, <1>2, <1>3

\* An outcome is of the types of the rows it is stored in.
LEMMA OutcomeTypes ==
  ASSUME Rows, NEW i \in Asked, NEW o \in Outcomes(i)
  PROVE  /\ o.verdict \in {"throw", "clear", "done", "park"}
         /\ o.row \in CallStatus /\ o.approval \in Approval /\ o.prompt \in Prompt
<1>0. Entered(i) \in CallStatus /\ approval[i] \in Approval /\ prompt[i] \in Prompt
  BY AskedCalls
<1>1. ASSUME NEW v, NEW to, Way(i, v, to, o.approval, o.prompt)
      PROVE  v \in {"clear", "done", "park"} /\ o.approval \in Approval /\ o.prompt \in Prompt
  <2>1. v \in {"clear", "done", "park"}
    BY <1>1 DEF Way, AtQuestion, AtGate
  <2>2. o.approval \in {approval[i]} \cup Read(approval[i]) /\ o.prompt \in {prompt[i]} \cup Read(prompt[i])
    BY <1>1 DEF Way
  <2>3. o.approval \in Approval
    BY <2>2, <1>0, ReadIs DEF Approval
  <2>4. o.prompt \in Prompt
    BY <2>2, <1>0, ReadIs DEF Prompt
  <2> QED
    BY <2>1, <2>3, <2>4
<1>2. "failed" \in CallStatus /\ "finished" \in CallStatus
  BY DEF CallStatus
<1> QED
  BY <1>0, <1>1, <1>2, OutcomeIs

-----------------------------------------------------------------------------
(* Types                                                                   *)

\* Facts about sequences that the lists of the loop need.
LEMMA Appends == \A S : \A s \in Seq(S), e \in S : Append(s, e) \in Seq(S)
OBVIOUS

LEMMA Joins == \A S : \A s, t \in Seq(S) : s \o t \in Seq(S)
OBVIOUS

LEMMA Rests ==
  ASSUME NEW n \in Nat, NEW s \in Lists(n), NEW p \in 1 .. Len(s) + 1
  PROVE  /\ SubSeq(s, p, Len(s)) \in Lists(n)
         /\ Len(SubSeq(s, p, Len(s))) = Len(s) - p + 1
         /\ \A k \in 1 .. Len(s) - p + 1 : SubSeq(s, p, Len(s))[k] = s[p + k - 1]
<1> DEFINE r == SubSeq(s, p, Len(s))
<1>1. r = [k \in 1 .. Len(s) - p + 1 |-> s[p + k - 1]] /\ Len(r) = Len(s) - p + 1
  BY DEF Lists
<1>2. \A k \in 1 .. Len(s) - p + 1 : s[p + k - 1] \in 1 .. n
  BY DEF Lists
<1>3. r \in Seq(1 .. n)
  BY <1>1, <1>2 DEF Lists
<1> QED
  BY <1>1, <1>3 DEF Lists

\* A sequence of nothing is empty.
LEMMA Empties == \A s \in Seq(1 .. 0) : s = << >> /\ Len(s) = 0
OBVIOUS

\* The call at hand is a call of the turn.
LEMMA CurrentAsked == ASSUME Types, pos \in DOMAIN pending PROVE Current \in Asked
BY DEF Types, Shapes, Lists, Current, Asked

LEMMA HasCurrentIs == ASSUME Types, HasCurrent PROVE pos \in DOMAIN pending /\ pos + 1 \in 1 .. Len(pending) + 1
BY DEF Types, Shapes, Lists, HasCurrent

\* Storing an outcome.
LEMMA StoreTypes ==
  ASSUME Rows, NEW i \in Asked, NEW o \in Outcomes(i), Store(i, o)
  PROVE  /\ row' \in [Calls -> CallStatus \cup {"none"}]
         /\ approval' \in [Calls -> Approval] /\ prompt' \in [Calls -> Prompt] /\ ruled' = ruled
         /\ row'[i] = o.row /\ approval'[i] = o.approval /\ prompt'[i] = o.prompt
         /\ \A j \in Calls \ {i} : row'[j] = row[j] /\ approval'[j] = approval[j] /\ prompt'[j] = prompt[j]
<1>1. o.row \in CallStatus /\ o.approval \in Approval /\ o.prompt \in Prompt /\ i \in Calls
  BY OutcomeTypes, AskedCalls
<1> QED
  BY <1>1 DEF Store, Rows

\* Entering the tool.
LEMMA StartTypes ==
  ASSUME Rows, NEW i \in Asked, StartTool(i)
  PROVE  /\ row' \in [Calls -> CallStatus \cup {"none"}] /\ execs' \in [Calls -> Nat]
         /\ row'[i] = "started" /\ execs'[i] = execs[i] + 1
         /\ \A j \in Calls \ {i} : row'[j] = row[j] /\ execs'[j] = execs[j]
<1>1. i \in Calls /\ "started" \in CallStatus
  BY AskedCalls DEF CallStatus
<1> QED
  BY <1>1 DEF StartTool, Rows

\* The actions of the loop, of the reviewers and of the crashes, one by one; a
\* reviewer who lives with the loop and one who does not do the same here.
LoopAct ==
  \/ ProviderResponds \/ ProviderFinal \/ ProviderRecovers
  \/ Preflight \/ StartBatch \/ Invoke \/ Collect \/ EndTurn \/ Park
  \/ \E c \in parking : SaveCheckpoint(c)
  \/ \E i \in Calls : Launch(i)
  \/ \E i \in Calls : \E to \in {"finished", "failed"} : FinishTool(i, to)
  \/ \E as \in {"failed", "cancelled"} : Interrupt(as)

ReviewAct(i) ==
  \/ \E scope \in {"once", "session"} : Allow(i, scope)
  \/ \E as \in {"denied", "timed_out"} : Reject(i, as)
  \/ Answer(i) \/ Cancel(i) \/ ExpirePrompt(i)

LEMMA Acts ==
  ASSUME Next
  PROVE  \/ LoopAct
         \/ \E i \in Calls : ReviewAct(i)
         \/ \E v \in verdicts : Continue(v)
         \/ Crash \/ ReviewerCrash
<1>1. CASE LoopStep
  BY <1>1 DEF LoopStep, LoopAct
<1>2. CASE \E i \in Calls : Review(i)
  BY <1>2 DEF Review, ReviewAct
<1>3. CASE \E as \in {"failed", "cancelled"} : Interrupt(as)
  BY <1>3 DEF LoopAct
<1> QED
  BY <1>1, <1>2, <1>3 DEF Next

\* A checkpoint is made of a list of what is left and the results so far.
LEMMA SavedIs ==
  ASSUME NEW n
  PROVE  /\ \A p \in Lists(n), r \in Seq(1 .. n) : [pending |-> p, results |-> r] \in Saved(n)
         /\ \A c \in Saved(n) : c.pending \in Lists(n) /\ c.results \in Seq(1 .. n)
BY DEF Saved

\* Types hold after the steps of the loop ...
LEMMA LoopTypes == ASSUME Types, LoopAct PROVE Types'
<1> USE DEF table, loop, work
<1>n. Len(turn) \in Nat /\ Len(pending) \in Nat /\ pos \in 1 .. Len(pending) + 1
  BY DEF Types, Rows, Shapes, Lists
<1>s. "failed" \in TaskStatus /\ "cancelled" \in TaskStatus /\ "succeeded" \in TaskStatus
      /\ "waiting_tool" \in TaskStatus /\ "running" \in TaskStatus
      /\ "waiting_approval" \in TaskStatus /\ "waiting_clarification" \in TaskStatus
  BY DEF TaskStatus
<1>1. CASE ProviderResponds
  <2>1. PICK n \in Calls : \E t \in [1 .. n -> Kinds] : turn' = t /\ pending' = [i \in 1 .. n |-> i]
    BY <1>1 DEF ProviderResponds
  <2>2. n \in Nat /\ n <= MaxCalls /\ turn' \in [1 .. n -> Kinds] /\ pending' = [i \in 1 .. n |-> i]
    BY <2>1, CallsAssumption DEF Calls
  <2>3. turn' \in Seq(Kinds) /\ Len(turn') = n
    BY <2>2
  <2>4. pending' \in Lists(n) /\ Len(pending') = n
    BY <2>2 DEF Lists
  <2>5. Rows'
    BY <1>1, <2>2, <2>3, <1>s DEF ProviderResponds, Types, Rows
  <2>6. Lists(0) \subseteq Lists(n) /\ Saved(0) \subseteq Saved(n) /\ Seq(1 .. 0) \subseteq Seq(1 .. n)
    <3>1. \A s \in Seq(1 .. 0) : s \in Lists(n) /\ s \in Seq(1 .. n)
      BY <2>2, Empties DEF Lists
    <3> QED
      BY <3>1 DEF Lists, Saved
  <2>7. Len(turn) = 0 /\ Asked = 1 .. 0
    BY <1>1 DEF ProviderResponds, Asked
  <2>8. cleared \in Seq(1 .. n) /\ results \in Seq(1 .. n) /\ inflight = {} /\ executing = {}
    BY <2>6, <2>7 DEF Types, Shapes
  <2>9. checkpoint \in Saved(n) \cup {NoCheckpoint} /\ parking \subseteq Saved(n)
    BY <2>6, <2>7 DEF Types, Shapes
  <2>10. /\ pc' = "calls" /\ pos' = 1 /\ cleared' = cleared /\ results' = results
         /\ checkpoint' = checkpoint /\ parking' = parking
         /\ inflight' = inflight /\ executing' = executing
    BY <1>1 DEF ProviderResponds
  <2>11. Shapes'
    BY <2>2, <2>3, <2>4, <2>8, <2>9, <2>10 DEF Shapes, Asked
  <2> QED
    BY <2>5, <2>11 DEF Types
<1>2. CASE ProviderFinal
  BY <1>2, <1>s DEF ProviderFinal, Types, Rows, Shapes, Asked
<1>3. CASE ProviderRecovers
  <2>1. [pending |-> pending, results |-> results] \in Saved(Len(turn))
    BY SavedIs DEF Types, Shapes, Asked
  <2> QED
    BY <1>3, <2>1, <1>s DEF ProviderRecovers, Types, Rows, Shapes, Asked
<1>4. CASE Preflight
  <2>1. Current \in Asked /\ pos + 1 \in 1 .. Len(pending) + 1
    BY <1>4, HasCurrentIs, CurrentAsked DEF Preflight
  <2>2. PICK o \in Outcomes(Current) :
           /\ Store(Current, o)
           /\ \/ Fail("failed")
              \/ /\ pc' = "park"
                 /\ UNCHANGED <<status, checkpoint, pending, pos, cleared, results>>
              \/ /\ pc'  = "preflight"
                 /\ pos' = pos + 1
                 /\ cleared' = IF o.verdict = "clear" THEN Append(cleared, Current) ELSE cleared
                 /\ results' = IF o.verdict = "done" THEN Append(results, Current) ELSE results
                 /\ UNCHANGED <<status, checkpoint, pending>>
    BY <1>4 DEF Preflight
  <2>3. UNCHANGED <<turn, work, parking, verdicts, recovered>>
    BY <1>4 DEF Preflight
  <2>4. status' \in TaskStatus
    BY <2>2, <1>s DEF Fail, Types, Rows
  <2>5. Rows'
    BY <2>1, <2>2, <2>3, <2>4, StoreTypes DEF Types, Rows
  <2>6. Append(cleared, Current) \in Seq(Asked) /\ Append(results, Current) \in Seq(Asked)
    BY <2>1, Appends DEF Types, Shapes
  <2>7. /\ pc' \in {"off", "park", "preflight"} /\ pending' = pending /\ pos' \in 1 .. Len(pending) + 1
        /\ cleared' \in Seq(Asked) /\ results' \in Seq(Asked) /\ checkpoint' \in {checkpoint, NoCheckpoint}
    BY <2>1, <2>2, <2>6 DEF Fail, Types, Shapes
  <2>8. Shapes'
    BY <2>3, <2>7 DEF Types, Shapes, Asked
  <2> QED
    BY <2>5, <2>8 DEF Types
<1>5. CASE StartBatch
  <2>1. {cleared[k] : k \in 1 .. Len(cleared)} \subseteq Asked
    BY DEF Types, Shapes
  <2> QED
    BY <1>5, <2>1 DEF StartBatch, Types, Rows, Shapes, Asked
<1>6. CASE Invoke
  <2>1. Current \in Asked /\ pos + 1 \in 1 .. Len(pending) + 1
    BY <1>6, HasCurrentIs, CurrentAsked DEF Invoke
  <2>2. UNCHANGED <<turn, parking, verdicts, recovered>>
    BY <1>6 DEF Invoke
  <2>3. PICK o \in Outcomes(Current) :
       \/ /\ StartTool(Current)
          /\ pos'     = pos + 1
          /\ cleared' = <<Current>>
          /\ pc'      = "await"
          /\ UNCHANGED <<approval, prompt, ruled, status, checkpoint, pending, results, inflight>>
       \/ /\ Store(Current, o)
          /\ pos'     = pos + 1
          /\ results' = WithResult(results, Current)
          /\ UNCHANGED <<status, checkpoint, pc, pending, cleared, work>>
       \/ /\ Store(Current, o)
          /\ pc' = "park"
          /\ UNCHANGED <<status, checkpoint, pending, pos, cleared, results, work>>
       \/ /\ Store(Current, o)
          /\ Fail("failed")
          /\ UNCHANGED work
    BY <1>6 DEF Invoke
  <2>4. CASE /\ StartTool(Current)
             /\ pos'     = pos + 1
             /\ cleared' = <<Current>>
             /\ pc'      = "await"
             /\ UNCHANGED <<approval, prompt, ruled, status, checkpoint, pending, results, inflight>>
    <3>1. Rows'
      BY <2>1, <2>2, <2>4, StartTypes DEF Types, Rows
    <3>2. <<Current>> \in Seq(Asked) /\ executing' \subseteq Asked
      BY <2>1, <2>4 DEF StartTool, Types, Shapes
    <3>3. Shapes'
      BY <2>1, <2>2, <2>4, <3>2 DEF Types, Shapes, Asked
    <3> QED
      BY <3>1, <3>3 DEF Types
  <2>5. CASE Store(Current, o) /\ UNCHANGED <<execs, inflight, executing>>
    <3>1. WithResult(results, Current) \in Seq(Asked)
      BY <2>1, Appends DEF WithResult, Types, Shapes
    <3>2. /\ pc' \in {"off", "park", "await", pc} /\ pending' = pending /\ pos' \in {pos, pos + 1}
          /\ results' \in {results, WithResult(results, Current)}
          /\ status' \in {status, "failed"} /\ checkpoint' \in {checkpoint, NoCheckpoint}
      BY <2>3 DEF Fail
    <3>2a. cleared' \in Seq(Asked)
      <4>1. <<Current>> \in Seq(Asked)
        BY <2>1
      <4> QED
        BY <2>3, <4>1 DEF Fail, Types, Shapes
    <3>3. Rows'
      BY <1>s, <2>1, <2>2, <2>5, <3>2, StoreTypes DEF Types, Rows
    <3>4. Shapes'
      BY <2>1, <2>2, <2>5, <3>1, <3>2, <3>2a DEF Types, Shapes, Asked
    <3> QED
      BY <3>3, <3>4 DEF Types
  <2> QED
    BY <2>3, <2>4, <2>5
<1>7. CASE Collect
  <2>1. results' \in Seq(Asked) /\ << >> \in Seq(Asked)
    BY <1>7, Joins DEF Collect, Types, Shapes
  <2> QED
    BY <1>7, <2>1 DEF Collect, Types, Rows, Shapes, Asked
<1>8. CASE EndTurn
  <2>1. << >> \in Lists(Len(turn)) /\ Len(<< >>) = 0
    BY <1>n DEF Lists
  <2> QED
    BY <1>8, <2>1, <1>s DEF EndTurn, Types, Rows, Shapes, Asked
<1>9. CASE Park
  <2>1. Rest \in Lists(Len(turn))
    BY <1>n, Rests DEF Rest, Types, Shapes
  <2>2. [pending |-> Rest, results |-> results] \in Saved(Len(turn))
    BY <2>1, SavedIs DEF Types, Shapes, Asked
  <2> QED
    BY <1>9, <2>2, <1>s DEF Park, Types, Rows, Shapes, Asked
<1>10. CASE \E c \in parking : SaveCheckpoint(c)
  BY <1>10 DEF SaveCheckpoint, Types, Rows, Shapes, Asked
<1>11. ASSUME NEW i \in Calls, Launch(i) PROVE Types'
  <2>1. i \in Asked
    BY <1>11 DEF Launch, Types, Shapes
  <2>2. UNCHANGED <<turn, parking, verdicts, recovered>> /\ inflight' = inflight \ {i}
    BY <1>11 DEF Launch
  <2>3. PICK o \in Outcomes(i) :
       \/ /\ StartTool(i)
          /\ UNCHANGED <<approval, prompt, ruled, status, checkpoint, loop>>
       \/ /\ Store(i, o)
          /\ UNCHANGED <<status, checkpoint, loop, executing, execs>>
       \/ /\ Store(i, o)
          /\ IF pc = "await" THEN Fail("failed") ELSE UNCHANGED <<status, checkpoint, loop>>
          /\ UNCHANGED <<executing, execs>>
    BY <1>11 DEF Launch
  <2>4. /\ pc' \in {"off", pc} /\ UNCHANGED <<pending, pos, cleared, results>>
        /\ status' \in TaskStatus /\ checkpoint' \in {checkpoint, NoCheckpoint}
    BY <2>3, <1>s DEF Fail, Types, Rows
  <2>5. executing' \subseteq Asked
    BY <2>1, <2>3 DEF StartTool, Types, Shapes
  <2>6. Rows'
    BY <2>1, <2>2, <2>3, <2>4, StartTypes, StoreTypes DEF Types, Rows
  <2>7. Shapes'
    BY <2>2, <2>4, <2>5 DEF Types, Shapes, Asked
  <2> QED
    BY <2>6, <2>7 DEF Types
<1>12. ASSUME NEW i \in Calls, NEW to \in {"finished", "failed"}, FinishTool(i, to) PROVE Types'
  <2>1. "finished" \in CallStatus /\ "failed" \in CallStatus
    BY DEF CallStatus
  <2> QED
    BY <1>12, <2>1 DEF FinishTool, Types, Rows, Shapes, Asked
<1>13. ASSUME NEW as \in {"failed", "cancelled"}, Interrupt(as) PROVE Types'
  BY <1>13, <1>s DEF Interrupt, Fail, Types, Rows, Shapes, Asked
<1> QED
  BY <1>1, <1>2, <1>3, <1>4, <1>5, <1>6, <1>7, <1>8, <1>9, <1>10, <1>11, <1>12, <1>13 DEF LoopAct

\* Nothing is recorded of a call the model has not made.
Untouched ==
  \A i \in Calls \ Asked :
    row[i] = "none" /\ approval[i] = "none" /\ prompt[i] = "none" /\ execs[i] = 0

\* ... after those of the reviewers, who find nothing to decide of other calls
\* than those of the turn ...
LEMMA Reviewed ==
  ASSUME Types, Untouched, NEW i \in Calls, ReviewAct(i)
  PROVE  /\ i \in Asked
         /\ UNCHANGED <<turn, loop, work, parking, recovered>>
         /\ \A j \in Calls \ {i} : row'[j] = row[j] /\ approval'[j] = approval[j] /\ prompt'[j] = prompt[j]
         /\ status' \in {status, "failed"} /\ checkpoint' \in {checkpoint, NoCheckpoint}
         /\ row' \in [Calls -> CallStatus \cup {"none"}] /\ approval' \in [Calls -> Approval]
         /\ prompt' \in [Calls -> Prompt] /\ ruled' \in {ruled, ruled \cup {turn[i]}}
         /\ verdicts' \subseteq verdicts \cup {[call |-> i, by |-> "allow"], [call |-> i, by |-> "reject"]}
<1>s. "timed_out" \in CallStatus /\ "timed_out" \in Prompt /\ "answered" \in Prompt /\ "cancelled" \in Prompt
      /\ "approved" \in Approval /\ "denied" \in Approval /\ "timed_out" \in Approval
  BY DEF CallStatus, Prompt, Approval
<1>t. /\ row \in [Calls -> CallStatus \cup {"none"}] /\ approval \in [Calls -> Approval]
      /\ prompt \in [Calls -> Prompt]
  BY DEF Types, Rows
<1>u. approval[i] # "none" \/ prompt[i] # "none" => i \in Asked
  BY DEF Untouched
<1>1. ASSUME NEW scope \in {"once", "session"}, Allow(i, scope)
      PROVE  /\ approval[i] # "none" /\ approval' = [approval EXCEPT ![i] = "approved"]
             /\ UNCHANGED <<row, prompt, status, checkpoint>> /\ ruled' \in {ruled, ruled \cup {turn[i]}}
             /\ verdicts' = verdicts \cup {[call |-> i, by |-> "allow"]}
             /\ UNCHANGED <<turn, loop, work, parking, recovered>>
  BY <1>1 DEF Allow, UnchangedByReview
<1>2. ASSUME NEW as \in {"denied", "timed_out"}, Reject(i, as)
      PROVE  /\ approval[i] # "none" /\ approval' = [approval EXCEPT ![i] = as]
             /\ UNCHANGED <<row, prompt, status, checkpoint, ruled>>
             /\ verdicts' = verdicts \cup {[call |-> i, by |-> "reject"]}
             /\ UNCHANGED <<turn, loop, work, parking, recovered>>
  BY <1>2 DEF Reject, Decidable, UnchangedByReview
<1>3. ASSUME Answer(i)
      PROVE  /\ prompt[i] # "none"
             /\ prompt' = [prompt EXCEPT ![i] = IF prompt[i] = "pending" THEN "answered" ELSE prompt[i]]
             /\ UNCHANGED <<row, approval, status, checkpoint, ruled>>
             /\ verdicts' \in {verdicts, verdicts \cup {[call |-> i, by |-> "allow"]}}
             /\ UNCHANGED <<turn, loop, work, parking, recovered>>
  BY <1>3 DEF Answer, Decidable, UnchangedByReview
<1>4. ASSUME Cancel(i)
      PROVE  /\ prompt[i] # "none"
             /\ prompt' = [prompt EXCEPT ![i] = IF prompt[i] = "pending" THEN "cancelled" ELSE prompt[i]]
             /\ UNCHANGED <<row, approval, verdicts, ruled>>
             /\ status' \in {status, "failed"} /\ checkpoint' \in {checkpoint, NoCheckpoint}
             /\ UNCHANGED <<turn, loop, work, parking, recovered>>
  BY <1>4 DEF Cancel, Decidable, FailWaiting, UnchangedByReview
<1>5. ASSUME ExpirePrompt(i)
      PROVE  /\ prompt[i] # "none"
             /\ prompt' = [prompt EXCEPT ![i] = "timed_out"]
             /\ row' \in {row, [row EXCEPT ![i] = "timed_out"]}
             /\ UNCHANGED <<approval, verdicts, ruled>>
             /\ status' \in {status, "failed"} /\ checkpoint' \in {checkpoint, NoCheckpoint}
             /\ UNCHANGED <<turn, loop, work, parking, recovered>>
  BY <1>5 DEF ExpirePrompt, FailWaiting
<1> QED
  BY <1>1, <1>2, <1>3, <1>4, <1>5, <1>s, <1>t, <1>u DEF ReviewAct

LEMMA ReviewTypes == ASSUME Types, Untouched, NEW i \in Calls, ReviewAct(i) PROVE Types'
<1> USE DEF loop, work
<1>1. /\ i \in Asked
      /\ UNCHANGED <<turn, loop, work, parking, recovered>>
      /\ status' \in {status, "failed"} /\ checkpoint' \in {checkpoint, NoCheckpoint}
      /\ row' \in [Calls -> CallStatus \cup {"none"}] /\ approval' \in [Calls -> Approval]
      /\ prompt' \in [Calls -> Prompt] /\ ruled' \in {ruled, ruled \cup {turn[i]}}
      /\ verdicts' \subseteq verdicts \cup {[call |-> i, by |-> "allow"], [call |-> i, by |-> "reject"]}
  BY Reviewed
<1>2. Shapes'
  BY <1>1 DEF Types, Shapes, Asked
<1>3. verdicts' \subseteq [call : Calls, by : {"allow", "reject"}]
  BY <1>1 DEF Types, Rows
<1>4. turn[i] \in Kinds
  BY <1>1 DEF Types, Rows, Asked
<1>5. ruled' \subseteq Kinds /\ status' \in TaskStatus
  BY <1>1, <1>4 DEF Types, Rows, TaskStatus
<1>6. Rows'
  BY <1>1, <1>3, <1>5 DEF Types, Rows
<1> QED
  BY <1>2, <1>6 DEF Types

\* ... of the continuations, which find a checkpoint ...
LEMMA Continued ==
  ASSUME Types, NEW v \in verdicts, Continue(v)
  PROVE  /\ verdicts' = verdicts \ {v}
         /\ UNCHANGED <<turn, table, checkpoint, work, parking, recovered>>
         /\ \/ UNCHANGED <<status, loop>>
            \/ /\ status \in Waiting /\ checkpoint \in Saved(Len(turn))
               /\ \E rest \in Lists(Len(turn)) :
                    /\ Resume(rest)
                    /\ \/ rest = checkpoint.pending
                       \/ v.by = "reject" /\ v.call \in Asked /\ rest = <<v.call>>
                          /\ status = "waiting_approval"
<1>n. Len(turn) \in Nat
  BY DEF Types, Rows
<1>1. /\ verdicts' = verdicts \ {v}
      /\ UNCHANGED <<turn, table, checkpoint, work, parking, recovered>>
  BY DEF Continue
<1>2. CASE v.by = "allow" /\ Resumable /\ Resume(checkpoint.pending)
  <2>1. status \in Waiting /\ checkpoint \in Saved(Len(turn))
    BY <1>2 DEF Resumable, Types, Shapes
  <2>2. checkpoint.pending \in Lists(Len(turn))
    BY <2>1, SavedIs
  <2> QED
    BY <1>1, <1>2, <2>1, <2>2
<1>3. CASE v.by = "reject" /\ ResumableRejected(v.call) /\ Resume(AfterRejection(v.call))
  <2>1. status \in Waiting /\ checkpoint \in Saved(Len(turn)) /\ status = "waiting_approval"
    BY <1>3 DEF ResumableRejected, Resumable, Types, Shapes
  <2>2. checkpoint.pending \in Lists(Len(turn))
    BY <2>1, SavedIs
  <2>3. v.call \in Asked
    BY <1>3, <2>2 DEF ResumableRejected, Lists, Asked
  <2>4. <<v.call>> \in Lists(Len(turn))
    BY <2>3, <1>n DEF Lists, Asked
  <2>5. Resume(<<v.call>>)
    BY <1>3 DEF AfterRejection
  <2> QED
    BY <1>1, <1>3, <2>1, <2>3, <2>4, <2>5
<1>4. CASE Refused(v) /\ UNCHANGED <<status, loop>>
  BY <1>1, <1>4
<1> QED
  BY <1>2, <1>3, <1>4 DEF Continue

LEMMA ContinueTypes == ASSUME Types, NEW v \in verdicts, Continue(v) PROVE Types'
<1> USE DEF table, loop, work
<1>1. /\ verdicts' = verdicts \ {v}
      /\ UNCHANGED <<turn, table, checkpoint, work, parking, recovered>>
      /\ \/ UNCHANGED <<status, loop>>
         \/ checkpoint \in Saved(Len(turn)) /\ \E rest \in Lists(Len(turn)) : Resume(rest)
  BY Continued
<1>2. CASE UNCHANGED <<status, loop>>
  BY <1>1, <1>2 DEF Types, Rows, Shapes, Asked
<1>3. CASE checkpoint \in Saved(Len(turn)) /\ \E rest \in Lists(Len(turn)) : Resume(rest)
  <2>1. PICK rest \in Lists(Len(turn)) : Resume(rest)
    BY <1>3
  <2>2. checkpoint.results \in Seq(Asked) /\ << >> \in Seq(Asked) /\ Len(rest) \in Nat
    BY <1>3, SavedIs DEF Asked, Lists
  <2>3. Shapes'
    BY <1>1, <2>1, <2>2 DEF Resume, Types, Shapes, Asked
  <2>4. Rows'
    BY <1>1, <2>1 DEF Resume, Types, Rows, TaskStatus
  <2> QED
    BY <2>3, <2>4 DEF Types
<1> QED
  BY <1>1, <1>2, <1>3

\* ... and of the crashes.
LEMMA CrashTypes == ASSUME Types, Crash \/ ReviewerCrash PROVE Types'
<1> USE DEF table, loop, work
<1>1. verdicts' \in {verdicts, {}}
  BY DEF Crash, ReviewerCrash
<1>2. CASE Crash
  <2>1. Shapes'
    BY <1>2 DEF Crash, Types, Shapes, Asked
  <2>2. Rows'
    BY <1>1, <1>2 DEF Crash, Types, Rows
  <2> QED
    BY <2>1, <2>2 DEF Types
<1>3. CASE ReviewerCrash
  BY <1>3 DEF ReviewerCrash, Types, Rows, Shapes, Asked
<1> QED
  BY <1>2, <1>3

\* The loop leaves the records of other calls than those of the turn alone.
LEMMA LoopUntouched == ASSUME Types, Untouched, LoopAct PROVE Untouched'
<1> USE DEF table, work
<1>k. ASSUME NEW i \in Asked, turn' = turn,
             \A j \in Calls \ {i} :
               /\ row'[j] = row[j] /\ approval'[j] = approval[j]
               /\ prompt'[j] = prompt[j] /\ execs'[j] = execs[j]
      PROVE  Untouched'
  BY <1>k DEF Untouched, Asked
<1>1. CASE UNCHANGED <<turn, table, execs>>
  BY <1>1 DEF Untouched, Asked
<1>2. CASE ProviderResponds
  <2>1. Asked = {} /\ UNCHANGED <<table, execs>>
    BY <1>2 DEF ProviderResponds, Asked
  <2> QED
    BY <2>1 DEF Untouched
<1>3. CASE Preflight
  <2>1. Current \in Asked
    BY <1>3, HasCurrentIs, CurrentAsked DEF Preflight
  <2>2. PICK o \in Outcomes(Current) : Store(Current, o)
    BY <1>3 DEF Preflight
  <2>3. turn' = turn /\ execs' = execs
    BY <1>3 DEF Preflight
  <2> QED
    BY <2>1, <2>2, <2>3, StoreTypes, <1>k DEF Types
<1>4. CASE Invoke
  <2>1. Current \in Asked
    BY <1>4, HasCurrentIs, CurrentAsked DEF Invoke
  <2>2. turn' = turn
    BY <1>4 DEF Invoke
  <2>3. PICK o \in Outcomes(Current) :
          \/ StartTool(Current) /\ UNCHANGED <<approval, prompt, ruled>>
          \/ Store(Current, o) /\ execs' = execs
    BY <1>4 DEF Invoke
  <2> QED
    BY <2>1, <2>2, <2>3, StoreTypes, StartTypes, <1>k DEF Types
<1>5. ASSUME NEW i \in Calls, Launch(i) PROVE Untouched'
  <2>1. i \in Asked
    BY <1>5 DEF Launch, Types, Shapes
  <2>2. turn' = turn
    BY <1>5 DEF Launch
  <2>3. PICK o \in Outcomes(i) :
          \/ StartTool(i) /\ UNCHANGED <<approval, prompt, ruled>>
          \/ Store(i, o) /\ execs' = execs
    BY <1>5 DEF Launch
  <2> QED
    BY <2>1, <2>2, <2>3, StoreTypes, StartTypes, <1>k DEF Types
<1>6. ASSUME NEW i \in Calls, NEW to \in {"finished", "failed"}, FinishTool(i, to) PROVE Untouched'
  <2>1. i \in Asked /\ UNCHANGED <<turn, approval, prompt, ruled, execs>> /\ row' = [row EXCEPT ![i] = to]
    BY <1>6 DEF FinishTool, Types, Shapes
  <2>2. \A j \in Calls \ {i} : row'[j] = row[j]
    BY <2>1 DEF Types, Rows
  <2> QED
    BY <2>1, <2>2, <1>k
<1> QED
  BY <1>1, <1>2, <1>3, <1>4, <1>5, <1>6
     DEF LoopAct, ProviderFinal, ProviderRecovers, StartBatch, Collect, EndTurn, Park, SaveCheckpoint, Interrupt

\* Types and the records that are not there are kept.
LEMMA TypesStep == ASSUME Types, Untouched, [Next]_vars PROVE Types' /\ Untouched'
<1> USE DEF table, loop, work
<1>1. CASE LoopAct
  BY <1>1, LoopTypes, LoopUntouched
<1>2. ASSUME NEW i \in Calls, ReviewAct(i) PROVE Types' /\ Untouched'
  <2>1. /\ i \in Asked /\ turn' = turn /\ execs' = execs
        /\ \A j \in Calls \ {i} : row'[j] = row[j] /\ approval'[j] = approval[j] /\ prompt'[j] = prompt[j]
    BY <1>2, Reviewed
  <2>2. Untouched'
    BY <2>1 DEF Untouched, Asked
  <2> QED
    BY <1>2, <2>2, ReviewTypes
<1>3. ASSUME NEW v \in verdicts, Continue(v) PROVE Types' /\ Untouched'
  <2>1. UNCHANGED <<turn, table, execs>>
    BY <1>3 DEF Continue
  <2> QED
    BY <1>3, <2>1, ContinueTypes DEF Untouched, Asked
<1>4. CASE Crash \/ ReviewerCrash
  <2>1. UNCHANGED <<turn, table, execs>>
    BY <1>4 DEF Crash, ReviewerCrash
  <2> QED
    BY <1>4, <2>1, CrashTypes DEF Untouched, Asked
<1>5. CASE UNCHANGED vars
  BY <1>5 DEF vars, Types, Rows, Shapes, Untouched, Asked
<1> QED
  BY <1>1, <1>2, <1>3, <1>4, <1>5, Acts

LEMMA TypesInit == Init => Types /\ Untouched
<1> SUFFICES ASSUME Init PROVE Types /\ Untouched
  OBVIOUS
<1>1. << >> \in Seq(Kinds) /\ << >> \in Seq(Asked) /\ Len(<< >>) = 0
  OBVIOUS
<1>2. << >> \in Lists(Len(turn)) /\ Len(turn) = 0
  BY <1>1 DEF Init, Lists
<1>3. MaxCalls \in Nat /\ 0 <= MaxCalls
  BY CallsAssumption
<1>4. Rows
  BY <1>1, <1>2, <1>3 DEF Init, Rows, TaskStatus, CallStatus, Approval, Prompt
<1>5. Shapes
  BY <1>1, <1>2 DEF Init, Shapes
<1>6. Untouched
  BY DEF Init, Untouched
<1> QED
  BY <1>4, <1>5, <1>6 DEF Types

LEMMA TypesHold == Spec => [](Types /\ Untouched)
BY TypesInit, TypesStep, PTL DEF Spec

-----------------------------------------------------------------------------
(* Where the loop is, and what runs beside it                              *)

\* A loop works on a task that runs.  No execution is left while the loop does
\* something else than wait for its batch, and none while the task waits; the
\* batch is what the loop has cleared.
LoopPlace ==
  /\ pc # "off" => status \in {"running", "waiting_tool"}
  /\ pc \in {"provider", "calls", "preflight", "park"} => inflight = {} /\ executing = {}
  /\ status \in Waiting => inflight = {} /\ executing = {}
  /\ pc = "await" => \A i \in inflight \cup executing : \E k \in DOMAIN cleared : cleared[k] = i
  /\ inflight \cap executing = {}
  /\ pc = "park" => pos \in DOMAIN pending
  /\ pc = "provider" => pending = << >>
  /\ pc \in {"provider", "calls"} => cleared = << >>

\* The steps of a loop at a call, with what they do to the loop and the batch.
LEMMA PreflightPlace ==
  ASSUME Types, Preflight
  PROVE  /\ pos \in DOMAIN pending /\ Current \in Asked /\ pc \in {"calls", "preflight"}
         /\ UNCHANGED <<turn, pending, execs, inflight, executing, parking, verdicts, recovered>>
         /\ \E o \in Outcomes(Current) :
              /\ Store(Current, o)
              /\ \/ /\ o.verdict = "throw"
                    /\ Fail("failed")
                 \/ /\ o.verdict = "park" /\ pc' = "park"
                    /\ UNCHANGED <<status, checkpoint, pos, cleared, results>>
                 \/ /\ o.verdict = "clear" /\ pc' = "preflight" /\ pos' = pos + 1
                    /\ cleared' = Append(cleared, Current) /\ results' = results
                    /\ UNCHANGED <<status, checkpoint>>
                 \/ /\ o.verdict = "done" /\ pc' = "preflight" /\ pos' = pos + 1
                    /\ cleared' = cleared /\ results' = Append(results, Current)
                    /\ UNCHANGED <<status, checkpoint>>
<1>1. pos \in DOMAIN pending /\ Current \in Asked
  BY HasCurrentIs, CurrentAsked DEF Preflight
<1>2. UNCHANGED <<turn, pending, execs, inflight, executing, parking, verdicts, recovered>>
  BY DEF Preflight, Fail, work
<1> QED
  BY <1>1, <1>2 DEF Preflight

LEMMA InvokePlace ==
  ASSUME Types, Invoke
  PROVE  /\ pos \in DOMAIN pending /\ Current \in Asked /\ pc = "calls" /\ ~Safe(turn[Current])
         /\ UNCHANGED <<turn, pending, inflight, parking, verdicts, recovered>>
         /\ \E o \in Outcomes(Current) :
              \/ /\ Startable(o) /\ StartTool(Current)
                 /\ pos' = pos + 1 /\ cleared' = <<Current>> /\ pc' = "await"
                 /\ UNCHANGED <<approval, prompt, ruled, status, checkpoint, results>>
              \/ /\ o.verdict = "done" /\ Store(Current, o)
                 /\ pos' = pos + 1 /\ results' = WithResult(results, Current)
                 /\ UNCHANGED <<status, checkpoint, pc, cleared, execs, executing>>
              \/ /\ o.verdict = "park" /\ Store(Current, o) /\ pc' = "park"
                 /\ UNCHANGED <<status, checkpoint, pos, cleared, results, execs, executing>>
              \/ /\ Thrown(o) /\ Store(Current, o) /\ Fail("failed")
                 /\ UNCHANGED <<execs, executing>>
<1>1. pos \in DOMAIN pending /\ Current \in Asked
  BY HasCurrentIs, CurrentAsked DEF Invoke
<1>2. UNCHANGED <<turn, pending, inflight, parking, verdicts, recovered>>
  BY DEF Invoke, Fail, work
<1> QED
  BY <1>1, <1>2 DEF Invoke, work

LEMMA LaunchPlace ==
  ASSUME Types, NEW i \in Calls, Launch(i)
  PROVE  /\ i \in Asked /\ i \in inflight /\ inflight' = inflight \ {i}
         /\ UNCHANGED <<turn, pending, pos, cleared, results, parking, verdicts, recovered>>
         /\ \E o \in Outcomes(i) :
              \/ /\ Startable(o) /\ StartTool(i)
                 /\ UNCHANGED <<approval, prompt, ruled, status, checkpoint, pc>>
              \/ /\ o.verdict = "done" /\ Store(i, o)
                 /\ UNCHANGED <<status, checkpoint, pc, execs, executing>>
              \/ /\ Thrown(o) /\ Store(i, o)
                 /\ pc = "await" /\ pc' = "off" /\ status' = "failed" /\ checkpoint' = NoCheckpoint
                 /\ UNCHANGED <<execs, executing>>
              \/ /\ Thrown(o) /\ Store(i, o) /\ pc # "await"
                 /\ UNCHANGED <<status, checkpoint, pc, execs, executing>>
<1>1. i \in Asked
  BY DEF Launch, Types, Shapes
<1>2. UNCHANGED <<turn, pending, pos, cleared, results, parking, verdicts, recovered>>
  BY DEF Launch, Fail, loop
<1> QED
  BY <1>1, <1>2 DEF Launch, Fail, loop

LEMMA LoopPlaceStep == ASSUME Types, Untouched, LoopPlace, [Next]_vars PROVE LoopPlace'
<1> USE DEF table, loop, work
<1>w. /\ "running" \notin Waiting /\ "waiting_tool" \notin Waiting /\ "failed" \notin Waiting
      /\ "cancelled" \notin Waiting /\ "succeeded" \notin Waiting
  BY DEF Waiting
<1>1. CASE ProviderResponds
  <2>1. inflight = {} /\ executing = {} /\ cleared = << >>
    BY <1>1 DEF ProviderResponds, LoopPlace
  <2> QED
    BY <1>1, <2>1, <1>w DEF ProviderResponds, LoopPlace
<1>2. CASE ProviderFinal
  BY <1>2, <1>w DEF ProviderFinal, LoopPlace
<1>3. CASE ProviderRecovers
  BY <1>3 DEF ProviderRecovers, LoopPlace
<1>4. CASE Preflight
  <2>1. inflight = {} /\ executing = {} /\ status \in {"running", "waiting_tool"} /\ pc # "off"
    BY <1>4 DEF Preflight, LoopPlace
  <2>2. /\ pos \in DOMAIN pending /\ UNCHANGED <<pending, inflight, executing>>
        /\ \/ pc' = "off" /\ status' = "failed"
           \/ pc' = "park" /\ UNCHANGED <<status, pos>>
           \/ pc' = "preflight" /\ status' = status
    BY <1>4, PreflightPlace DEF Fail
  <2> QED
    BY <2>1, <2>2, <1>w DEF LoopPlace
<1>5. CASE StartBatch
  <2>1. inflight = {} /\ executing = {} /\ status \in {"running", "waiting_tool"}
    BY <1>5 DEF StartBatch, LoopPlace
  <2>2. \A i \in inflight' : \E k \in DOMAIN cleared : cleared[k] = i
    <3>1. DOMAIN cleared = 1 .. Len(cleared)
      BY DEF Types, Shapes
    <3> QED
      BY <1>5, <2>1, <3>1 DEF StartBatch
  <2> QED
    BY <1>5, <2>1, <2>2, <1>w DEF StartBatch, LoopPlace
<1>6. CASE Invoke
  <2>1. inflight = {} /\ executing = {} /\ status \in {"running", "waiting_tool"} /\ pc = "calls" /\ cleared = << >>
    BY <1>6 DEF Invoke, LoopPlace
  <2>2. /\ pos \in DOMAIN pending /\ UNCHANGED <<pending, inflight>>
        /\ \/ /\ pc' = "await" /\ status' = status
              /\ executing' = executing \cup {Current} /\ cleared' = <<Current>>
           \/ UNCHANGED <<pc, status, cleared, executing>>
           \/ pc' = "park" /\ UNCHANGED <<status, pos, executing>>
           \/ pc' = "off" /\ status' = "failed" /\ executing' = executing
    BY <1>6, InvokePlace DEF StartTool, Fail
  <2>3. <<Current>>[1] = Current /\ 1 \in DOMAIN <<Current>>
    OBVIOUS
  <2> QED
    BY <2>1, <2>2, <2>3, <1>w DEF LoopPlace
<1>7. CASE Collect
  <2>1. inflight = {} /\ executing = {}
    <3>1. DOMAIN cleared = 1 .. Len(cleared)
      BY DEF Types, Shapes
    <3> QED
      BY <1>7, <3>1 DEF Collect, LoopPlace
  <2> QED
    BY <1>7, <2>1, <1>w DEF Collect, LoopPlace
<1>8. CASE EndTurn
  BY <1>8, <1>w DEF EndTurn, LoopPlace
<1>9. CASE Park
  BY <1>9 DEF Park, LoopPlace
<1>10. CASE \E c \in parking : SaveCheckpoint(c)
  BY <1>10 DEF SaveCheckpoint, LoopPlace
<1>11. ASSUME NEW i \in Calls, Launch(i) PROVE LoopPlace'
  <2>1. /\ i \in inflight /\ inflight' = inflight \ {i} /\ UNCHANGED <<pending, pos, cleared>>
        /\ executing' \in {executing, executing \cup {i}}
        /\ \/ UNCHANGED <<status, pc>>
           \/ status' = "failed" /\ pc' = "off"
    BY <1>11, LaunchPlace DEF StartTool
  <2>2. status \notin Waiting /\ pc \notin {"provider", "calls", "preflight", "park"}
    BY <2>1 DEF LoopPlace
  <2>3. pc' \notin {"provider", "calls", "preflight", "park"} /\ status' \notin Waiting
    BY <2>1, <2>2, <1>w
  <2>4. inflight' \cup executing' \subseteq inflight \cup executing /\ inflight' \cap executing' = {}
    BY <2>1 DEF LoopPlace
  <2> QED
    BY <2>1, <2>3, <2>4 DEF LoopPlace
<1>12. ASSUME NEW i \in Calls, NEW to \in {"finished", "failed"}, FinishTool(i, to) PROVE LoopPlace'
  BY <1>12 DEF FinishTool, LoopPlace
<1>13. ASSUME NEW as \in {"failed", "cancelled"}, Interrupt(as) PROVE LoopPlace'
  BY <1>13, <1>w DEF Interrupt, Fail, LoopPlace
<1>14. ASSUME NEW i \in Calls, ReviewAct(i) PROVE LoopPlace'
  <2>1. UNCHANGED <<turn, loop, work>>
    BY <1>14, Reviewed
  <2>2. status' = status \/ (status \in Waiting /\ status' = "failed")
    BY <1>14 DEF ReviewAct, Allow, Reject, Answer, Cancel, ExpirePrompt, FailWaiting, Waiting
  <2> QED
    BY <2>1, <2>2, <1>w DEF LoopPlace
<1>15. ASSUME NEW v \in verdicts, Continue(v) PROVE LoopPlace'
  <2>1. /\ UNCHANGED <<inflight, executing>>
        /\ \/ UNCHANGED <<status, loop>>
           \/ status \in Waiting /\ \E rest : Resume(rest)
    BY <1>15, Continued
  <2>2. CASE UNCHANGED <<status, loop>>
    BY <2>1, <2>2 DEF LoopPlace
  <2>3. CASE status \in Waiting /\ \E rest : Resume(rest)
    BY <2>1, <2>3, <1>w DEF Resume, LoopPlace
  <2> QED
    BY <2>1, <2>2, <2>3
<1>16. CASE Crash
  BY <1>16 DEF Crash, LoopPlace
<1>17. CASE ReviewerCrash \/ UNCHANGED vars
  BY <1>17 DEF ReviewerCrash, vars, LoopPlace
<1> QED
  BY <1>1, <1>2, <1>3, <1>4, <1>5, <1>6, <1>7, <1>8, <1>9, <1>10, <1>11, <1>12, <1>13, <1>14, <1>15,
     <1>16, <1>17, Acts DEF LoopAct

-----------------------------------------------------------------------------
(* The tool of a call runs once                                            *)

\* A tool that was run left its mark on the row; only the row of an execution,
\* or of a question, is started, unless the task has ended or died around it.
Once ==
  \A i \in Asked :
    /\ execs[i] \in {0, 1}
    /\ execs[i] = 1 => row[i] \in {"started", "finished", "failed"} /\ turn[i] # "ask"
    /\ i \in executing => row[i] = "started" /\ turn[i] # "ask"
    /\ turn[i] # "ask" => prompt[i] = "none"

Left(i) == pc = "off" /\ inflight = {} /\ status \notin Waiting

Stuck == \A i \in Asked : row[i] = "started" /\ turn[i] # "ask" => i \in executing \/ Left(i)

PlaceInv == LoopPlace /\ Once /\ Stuck

\* A call that comes to execute is not started, unless it is a question ...
LEMMA NotStarted ==
  ASSUME LoopPlace, Stuck, NEW i \in Asked, i \in inflight \/ pc \in {"calls", "preflight"}
  PROVE  row[i] = "started" => turn[i] = "ask"
BY DEF LoopPlace, Stuck, Left

\* ... and what is stored for it leaves an ended row alone.
LEMMA Fresh ==
  ASSUME Rows, NEW i \in Asked, NEW o \in Outcomes(i), row[i] = "started" => turn[i] = "ask"
  PROVE  /\ row[i] \in {"finished", "failed"} => o.row = row[i]
         /\ turn[i] # "ask" => o.row # "started" /\ o.prompt = prompt[i]
         /\ Startable(o) => turn[i] # "ask" /\ row[i] \notin {"started", "finished", "failed"}
<1>0. /\ Entered(i) = (IF row[i] = "none" THEN "requested" ELSE row[i]) /\ "started" \in CallStatus
      /\ o.row \in CallStatus /\ row[i] \in CallStatus \cup {"none"}
  BY AskedCalls, OutcomeTypes DEF CallStatus
<1>1. CASE row[i] = "failed"
  BY <1>1, OutcomeIs DEF Startable
<1>2. CASE row[i] = "finished"
  BY <1>2, OutcomeIs DEF Startable
<1>3. CASE row[i] \notin {"failed", "finished"}
  <2>1. PICK v, to : /\ to \in CallStatus /\ Way(i, v, to, o.approval, o.prompt)
                     /\ \/ o.verdict = v /\ o.row = to
                        \/ o.verdict = "throw" /\ o.row = Entered(i)
    BY <1>3, OutcomeIs
  <2>2. v = "clear" => turn[i] # "ask"
    BY <2>1 DEF Way, AtQuestion
  <2>3. ASSUME turn[i] # "ask" PROVE to # "started" /\ o.prompt = prompt[i]
    BY <2>1, <2>3, <1>0 DEF Way, AtGate
  <2> QED
    BY <1>0, <1>3, <2>1, <2>2, <2>3 DEF Startable
<1> QED
  BY <1>1, <1>2, <1>3

\* Storing an outcome, or entering the tool.
LEMMA StoreOnce ==
  ASSUME Types, Once, NEW i \in Asked, NEW o \in Outcomes(i), row[i] = "started" => turn[i] = "ask",
         i \notin executing, Store(i, o), UNCHANGED <<turn, execs, executing>>
  PROVE  Once' /\ \A j \in Asked : row'[j] = "started" /\ turn[j] # "ask" => row[j] = "started"
<1>1. /\ row[i] \in {"finished", "failed"} => o.row = row[i]
      /\ turn[i] # "ask" => o.row # "started" /\ o.prompt = prompt[i]
  BY Fresh DEF Types
<1>2. /\ row'[i] = o.row /\ prompt'[i] = o.prompt
      /\ \A j \in Calls \ {i} : row'[j] = row[j] /\ prompt'[j] = prompt[j]
  BY StoreTypes DEF Types
<1>3. Asked \subseteq Calls
  BY AskedCalls DEF Types
<1> QED
  BY <1>1, <1>2, <1>3 DEF Once, Asked

LEMMA StartOnce ==
  ASSUME Types, Once, NEW i \in Asked, NEW o \in Outcomes(i), row[i] = "started" => turn[i] = "ask",
         Startable(o), StartTool(i), UNCHANGED <<turn, prompt>>
  PROVE  Once' /\ \A j \in Asked : row'[j] = "started" /\ turn[j] # "ask" => j = i \/ row[j] = "started"
<1>1. turn[i] # "ask" /\ row[i] \notin {"started", "finished", "failed"}
  BY Fresh DEF Types
<1>2. /\ row'[i] = "started" /\ execs'[i] = execs[i] + 1
      /\ \A j \in Calls \ {i} : row'[j] = row[j] /\ execs'[j] = execs[j]
  BY StartTypes DEF Types
<1>3. Asked \subseteq Calls /\ executing' = executing \cup {i} /\ Asked' = Asked
  BY AskedCalls DEF Types, StartTool, Asked
<1>4. execs'[i] = 1
  BY <1>1, <1>2 DEF Once
<1>5. \A j \in Asked :
         /\ execs'[j] \in {0, 1}
         /\ execs'[j] = 1 => row'[j] \in {"started", "finished", "failed"} /\ turn'[j] # "ask"
  BY <1>1, <1>2, <1>3, <1>4 DEF Once
<1>6. \A j \in Asked :
         /\ j \in executing' => row'[j] = "started" /\ turn'[j] # "ask"
         /\ turn'[j] # "ask" => prompt'[j] = "none"
  BY <1>1, <1>2, <1>3 DEF Once
<1> QED
  BY <1>2, <1>3, <1>5, <1>6 DEF Once

LEMMA OnceStep == ASSUME Types, Untouched, PlaceInv, [Next]_vars PROVE Once' /\ Stuck'
<1> USE DEF table, loop, work
<1>w. /\ "running" \notin Waiting /\ "waiting_tool" \notin Waiting /\ "failed" \notin Waiting
      /\ "cancelled" \notin Waiting /\ "succeeded" \notin Waiting
  BY DEF Waiting
<1>i. LoopPlace /\ Once /\ Stuck
  BY DEF PlaceInv
<1>p. LoopPlace'
  BY <1>i, LoopPlaceStep
<1>a. \A i \in Asked : i \in Calls
  BY AskedCalls DEF Types
\* steps in which the rows and the executions stay as they are
<1>k. ASSUME UNCHANGED <<turn, table, execs, executing>>,
             \A i \in Asked : Left(i) => Left(i)'
      PROVE  Once' /\ Stuck'
  BY <1>i, <1>k DEF Once, Stuck, Asked
<1>1. CASE ProviderResponds
  <2>1. executing = {} /\ Asked = {}
    BY <1>1, <1>i DEF ProviderResponds, LoopPlace, Asked
  <2>2. \A i \in Calls : row[i] = "none" /\ prompt[i] = "none" /\ execs[i] = 0
    BY <2>1 DEF Untouched
  <2>3. \A i \in Asked' : i \in Calls
    <3>1. Types'
      BY TypesStep
    <3> QED
      BY <3>1, CallsAssumption DEF Types, Rows, Asked, Calls
  <2> QED
    BY <1>1, <2>1, <2>2, <2>3 DEF ProviderResponds, Once, Stuck
<1>2. CASE ProviderFinal \/ ProviderRecovers \/ EndTurn
  <2>1. pc # "off" /\ UNCHANGED <<turn, table, execs, executing>>
    BY <1>2 DEF ProviderFinal, ProviderRecovers, EndTurn
  <2> QED
    BY <2>1, <1>k DEF Left
<1>3. CASE Collect \/ StartBatch \/ Park
  <2>1. pc # "off" /\ UNCHANGED <<turn, table, execs, executing>>
    BY <1>3 DEF Collect, StartBatch, Park
  <2> QED
    BY <2>1, <1>k DEF Left
<1>4. CASE Preflight
  <2>1. /\ Current \in Asked /\ pc \in {"calls", "preflight"}
        /\ UNCHANGED <<turn, execs, executing>>
    BY <1>4, PreflightPlace
  <2>2. PICK o \in Outcomes(Current) : Store(Current, o)
    BY <1>4, PreflightPlace
  <2>3. executing = {} /\ (row[Current] = "started" => turn[Current] = "ask")
    BY <2>1, <1>i, NotStarted DEF LoopPlace
  <2>4. Once' /\ \A j \in Asked : row'[j] = "started" /\ turn[j] # "ask" => row[j] = "started"
    BY <2>1, <2>2, <2>3, <1>i, StoreOnce
  <2>5. Stuck'
    BY <2>1, <2>4, <1>i DEF Stuck, Left, Asked
  <2> QED
    BY <2>4, <2>5
<1>5. CASE Invoke
  <2>1. Current \in Asked /\ pc = "calls" /\ turn' = turn
    BY <1>5, InvokePlace
  <2>2. executing = {} /\ (row[Current] = "started" => turn[Current] = "ask")
    BY <2>1, <1>i, NotStarted DEF LoopPlace
  <2>3. PICK o \in Outcomes(Current) :
          \/ Startable(o) /\ StartTool(Current) /\ prompt' = prompt
          \/ Store(Current, o) /\ UNCHANGED <<execs, executing>>
    BY <1>5, InvokePlace
  <2>4. CASE Startable(o) /\ StartTool(Current) /\ prompt' = prompt
    <3>1. Once' /\ \A j \in Asked : row'[j] = "started" /\ turn[j] # "ask" => j = Current \/ row[j] = "started"
      BY <2>1, <2>2, <2>4, <1>i, StartOnce
    <3>2. executing' = executing \cup {Current}
      BY <2>4 DEF StartTool
    <3>3. Stuck'
      BY <2>1, <3>1, <3>2, <1>i DEF Stuck, Left, Asked
    <3> QED
      BY <3>1, <3>3
  <2>5. CASE Store(Current, o) /\ UNCHANGED <<execs, executing>>
    <3>1. Once' /\ \A j \in Asked : row'[j] = "started" /\ turn[j] # "ask" => row[j] = "started"
      BY <2>1, <2>2, <2>5, <1>i, StoreOnce
    <3>2. Stuck'
      BY <2>1, <2>5, <3>1, <1>i DEF Stuck, Left, Asked
    <3> QED
      BY <3>1, <3>2
  <2> QED
    BY <2>3, <2>4, <2>5
<1>6. CASE \E c \in parking : SaveCheckpoint(c)
  <2>1. UNCHANGED <<turn, table, execs, executing, pc, inflight, status>>
    BY <1>6 DEF SaveCheckpoint
  <2> QED
    BY <2>1, <1>k DEF Left
<1>7. ASSUME NEW i \in Calls, Launch(i) PROVE Once' /\ Stuck'
  <2>1. /\ i \in Asked /\ i \in inflight /\ inflight' = inflight \ {i} /\ turn' = turn
    BY <1>7, LaunchPlace
  <2>2. i \notin executing /\ (row[i] = "started" => turn[i] = "ask")
    BY <2>1, <1>i, NotStarted DEF LoopPlace
  <2>3. PICK o \in Outcomes(i) :
          \/ Startable(o) /\ StartTool(i) /\ prompt' = prompt
          \/ Store(i, o) /\ UNCHANGED <<execs, executing>>
    BY <1>7, LaunchPlace
  <2>4. CASE Startable(o) /\ StartTool(i) /\ prompt' = prompt
    <3>1. Once' /\ \A j \in Asked : row'[j] = "started" /\ turn[j] # "ask" => j = i \/ row[j] = "started"
      BY <2>1, <2>2, <2>4, <1>i, StartOnce
    <3>2. executing' = executing \cup {i}
      BY <2>4 DEF StartTool
    <3>3. Stuck'
      BY <2>1, <3>1, <3>2, <1>i DEF Stuck, Left, Asked
    <3> QED
      BY <3>1, <3>3
  <2>5. CASE Store(i, o) /\ UNCHANGED <<execs, executing>>
    <3>1. Once' /\ \A j \in Asked : row'[j] = "started" /\ turn[j] # "ask" => row[j] = "started"
      BY <2>1, <2>2, <2>5, <1>i, StoreOnce
    <3>2. Stuck'
      BY <2>1, <2>5, <3>1, <1>i DEF Stuck, Left, Asked
    <3> QED
      BY <3>1, <3>2
  <2> QED
    BY <2>3, <2>4, <2>5
<1>8. ASSUME NEW i \in Calls, NEW to \in {"finished", "failed"}, FinishTool(i, to) PROVE Once' /\ Stuck'
  <2>1. /\ i \in executing /\ i \in Asked /\ executing' = executing \ {i} /\ row' = [row EXCEPT ![i] = to]
        /\ UNCHANGED <<turn, prompt, execs, pc, inflight, status>>
    BY <1>8 DEF FinishTool, Types, Shapes
  <2>2. row'[i] = to /\ \A j \in Asked \ {i} : row'[j] = row[j]
    BY <1>8, <1>a, <2>1 DEF Types, Rows
  <2>3. Once'
    BY <2>1, <2>2, <1>i DEF Once, Asked
  <2>4. Stuck'
    BY <2>1, <2>2, <1>i DEF Stuck, Left, Asked
  <2> QED
    BY <2>3, <2>4
<1>9. ASSUME NEW as \in {"failed", "cancelled"}, Interrupt(as) PROVE Once' /\ Stuck'
  <2>1. pc # "off" /\ UNCHANGED <<turn, table, execs, executing>>
    BY <1>9 DEF Interrupt
  <2> QED
    BY <2>1, <1>k DEF Left
<1>10. ASSUME NEW i \in Calls, ReviewAct(i) PROVE Once' /\ Stuck'
  <2>1. /\ i \in Asked /\ UNCHANGED <<turn, loop, work>>
        /\ \A j \in Calls \ {i} : row'[j] = row[j] /\ prompt'[j] = prompt[j]
        /\ status' \in {status, "failed"}
    BY <1>10, Reviewed
  <2>2. \/ row'[i] = row[i] /\ prompt'[i] = prompt[i]
        \/ prompt[i] # "none" /\ row'[i] \in {row[i], "timed_out"}
    <3>1. \/ row' = row /\ prompt' = prompt
          \/ prompt[i] # "none" /\ row' = row
          \/ prompt[i] # "none" /\ row' = [row EXCEPT ![i] = "timed_out"]
      BY <1>10 DEF ReviewAct, Allow, Reject, Answer, Cancel, Decidable, ExpirePrompt, UnchangedByReview
    <3> QED
      BY <1>10, <3>1 DEF Types, Rows
  <2>3. prompt[i] # "none" => turn[i] = "ask" /\ execs[i] = 0 /\ i \notin executing
    BY <2>1, <1>i DEF Once
  <2>4. Once'
    BY <2>1, <2>2, <2>3, <1>i, <1>a DEF Once, Asked
  <2>5. Stuck'
    BY <2>1, <2>2, <2>3, <1>i, <1>a, <1>w DEF Stuck, Left, Asked
  <2> QED
    BY <2>4, <2>5
<1>11. ASSUME NEW v \in verdicts, Continue(v) PROVE Once' /\ Stuck'
  <2>1. /\ UNCHANGED <<turn, table, work>>
        /\ UNCHANGED <<status, loop>> \/ status \in Waiting
    BY <1>11, Continued
  <2> QED
    BY <2>1, <1>k DEF Left
<1>12. CASE Crash
  <2>1. /\ UNCHANGED <<turn, table, execs, status>> /\ pc' = "off" /\ inflight' = {} /\ executing' = {}
    BY <1>12 DEF Crash
  <2>2. Once'
    BY <2>1, <1>i DEF Once, Asked
  <2>3. Stuck'
    BY <2>1, <1>i DEF Stuck, Left, LoopPlace, Asked
  <2> QED
    BY <2>2, <2>3
<1>13. CASE ReviewerCrash \/ UNCHANGED vars
  <2>1. UNCHANGED <<turn, table, execs, executing, pc, inflight, status>>
    BY <1>13 DEF ReviewerCrash, vars
  <2> QED
    BY <2>1, <1>k DEF Left
<1> QED
  BY <1>1, <1>2, <1>3, <1>4, <1>5, <1>6, <1>7, <1>8, <1>9, <1>10, <1>11, <1>12, <1>13, Acts DEF LoopAct

LEMMA PlaceInit == Init => PlaceInv
BY DEF Init, PlaceInv, LoopPlace, Once, Stuck, Asked, Waiting

LEMMA PlaceHolds == Spec => []PlaceInv
<1>1. Types /\ Untouched /\ PlaceInv /\ [Next]_vars => PlaceInv'
  BY LoopPlaceStep, OnceStep DEF PlaceInv
<1> QED
  BY <1>1, PlaceInit, TypesHold, PTL DEF Spec

\* However often a turn is parked, resumed from a checkpoint that may be stale,
\* reviewed by two processes or cut by a crash, the tool of a call runs once: a
\* row that was started is never started again (ToolOrchestrator.execute).
THEOREM ToolRunsOnce == Spec => []ExecutedOnce
<1>1. Types /\ Untouched /\ PlaceInv => ExecutedOnce
  BY DEF Types, Rows, Untouched, PlaceInv, Once, ExecutedOnce
<1> QED
  BY <1>1, TypesHold, PlaceHolds, PTL

-----------------------------------------------------------------------------
(* The order in which approvals are asked for                              *)

\* Of the calls of a list s from its a-th on: they come in the order of the
\* turn; none of M, the calls that may yet ask for an approval, comes before one
\* of O, the calls with an approval that waits for its verdict or its end; and
\* either all of M are there or none.
Increasing(s) == \A k, m \in DOMAIN s : k < m => s[k] < s[m]
Guarded(s, a, O, M) ==
  \A j \in O : \A k \in DOMAIN s :
    k >= a /\ s[k] \in M => \E m \in DOMAIN s : a <= m /\ m < k /\ s[m] = j
AllOf(s, a, M) == \A i \in M : \E k \in DOMAIN s : k >= a /\ s[k] = i
NoneOf(s, a, M) == \A k \in DOMAIN s : k >= a => s[k] \notin M
Ordered(s, a, O, M) == Increasing(s) /\ Guarded(s, a, O, M) /\ (AllOf(s, a, M) \/ NoneOf(s, a, M))

\* Less to ask and less to decide.
LEMMA OrderShrinks ==
  ASSUME NEW s, NEW a, NEW O, NEW M, Ordered(s, a, O, M), NEW O2 \in SUBSET O, NEW M2 \in SUBSET M
  PROVE  Ordered(s, a, O2, M2)
BY DEF Ordered, Guarded, AllOf, NoneOf

\* A call that may ask is at hand only when nothing else is open.
LEMMA OrderHead ==
  ASSUME NEW s, NEW a \in Int, NEW O, NEW M, Ordered(s, a, O, M), a \in DOMAIN s, s[a] \in M,
         DOMAIN s \subseteq Int
  PROVE  O = {}
<1> SUFFICES ASSUME NEW j \in O PROVE FALSE
  OBVIOUS
<1>1. \E m \in DOMAIN s : a <= m /\ m < a /\ s[m] = j
  BY DEF Ordered, Guarded
<1> QED
  BY <1>1

\* The call at hand asks: the list it is in stays ordered ...
LEMMA OrderOpens ==
  ASSUME NEW s, NEW a \in Int, NEW M, Ordered(s, a, {}, M), a \in DOMAIN s, DOMAIN s \subseteq Int,
         NEW O2 \in SUBSET {s[a]}, NEW M2 \in SUBSET (M \ {s[a]})
  PROVE  Ordered(s, a, O2, M2)
<1>1. Guarded(s, a, O2, M2)
  <2> SUFFICES ASSUME NEW j \in O2, NEW k \in DOMAIN s, k >= a, s[k] \in M2
               PROVE  a <= a /\ a < k /\ s[a] = j
    BY DEF Guarded
  <2>1. k # a
    OBVIOUS
  <2> QED
    BY <2>1
<1>2. AllOf(s, a, M2) \/ NoneOf(s, a, M2)
  BY DEF Ordered, AllOf, NoneOf
<1> QED
  BY <1>1, <1>2 DEF Ordered

\* ... and so does any other list, in which it comes first if it comes at all.
LEMMA OrderElsewhere ==
  ASSUME NEW n \in Nat, NEW p \in Lists(n), NEW a \in Int, NEW M, a \in DOMAIN p, p[a] \in M,
         Ordered(p, a, {}, M),
         NEW s \in Lists(n), Ordered(s, 1, {}, M),
         NEW O2 \in SUBSET {p[a]}, NEW M2 \in SUBSET (M \ {p[a]})
  PROVE  Ordered(s, 1, O2, M2)
<1>d. /\ DOMAIN p = 1 .. Len(p) /\ DOMAIN s = 1 .. Len(s) /\ Len(p) \in Nat /\ Len(s) \in Nat
      /\ \A k \in DOMAIN p : p[k] \in Int
      /\ \A k \in DOMAIN s : s[k] \in Int
  BY DEF Lists
<1>1. Guarded(s, 1, O2, M2)
  <2> SUFFICES ASSUME NEW j \in O2, NEW k \in DOMAIN s, s[k] \in M2
               PROVE  \E m \in DOMAIN s : 1 <= m /\ m < k /\ s[m] = j
    BY DEF Guarded
  <2>1. j = p[a] /\ s[k] \in M /\ s[k] # p[a] /\ k >= 1
    BY <1>d
  <2>2. AllOf(s, 1, M)
    BY <2>1 DEF Ordered, NoneOf
  <2>3. PICK m \in DOMAIN s : s[m] = p[a]
    BY <2>2 DEF AllOf
  <2>4. AllOf(p, a, M)
    BY DEF Ordered, NoneOf
  <2>5. PICK k2 \in DOMAIN p : k2 >= a /\ p[k2] = s[k]
    BY <2>1, <2>4 DEF AllOf
  <2>6. a < k2
    BY <2>1, <2>5, <1>d
  <2>7. p[a] < s[k]
    BY <2>5, <2>6 DEF Ordered, Increasing
  <2>8. ~(k < m)
    BY <2>3, <2>7, <1>d DEF Ordered, Increasing
  <2>9. k # m
    BY <2>3, <2>1
  <2> QED
    BY <2>1, <2>3, <2>8, <2>9, <1>d
<1>2. AllOf(s, 1, M2) \/ NoneOf(s, 1, M2)
  BY DEF Ordered, AllOf, NoneOf
<1> QED
  BY <1>1, <1>2 DEF Ordered

\* The loop goes on to the next call.
LEMMA OrderAdvances ==
  ASSUME NEW s, NEW a \in Int, NEW O, NEW M, Ordered(s, a, O, M), a \in DOMAIN s, DOMAIN s \subseteq Int,
         s[a] \notin O, s[a] \notin M
  PROVE  Ordered(s, a + 1, O, M)
<1>1. \A k \in DOMAIN s : k >= a /\ k # a => k >= a + 1
  OBVIOUS
<1>2. Guarded(s, a + 1, O, M)
  <2> SUFFICES ASSUME NEW j \in O, NEW k \in DOMAIN s, k >= a + 1, s[k] \in M
               PROVE  \E m \in DOMAIN s : a + 1 <= m /\ m < k /\ s[m] = j
    BY DEF Guarded
  <2>1. k >= a
    OBVIOUS
  <2>2. PICK m \in DOMAIN s : a <= m /\ m < k /\ s[m] = j
    BY <2>1 DEF Ordered, Guarded
  <2>3. m # a
    BY <2>2
  <2> QED
    BY <2>2, <2>3, <1>1
<1>3. AllOf(s, a, M) => AllOf(s, a + 1, M)
  <2> SUFFICES ASSUME AllOf(s, a, M), NEW i \in M PROVE \E k \in DOMAIN s : k >= a + 1 /\ s[k] = i
    BY DEF AllOf
  <2>1. PICK k \in DOMAIN s : k >= a /\ s[k] = i
    BY DEF AllOf
  <2>2. k # a
    BY <2>1
  <2> QED
    BY <2>1, <2>2, <1>1
<1>4. NoneOf(s, a, M) => NoneOf(s, a + 1, M)
  BY DEF NoneOf
<1> QED
  BY <1>2, <1>3, <1>4 DEF Ordered

\* What is left of a list, as a list of its own.
LEMMA OrderRest ==
  ASSUME NEW n \in Nat, NEW s \in Lists(n), NEW a \in 1 .. Len(s) + 1, NEW O, NEW M, Ordered(s, a, O, M)
  PROVE  Ordered(SubSeq(s, a, Len(s)), 1, O, M)
<1> DEFINE r == SubSeq(s, a, Len(s))
<1>1. /\ Len(s) \in Nat /\ DOMAIN s = 1 .. Len(s) /\ a \in Int
      /\ DOMAIN r = 1 .. Len(s) - a + 1
      /\ \A k \in 1 .. Len(s) - a + 1 : r[k] = s[k + a - 1] /\ k + a - 1 \in DOMAIN s
  <2>1. Len(s) \in Nat /\ DOMAIN s = 1 .. Len(s) /\ a \in Int
    BY DEF Lists
  <2>2. r \in Lists(n) /\ Len(r) = Len(s) - a + 1 /\ \A k \in 1 .. Len(s) - a + 1 : r[k] = s[a + k - 1]
    BY Rests
  <2>3. DOMAIN r = 1 .. Len(s) - a + 1
    BY <2>2 DEF Lists
  <2>4. \A k \in 1 .. Len(s) - a + 1 : a + k - 1 = k + a - 1 /\ k + a - 1 \in DOMAIN s
    BY <2>1
  <2> QED
    BY <2>1, <2>2, <2>3, <2>4
<1> HIDE DEF r
<1>2. \A m \in DOMAIN s : m >= a => m - a + 1 \in DOMAIN r /\ r[m - a + 1] = s[m]
  <2> SUFFICES ASSUME NEW m \in DOMAIN s, m >= a PROVE m - a + 1 \in DOMAIN r /\ r[m - a + 1] = s[m]
    OBVIOUS
  <2>1. PICK k \in 1 .. Len(s) - a + 1 : k = m - a + 1 /\ k + a - 1 = m
    BY <1>1
  <2>2. k \in DOMAIN r /\ r[k] = s[k + a - 1]
    BY <1>1
  <2> QED
    BY <2>1, <2>2
<1>3. Increasing(r)
  <2> SUFFICES ASSUME NEW k \in DOMAIN r, NEW m \in DOMAIN r, k < m PROVE r[k] < r[m]
    BY DEF Increasing
  <2>1. k + a - 1 < m + a - 1
    BY <1>1
  <2> QED
    BY <2>1, <1>1 DEF Ordered, Increasing
<1>4. Guarded(r, 1, O, M)
  <2> SUFFICES ASSUME NEW j \in O, NEW k \in DOMAIN r, r[k] \in M
               PROVE  \E m \in DOMAIN r : 1 <= m /\ m < k /\ r[m] = j
    BY DEF Guarded
  <2>0. k \in 1 .. Len(s) - a + 1
    BY <1>1
  <2>a. k + a - 1 >= a
    BY <2>0, <1>1
  <2>b. r[k] = s[k + a - 1] /\ k + a - 1 \in DOMAIN s
    BY <2>0, <1>1
  <2>1. k + a - 1 >= a /\ k + a - 1 \in DOMAIN s /\ s[k + a - 1] = r[k]
    BY <2>a, <2>b
  <2>2. PICK m \in DOMAIN s : a <= m /\ m < k + a - 1 /\ s[m] = j
    BY <2>1 DEF Ordered, Guarded
  <2>3. m - a + 1 \in DOMAIN r /\ r[m - a + 1] = j
    BY <2>2, <1>2
  <2>4. 1 <= m - a + 1 /\ m - a + 1 < k
    BY <2>2, <1>1
  <2> QED
    BY <2>3, <2>4
<1>5. AllOf(s, a, M) => AllOf(r, 1, M)
  <2> SUFFICES ASSUME AllOf(s, a, M), NEW i \in M PROVE \E k \in DOMAIN r : k >= 1 /\ r[k] = i
    BY DEF AllOf
  <2>1. PICK m \in DOMAIN s : m >= a /\ s[m] = i
    BY DEF AllOf
  <2>2. m - a + 1 \in DOMAIN r /\ r[m - a + 1] = i
    BY <2>1, <1>2
  <2>3. m - a + 1 >= 1
    BY <2>1, <1>1
  <2> QED
    BY <2>2, <2>3
<1>6. NoneOf(s, a, M) => NoneOf(r, 1, M)
  <2> SUFFICES ASSUME NoneOf(s, a, M), NEW k \in DOMAIN r PROVE r[k] \notin M
    BY DEF NoneOf
  <2>0. k \in 1 .. Len(s) - a + 1
    BY <1>1
  <2>a. k + a - 1 >= a
    BY <2>0, <1>1
  <2>b. r[k] = s[k + a - 1] /\ k + a - 1 \in DOMAIN s
    BY <2>0, <1>1
  <2>1. k + a - 1 >= a /\ k + a - 1 \in DOMAIN s /\ s[k + a - 1] = r[k]
    BY <2>a, <2>b
  <2> QED
    BY <2>1 DEF NoneOf
<1>7. Ordered(r, 1, O, M)
  BY <1>3, <1>4, <1>5, <1>6 DEF Ordered
<1> QED
  BY <1>7 DEF r

\* Lists of one call that does not ask, and of none.
LEMMA OrderShort ==
  /\ \A O, M : Ordered(<< >>, 1, O, M)
  /\ \A O, M : \A i : i \notin M => Ordered(<<i>>, 1, O, M)
<1>1. ASSUME NEW O, NEW M PROVE Ordered(<< >>, 1, O, M)
  <2>1. DOMAIN << >> = {}
    OBVIOUS
  <2> QED
    BY <2>1 DEF Ordered, Increasing, Guarded, AllOf, NoneOf
<1>2. ASSUME NEW O, NEW M, NEW i, i \notin M PROVE Ordered(<<i>>, 1, O, M)
  <2>1. \A k \in DOMAIN <<i>> : k = 1 /\ <<i>>[k] = i
    OBVIOUS
  <2> QED
    BY <2>1, <1>2 DEF Ordered, Increasing, Guarded, AllOf, NoneOf
<1> QED
  BY <1>1, <1>2

\* The list of a whole turn.
LEMMA OrderWhole ==
  ASSUME NEW n \in Nat, NEW M \in SUBSET (1 .. n)
  PROVE  Ordered([i \in 1 .. n |-> i], 1, {}, M)
<1> DEFINE s == [i \in 1 .. n |-> i]
<1>1. DOMAIN s = 1 .. n /\ \A k \in 1 .. n : s[k] = k
  OBVIOUS
<1> HIDE DEF s
<1>2. Increasing(s) /\ Guarded(s, 1, {}, M)
  BY <1>1 DEF Increasing, Guarded
<1>3. AllOf(s, 1, M)
  BY <1>1 DEF AllOf
<1>4. Ordered(s, 1, {}, M)
  BY <1>2, <1>3 DEF Ordered
<1> QED
  BY <1>4 DEF s

-----------------------------------------------------------------------------
(* Rows and approvals                                                      *)

\* Which row r goes with which approval a of a gated call, covered by a rule or
\* not.
Legal(r, a, covered) ==
  \/ r \in {"none", "requested"} /\ a = "none"
  \/ r = "awaiting_approval" /\ a = "approved"
  \/ r = "awaiting_approval" /\ a \in {"pending", "denied", "timed_out"} /\ ~covered
  \/ r \in {"denied", "timed_out"} /\ a = r
  \/ r \in {"approved", "started", "finished"} /\ a = "approved"
  \/ r \in {"approved", "started", "finished"} /\ a = "none" /\ covered
  \/ r = "failed" /\ a \in {"none", "approved"}

Granted(i) == approval[i] = "approved" \/ (approval[i] = "none" /\ turn[i] \in ruled)

Agree ==
  \A i \in Asked :
    /\ Gated(turn[i]) => Legal(row[i], approval[i], turn[i] \in ruled)
    /\ ~Gated(turn[i]) => approval[i] = "none"
    /\ execs[i] = 1 /\ Gated(turn[i]) => Granted(i)

\* Calls that may yet ask for an approval, and calls whose approval waits for a
\* verdict, or with its verdict for the call to end.
MayAsk(i) == NeedsApproval(i) /\ approval[i] = "none" /\ row[i] # "failed"
IsOpen(i) == Gated(turn[i]) /\ row[i] = "awaiting_approval" /\ approval[i] # "approved"
ToAsk == {i \in Asked : MayAsk(i)}
Opened == {i \in Asked : IsOpen(i)}

\* A decided approval stays as it is.
Kept == \A i \in Asked : approval[i] \notin {"none", "pending"} => approval'[i] = approval[i]

\* What an outcome of a gated call is to the records of the call.
LEMMA GatedOutcome ==
  ASSUME Rows, NEW i \in Asked, NEW o \in Outcomes(i), Gated(turn[i]), row[i] # "started",
         Legal(row[i], approval[i], turn[i] \in ruled)
  PROVE  /\ Legal(o.row, o.approval, turn[i] \in ruled)
         /\ approval[i] # "none" => o.approval # "none"
         /\ approval[i] \notin {"none", "pending"} => o.approval = approval[i]
         /\ row[i] \in {"finished", "failed"} => o.row = row[i] /\ o.approval = approval[i]
         /\ o.verdict \in {"clear", "done"} =>
              /\ o.row # "awaiting_approval"
              /\ NeedsApproval(i) => o.row = "failed" \/ o.approval # "none"
         /\ o.verdict = "clear" =>
              /\ o.approval = approval[i]
              /\ approval[i] = "approved" \/ (approval[i] = "none" /\ turn[i] \in ruled)
         /\ o.row = "awaiting_approval" /\ o.approval # "approved" =>
              \/ row[i] = "awaiting_approval" /\ approval[i] # "approved"
              \/ NeedsApproval(i) /\ approval[i] = "none" /\ row[i] # "failed" /\ o.verdict = "park"
                 /\ o.approval # "none"
         /\ o.verdict = "park" => NeedsApproval(i) /\ approval[i] \in {"none", "pending"}
<1>0. /\ Entered(i) = (IF row[i] = "none" THEN "requested" ELSE row[i])
      /\ row[i] \in CallStatus \cup {"none"} /\ approval[i] \in Approval /\ Entered(i) \in CallStatus
  BY AskedCalls
<1>k. turn[i] # "ask" /\ (NeedsApproval(i) <=> turn[i] \notin ruled)
  BY DEF Gated, NeedsApproval
<1>1. CASE row[i] = "failed"
  BY <1>1, OutcomeIs
<1>2. CASE row[i] = "finished"
  <2>1. o.verdict = "done" /\ o.row = "finished" /\ o.approval = approval[i]
    BY <1>2, OutcomeIs
  <2>2. NeedsApproval(i) => approval[i] # "none"
    BY <1>2, <1>k DEF Legal
  <2> QED
    BY <1>2, <2>1, <2>2
<1>3. CASE row[i] \notin {"failed", "finished"}
  <2>1. PICK v, to : /\ to \in CallStatus /\ Way(i, v, to, o.approval, o.prompt)
                     /\ \/ /\ o.verdict = v /\ o.row = to
                           /\ \/ CanMoveCall(Entered(i), to)
                              \/ Entered(i) = "requested" /\ to = "approved"
                        \/ /\ o.verdict = "throw" /\ o.row = Entered(i)
                           /\ ~CanMoveCall(Entered(i), to)
                           /\ ~(Entered(i) = "requested" /\ to = "approved")
    BY <1>3, <1>k, OutcomeIs
  <2>m. CanMoveCall(Entered(i), to) <=>
          \/ Entered(i) = to
          \/ Entered(i) = "requested" /\ to \in {"awaiting_approval", "started", "failed"}
          \/ Entered(i) = "awaiting_approval" /\ to \in {"approved", "denied", "timed_out"}
          \/ Entered(i) = "approved" /\ to \in {"started", "denied", "timed_out"}
          \/ Entered(i) = "started" /\ to \in {"finished", "failed", "timed_out"}
    BY <1>0, <2>1, Moves
  <2>2. CASE v = "done" /\ to = "failed" /\ o.approval = approval[i]
    BY <1>0, <1>3, <1>k, <2>1, <2>m, <2>2 DEF Legal
  <2>3. CASE NeedsApproval(i) /\ o.approval \in Read(approval[i]) /\ AtGate(v, to, o.approval, Entered(i))
    <3>1. \/ approval[i] = "none" /\ o.approval = "pending"
          \/ approval[i] = "pending" /\ o.approval \in {"pending", "timed_out"}
          \/ approval[i] \notin {"none", "pending"} /\ o.approval = approval[i]
      BY <2>3, ReadIs
    <3>2. CASE o.approval = "pending"
      <4>1. v = "park" /\ to = (IF Entered(i) = "approved" THEN "approved" ELSE "awaiting_approval")
        BY <2>3, <3>2 DEF AtGate
      <4> QED
        BY <1>0, <1>3, <1>k, <2>1, <2>m, <2>3, <3>1, <3>2, <4>1 DEF Legal
    <3>3. CASE o.approval = "approved"
      <4>1. v = "clear" /\ to = "approved" /\ approval[i] = "approved"
        BY <2>3, <3>1, <3>3 DEF AtGate
      <4> QED
        BY <1>0, <1>3, <1>k, <2>1, <2>m, <2>3, <3>3, <4>1 DEF Legal
    <3>4. CASE o.approval \in {"denied", "timed_out"}
      <4>1. v = "done" /\ to = o.approval
        BY <2>3, <3>4 DEF AtGate
      <4> QED
        BY <1>0, <1>3, <1>k, <2>1, <2>m, <2>3, <3>1, <3>4, <4>1 DEF Legal
    <3> QED
      BY <2>3, <3>2, <3>3, <3>4 DEF AtGate
  <2>4. CASE ~NeedsApproval(i) /\ o.approval = approval[i] /\ v = "clear" /\ to = "approved"
    <3>1. approval[i] \in {"none", "approved"} \/ row[i] \in {"denied", "timed_out"}
      BY <1>k, <2>4 DEF Legal
    <3> QED
      BY <1>0, <1>3, <1>k, <2>1, <2>m, <2>4, <3>1 DEF Legal
  <2> QED
    BY <1>k, <2>1, <2>2, <2>3, <2>4 DEF Way
<1> QED
  BY <1>1, <1>2, <1>3

\* The approval of a call that is not gated stays away.
LEMMA UngatedOutcome ==
  ASSUME Rows, NEW i \in Asked, NEW o \in Outcomes(i), ~Gated(turn[i])
  PROVE  o.approval = approval[i]
<1>k. ~NeedsApproval(i)
  BY DEF NeedsApproval
<1>1. CASE row[i] \in {"failed", "finished"}
  BY <1>1, OutcomeIs
<1>2. CASE row[i] \notin {"failed", "finished"}
  <2>1. PICK v, to : Way(i, v, to, o.approval, o.prompt)
    BY <1>2, OutcomeIs
  <2> QED
    BY <1>k, <2>1 DEF Way
<1> QED
  BY <1>1, <1>2

\* What storing an outcome does to the approvals ...
LEMMA StoreAgree ==
  ASSUME Types, Once, Agree, NEW i \in Asked, NEW o \in Outcomes(i),
         row[i] = "started" => turn[i] = "ask", Store(i, o), UNCHANGED <<turn, execs>>
  PROVE  /\ Agree' /\ Kept
         /\ ToAsk' \subseteq ToAsk /\ Opened' \subseteq Opened \cup {i}
         /\ i \in Opened' => i \in Opened \/ (i \in ToAsk /\ i \notin ToAsk' /\ o.verdict = "park")
         /\ o.verdict \in {"clear", "done"} => i \notin Opened' /\ i \notin ToAsk'
         /\ o.verdict = "clear" /\ NeedsApproval(i) => approval'[i] = "approved"
<1>r. Rows
  BY DEF Types
<1>0. /\ ruled' = ruled /\ row'[i] = o.row /\ approval'[i] = o.approval /\ Asked' = Asked /\ Asked \subseteq Calls
      /\ \A j \in Calls \ {i} : row'[j] = row[j] /\ approval'[j] = approval[j]
  BY StoreTypes, AskedCalls DEF Types, Asked
<1>1. CASE Gated(turn[i])
  <2>s. row[i] # "started"
    BY <1>1 DEF Gated
  <2>l. /\ Legal(row[i], approval[i], turn[i] \in ruled)
        /\ execs[i] = 1 => Granted(i)
    BY <1>1 DEF Agree
  <2>o. /\ Legal(o.row, o.approval, turn[i] \in ruled)
        /\ approval[i] # "none" => o.approval # "none"
        /\ approval[i] \notin {"none", "pending"} => o.approval = approval[i]
        /\ row[i] \in {"finished", "failed"} => o.row = row[i] /\ o.approval = approval[i]
        /\ o.verdict \in {"clear", "done"} =>
             /\ o.row # "awaiting_approval"
             /\ NeedsApproval(i) => o.row = "failed" \/ o.approval # "none"
        /\ o.verdict = "clear" =>
             /\ o.approval = approval[i]
             /\ approval[i] = "approved" \/ (approval[i] = "none" /\ turn[i] \in ruled)
        /\ o.row = "awaiting_approval" /\ o.approval # "approved" =>
             \/ row[i] = "awaiting_approval" /\ approval[i] # "approved"
             \/ NeedsApproval(i) /\ approval[i] = "none" /\ row[i] # "failed" /\ o.verdict = "park"
                /\ o.approval # "none"
    BY <1>1, <1>r, <2>s, <2>l, GatedOutcome
  <2>1. execs[i] = 1 => o.row = row[i] /\ o.approval = approval[i]
    BY <2>s, <2>o DEF Once
  <2>2. Agree'
    <3> SUFFICES ASSUME NEW j \in Asked
                 PROVE  /\ Gated(turn[j]) => Legal(row'[j], approval'[j], turn[j] \in ruled)
                        /\ ~Gated(turn[j]) => approval'[j] = "none"
                        /\ execs[j] = 1 /\ Gated(turn[j]) =>
                             approval'[j] = "approved" \/ (approval'[j] = "none" /\ turn[j] \in ruled)
      BY <1>0 DEF Agree, Granted
    <3>1. CASE j = i
      BY <1>0, <1>1, <2>l, <2>o, <2>1, <3>1 DEF Granted
    <3>2. CASE j # i
      BY <1>0, <3>2 DEF Agree, Granted
    <3> QED
      BY <3>1, <3>2
  <2>3. Kept
    BY <1>0, <2>o DEF Kept
  <2>4. ToAsk' \subseteq ToAsk
    <3>1. \A j \in Asked : j # i => (MayAsk(j)' <=> MayAsk(j))
      BY <1>0 DEF MayAsk, NeedsApproval
    <3>2. MayAsk(i)' => MayAsk(i)
      BY <1>0, <2>o DEF MayAsk, NeedsApproval
    <3> QED
      BY <1>0, <3>1, <3>2 DEF ToAsk
  <2>5. Opened' \subseteq Opened \cup {i}
    <3>1. \A j \in Asked : j # i => (IsOpen(j)' <=> IsOpen(j))
      BY <1>0 DEF IsOpen
    <3> QED
      BY <1>0, <3>1 DEF Opened
  <2>6. i \in Opened' => i \in Opened \/ (i \in ToAsk /\ i \notin ToAsk' /\ o.verdict = "park")
    BY <1>0, <1>1, <2>o DEF Opened, IsOpen, ToAsk, MayAsk
  <2>7. o.verdict \in {"clear", "done"} => i \notin Opened' /\ i \notin ToAsk'
    BY <1>0, <2>o DEF Opened, IsOpen, ToAsk, MayAsk, NeedsApproval
  <2>8. o.verdict = "clear" /\ NeedsApproval(i) => approval'[i] = "approved"
    BY <1>0, <2>o DEF NeedsApproval
  <2> QED
    BY <2>2, <2>3, <2>4, <2>5, <2>6, <2>7, <2>8
<1>2. CASE ~Gated(turn[i])
  <2>1. o.approval = approval[i] /\ approval[i] = "none"
    BY <1>2, <1>r, UngatedOutcome DEF Agree
  <2>2. \A j \in Asked : approval'[j] = approval[j] /\ (Gated(turn[j]) => row'[j] = row[j])
    BY <1>0, <1>2, <2>1
  <2>3. Agree'
    BY <1>0, <2>2 DEF Agree, Granted
  <2>4. /\ ToAsk' = ToAsk /\ Opened' = Opened /\ Kept
        /\ i \notin ToAsk /\ i \notin Opened /\ ~NeedsApproval(i)
    BY <1>0, <1>2, <2>2 DEF ToAsk, MayAsk, NeedsApproval, Opened, IsOpen, Kept
  <2> QED
    BY <2>3, <2>4
<1> QED
  BY <1>1, <1>2

\* ... and what entering the tool does.
LEMMA StartAgree ==
  ASSUME Types, Once, Agree, NEW i \in Asked, NEW o \in Outcomes(i),
         row[i] = "started" => turn[i] = "ask", Startable(o), StartTool(i),
         UNCHANGED <<turn, approval, ruled>>
  PROVE  /\ Agree' /\ Kept
         /\ ToAsk' \subseteq ToAsk \ {i} /\ Opened' \subseteq Opened \ {i}
<1>r. Rows
  BY DEF Types
<1>0. /\ row'[i] = "started" /\ Asked' = Asked /\ Asked \subseteq Calls
      /\ \A j \in Calls \ {i} : row'[j] = row[j] /\ execs'[j] = execs[j]
  BY StartTypes, AskedCalls DEF Types, Asked
<1>1. Gated(turn[i]) => Granted(i)
  <2> SUFFICES ASSUME Gated(turn[i]) PROVE Granted(i)
    OBVIOUS
  <2>1. row[i] # "started" /\ Legal(row[i], approval[i], turn[i] \in ruled) /\ o.verdict = "clear"
    BY DEF Gated, Agree, Startable
  <2> QED
    BY <1>r, <2>1, GatedOutcome DEF Granted
<1>2. Agree'
  <2> SUFFICES ASSUME NEW j \in Asked
               PROVE  /\ Gated(turn[j]) => Legal(row'[j], approval[j], turn[j] \in ruled)
                      /\ ~Gated(turn[j]) => approval[j] = "none"
                      /\ execs'[j] = 1 /\ Gated(turn[j]) => Granted(j)
    BY <1>0 DEF Agree, Granted
  <2>1. CASE j = i
    <3>1. Gated(turn[i]) => Legal("started", approval[i], turn[i] \in ruled)
      BY <1>1 DEF Granted, Legal
    <3> QED
      BY <1>0, <1>1, <2>1, <3>1 DEF Agree
  <2>2. CASE j # i
    BY <1>0, <2>2 DEF Agree
  <2> QED
    BY <2>1, <2>2
<1>3. Kept
  BY DEF Kept
<1>4. \A j \in Asked : j # i => (MayAsk(j)' <=> MayAsk(j)) /\ (IsOpen(j)' <=> IsOpen(j))
  BY <1>0 DEF MayAsk, NeedsApproval, IsOpen
<1>5. ~MayAsk(i)' /\ ~IsOpen(i)'
  BY <1>0, <1>1 DEF MayAsk, NeedsApproval, IsOpen, Granted
<1> QED
  BY <1>0, <1>2, <1>3, <1>4, <1>5 DEF ToAsk, Opened

-----------------------------------------------------------------------------
(* The approvals of a turn, one at a time                                  *)

\* One approval is open at a time.
AtMostOne == \A i, j \in Opened : i = j

\* What the preflight has cleared needs no reviewer any more.
Launchable(i) == Safe(turn[i]) /\ (NeedsApproval(i) => approval[i] \notin {"none", "pending"})
Launchables == {i \in Asked : Launchable(i)}
Batch ==
  /\ inflight \subseteq Launchables
  /\ pc = "preflight" => \A k \in DOMAIN cleared : cleared[k] \in Launchables

\* A rejection to continue from is on record.
Rejections == \A v \in verdicts : v.by = "reject" => approval[v.call] \in {"denied", "timed_out"}

\* The lists the loop works on, or may work on again.
ListsOrdered ==
  /\ Ordered(pending, pos, Opened, ToAsk)
  /\ checkpoint # NoCheckpoint => Ordered(checkpoint.pending, 1, Opened, ToAsk)
  /\ \A c \in parking : Ordered(c.pending, 1, Opened, ToAsk)

ApprovalInv == Agree /\ AtMostOne /\ Batch /\ Rejections /\ ListsOrdered

\* A step asks for no approval and opens none, or the loop asks for the call at
\* hand and parks.
Calm == ToAsk' \subseteq ToAsk /\ Opened' \subseteq Opened
Asks ==
  /\ pos \in DOMAIN pending /\ Current \in ToAsk
  /\ ToAsk' \subseteq ToAsk \ {Current} /\ Opened' \subseteq Opened \cup {Current}
  /\ pc' = "park"
  /\ UNCHANGED <<turn, checkpoint, pending, pos, cleared, inflight, parking, verdicts>>

\* Steps that leave the records alone.
LEMMA QuietAgree ==
  ASSUME Agree, UNCHANGED <<turn, table, execs>>
  PROVE  Agree' /\ Kept /\ Opened' = Opened /\ ToAsk' = ToAsk
BY DEF table, Agree, Kept, Opened, ToAsk, MayAsk, IsOpen, NeedsApproval, Granted, Asked

\* The steps of the reviewers.
LEMMA ReviewAgree ==
  ASSUME Types, Untouched, Once, Agree, AtMostOne, NEW i \in Calls, ReviewAct(i)
  PROVE  Agree' /\ Kept /\ Calm
<1>a. /\ i \in Asked /\ Asked' = Asked /\ turn' = turn /\ Asked \subseteq Calls /\ execs' = execs
      /\ \A j \in Calls \ {i} : row'[j] = row[j] /\ approval'[j] = approval[j]
  BY Reviewed, AskedCalls DEF Types, Asked, work
\* only the approval of a gated call is decided, and only that of a call which waits
<1>k. ASSUME row' = row, Gated(turn[i]), approval[i] # "none",
             approval'[i] # "none",
             approval[i] = "pending" \/ approval'[i] = approval[i],
             \/ ruled' = ruled /\ approval'[i] \in {"approved", "denied", "timed_out"}
             \/ approval[i] = "pending" /\ approval'[i] = "approved" /\ ruled' = ruled \cup {turn[i]}
      PROVE  Agree' /\ Kept /\ Calm
  <2>1. Legal(row[i], approval[i], turn[i] \in ruled) /\ (execs[i] = 1 => approval[i] = "approved")
    BY <1>k, <1>a DEF Agree, Granted
  <2>2. approval[i] = "pending" => row[i] = "awaiting_approval" /\ turn[i] \notin ruled /\ i \in Opened
    BY <1>k, <1>a, <2>1 DEF Legal, Opened, IsOpen
  <2>3. Legal(row[i], approval'[i], turn[i] \in ruled')
    <3>1. CASE approval[i] = "pending" /\ ruled' = ruled
      BY <1>k, <2>2, <3>1 DEF Legal
    <3>2. CASE approval[i] = "pending" /\ approval'[i] = "approved"
      BY <2>2, <3>2 DEF Legal
    <3>3. CASE approval[i] # "pending"
      BY <1>k, <2>1, <3>3
    <3> QED
      BY <1>k, <3>1, <3>2, <3>3
  <2>4. ASSUME NEW j \in Asked, j # i, Gated(turn[j])
        PROVE  Legal(row[j], approval[j], turn[j] \in ruled')
    <3>1. Legal(row[j], approval[j], turn[j] \in ruled)
      BY <2>4 DEF Agree
    <3>2. ~(row[j] = "awaiting_approval" /\ approval[j] # "approved") \/ ruled' = ruled
      BY <1>k, <2>2, <2>4 DEF AtMostOne, Opened, IsOpen
    <3>3. turn[j] \in ruled => turn[j] \in ruled'
      BY <1>k
    <3> QED
      BY <3>1, <3>2, <3>3 DEF Legal
  <2>5. Agree'
    <3> SUFFICES ASSUME NEW j \in Asked
                 PROVE  /\ Gated(turn[j]) => Legal(row[j], approval'[j], turn[j] \in ruled')
                        /\ ~Gated(turn[j]) => approval'[j] = "none"
                        /\ execs[j] = 1 /\ Gated(turn[j]) =>
                             approval'[j] = "approved" \/ (approval'[j] = "none" /\ turn[j] \in ruled')
      BY <1>a, <1>k DEF Agree, Granted
    <3>1. CASE j = i
      BY <1>a, <1>k, <2>1, <2>3, <3>1
    <3>2. CASE j # i
      <4>1. approval'[j] = approval[j] /\ (turn[j] \in ruled => turn[j] \in ruled')
        BY <1>a, <1>k, <3>2
      <4> QED
        BY <2>4, <3>2, <4>1 DEF Agree, Granted
    <3> QED
      BY <3>1, <3>2
  <2>6. Kept
    BY <1>a, <1>k DEF Kept
  <2>7. \A j \in Asked : (MayAsk(j)' => MayAsk(j)) /\ (IsOpen(j)' => IsOpen(j))
    <3> SUFFICES ASSUME NEW j \in Asked PROVE (MayAsk(j)' => MayAsk(j)) /\ (IsOpen(j)' => IsOpen(j))
      OBVIOUS
    <3>1. CASE j = i
      BY <1>a, <1>k, <2>2, <3>1 DEF MayAsk, IsOpen, NeedsApproval, Opened
    <3>2. CASE j # i
      BY <1>a, <1>k, <3>2 DEF MayAsk, IsOpen, NeedsApproval
    <3> QED
      BY <3>1, <3>2
  <2> QED
    BY <1>a, <2>5, <2>6, <2>7 DEF Calm, ToAsk, Opened
<1>u. approval[i] # "none" => Gated(turn[i])
  BY <1>a DEF Agree
<1>t. approval \in [Calls -> Approval] /\ i \in Calls
  BY DEF Types, Rows
<1>1. ASSUME NEW scope \in {"once", "session"}, Allow(i, scope) PROVE Agree' /\ Kept /\ Calm
  <2>1. /\ approval[i] = "pending" /\ approval' = [approval EXCEPT ![i] = "approved"] /\ row' = row
        /\ ruled' = ruled \/ ruled' = ruled \cup {turn[i]}
    BY <1>1 DEF Allow, UnchangedByReview
  <2>2. approval'[i] = "approved"
    BY <2>1, <1>t
  <2> QED
    BY <2>1, <2>2, <1>u, <1>k
<1>2. ASSUME NEW as \in {"denied", "timed_out"}, Reject(i, as) PROVE Agree' /\ Kept /\ Calm
  <2>1. /\ approval[i] \in {"pending", as} /\ approval' = [approval EXCEPT ![i] = as]
        /\ row' = row /\ ruled' = ruled
    BY <1>2 DEF Reject, UnchangedByReview
  <2>2. approval'[i] = as
    BY <2>1, <1>t
  <2>3. approval[i] # "none" /\ approval'[i] # "none"
    BY <2>1, <2>2, <1>2
  <2> QED
    BY <1>2, <2>1, <2>2, <2>3, <1>u, <1>k
<1>3. CASE Answer(i) \/ Cancel(i) \/ ExpirePrompt(i)
  <2>1. /\ approval' = approval /\ ruled' = ruled /\ prompt[i] # "none"
        /\ row' = row \/ row' = [row EXCEPT ![i] = "timed_out"]
    BY <1>3 DEF Answer, Cancel, ExpirePrompt, Decidable, UnchangedByReview
  <2>2. turn[i] = "ask"
    BY <1>a, <2>1 DEF Once
  <2>3. ~Gated(turn[i])
    BY <2>2 DEF Gated
  <2>4. \A j \in Asked : Gated(turn[j]) => row'[j] = row[j]
    BY <1>a, <2>3
  <2>5. Agree'
    BY <1>a, <2>1, <2>4 DEF Agree, Granted
  <2>6. Kept /\ ToAsk' = ToAsk /\ Opened' = Opened
    BY <1>a, <2>1, <2>4 DEF Kept, ToAsk, Opened, MayAsk, IsOpen, NeedsApproval
  <2> QED
    BY <2>5, <2>6 DEF Calm
<1> QED
  BY <1>1, <1>2, <1>3 DEF ReviewAct

\* A call that is cleared or launched has nothing to ask.
LEMMA LaunchableAsksNot == \A i \in Asked : Launchable(i) => i \notin ToAsk
BY DEF Launchable, ToAsk, MayAsk

\* What execute does to the approvals when it is called for a call of the loop.
LEMMA PreflightAgree ==
  ASSUME Types, PlaceInv, Agree, Preflight
  PROVE  /\ Agree' /\ Kept
         /\ Calm \/ Asks
         /\ pc' = "preflight" => Current \notin Opened' /\ Current \notin ToAsk'
         /\ pc' = "preflight" => \/ cleared' = cleared
                                 \/ /\ cleared' = Append(cleared, Current) /\ Safe(turn[Current])
                                    /\ NeedsApproval(Current) => approval'[Current] = "approved"
<1>1. /\ pos \in DOMAIN pending /\ Current \in Asked /\ pc \in {"calls", "preflight"}
      /\ UNCHANGED <<turn, pending, execs, inflight, executing, parking, verdicts>>
  BY PreflightPlace
<1>2. row[Current] = "started" => turn[Current] = "ask"
  BY <1>1, NotStarted DEF PlaceInv
<1>3. PICK o \in Outcomes(Current) :
           /\ Store(Current, o)
           /\ \/ o.verdict = "throw" /\ pc' = "off"
              \/ o.verdict = "park" /\ pc' = "park" /\ UNCHANGED <<checkpoint, pos, cleared>>
              \/ o.verdict = "clear" /\ pc' = "preflight" /\ cleared' = Append(cleared, Current)
              \/ o.verdict = "done" /\ pc' = "preflight" /\ cleared' = cleared
  BY PreflightPlace DEF Fail
<1>4. /\ Agree' /\ Kept
      /\ ToAsk' \subseteq ToAsk /\ Opened' \subseteq Opened \cup {Current}
      /\ Current \in Opened' =>
           Current \in Opened \/ (Current \in ToAsk /\ Current \notin ToAsk' /\ o.verdict = "park")
      /\ o.verdict \in {"clear", "done"} => Current \notin Opened' /\ Current \notin ToAsk'
      /\ o.verdict = "clear" /\ NeedsApproval(Current) => approval'[Current] = "approved"
  <2>1. Once /\ Store(Current, o)
    BY <1>3 DEF PlaceInv
  <2> QED
    BY <1>1, <1>2, <2>1, StoreAgree
<1>5. Calm \/ Asks
  <2>1. CASE Opened' \subseteq Opened
    BY <1>4, <2>1 DEF Calm
  <2>2. CASE ~(Opened' \subseteq Opened)
    <3>1. Current \in ToAsk /\ Current \notin ToAsk' /\ o.verdict = "park"
      BY <1>4, <2>2
    <3>2. pc' = "park" /\ UNCHANGED <<checkpoint, pos, cleared>>
      BY <1>3, <3>1
    <3> QED
      BY <1>1, <1>4, <3>1, <3>2 DEF Asks
  <2> QED
    BY <2>1, <2>2
<1>6. pc' = "preflight" => o.verdict \in {"clear", "done"}
  BY <1>3
<1>7. Safe(turn[Current])
  BY DEF Preflight
<1> QED
  BY <1>3, <1>4, <1>5, <1>6, <1>7

LEMMA InvokeAgree ==
  ASSUME Types, PlaceInv, Agree, Invoke
  PROVE  /\ Agree' /\ Kept
         /\ Calm \/ Asks
         /\ pos' = pos + 1 => Current \notin Opened' /\ Current \notin ToAsk'
         /\ pc' \in {"off", "park", "calls", "await"} /\ pos' \in {pos, pos + 1}
         /\ checkpoint' \in {checkpoint, NoCheckpoint}
<1>1. /\ pos \in DOMAIN pending /\ Current \in Asked /\ pc = "calls"
      /\ UNCHANGED <<turn, pending, inflight, parking, verdicts>> /\ pos \in Int
  BY InvokePlace DEF Types, Shapes, Lists
<1>2. row[Current] = "started" => turn[Current] = "ask"
  BY <1>1, NotStarted DEF PlaceInv
<1>3. PICK o \in Outcomes(Current) :
           \/ /\ Startable(o) /\ StartTool(Current) /\ pos' = pos + 1 /\ pc' = "await"
              /\ UNCHANGED <<approval, ruled, checkpoint>>
           \/ /\ o.verdict = "done" /\ Store(Current, o) /\ pos' = pos + 1
              /\ UNCHANGED <<checkpoint, pc, execs>>
           \/ /\ o.verdict = "park" /\ Store(Current, o) /\ pc' = "park"
              /\ UNCHANGED <<checkpoint, pos, cleared, execs>>
           \/ /\ Thrown(o) /\ Store(Current, o) /\ pc' = "off" /\ checkpoint' = NoCheckpoint
              /\ UNCHANGED <<pos, execs>>
  BY InvokePlace DEF Fail
<1>4. CASE Startable(o) /\ StartTool(Current) /\ pos' = pos + 1 /\ pc' = "await"
           /\ UNCHANGED <<approval, ruled, checkpoint>>
  <2>1. Agree' /\ Kept /\ ToAsk' \subseteq ToAsk \ {Current} /\ Opened' \subseteq Opened \ {Current}
    <3>1. Once
      BY DEF PlaceInv
    <3> QED
      BY <1>1, <1>2, <1>4, <3>1, StartAgree
  <2> QED
    BY <1>4, <2>1 DEF Calm
<1>5. CASE Store(Current, o) /\ execs' = execs
  <2>1. /\ Agree' /\ Kept
        /\ ToAsk' \subseteq ToAsk /\ Opened' \subseteq Opened \cup {Current}
        /\ Current \in Opened' =>
             Current \in Opened \/ (Current \in ToAsk /\ Current \notin ToAsk' /\ o.verdict = "park")
        /\ o.verdict \in {"clear", "done"} => Current \notin Opened' /\ Current \notin ToAsk'
    <3>1. Once
      BY DEF PlaceInv
    <3> QED
      BY <1>1, <1>2, <1>5, <3>1, StoreAgree
  <2>2. Calm \/ Asks
    <3>1. CASE Opened' \subseteq Opened
      BY <2>1, <3>1 DEF Calm
    <3>2. CASE ~(Opened' \subseteq Opened)
      <4>1. Current \in ToAsk /\ Current \notin ToAsk' /\ o.verdict = "park"
        BY <2>1, <3>2
      <4>2. pc' = "park" /\ UNCHANGED <<checkpoint, pos, cleared>>
        BY <1>3, <4>1 DEF Startable, Thrown
      <4> QED
        BY <1>1, <2>1, <4>1, <4>2 DEF Asks
    <3> QED
      BY <3>1, <3>2
  <2>3. pos' = pos + 1 => o.verdict \in {"clear", "done"}
    BY <1>1, <1>3 DEF Startable
  <2> QED
    BY <1>1, <1>3, <2>1, <2>2, <2>3
<1> QED
  BY <1>3, <1>4, <1>5

LEMMA LaunchAgree ==
  ASSUME Types, PlaceInv, Agree, Batch, NEW i \in Calls, Launch(i)
  PROVE  Agree' /\ Kept /\ Calm
<1>1. /\ i \in Asked /\ i \in inflight /\ turn' = turn
  BY LaunchPlace
<1>2. row[i] = "started" => turn[i] = "ask"
  BY <1>1, NotStarted DEF PlaceInv
<1>3. i \notin ToAsk /\ Once
  BY <1>1, LaunchableAsksNot DEF Batch, Launchables, PlaceInv
<1>4. PICK o \in Outcomes(i) :
           \/ Startable(o) /\ StartTool(i) /\ UNCHANGED <<approval, ruled>>
           \/ Store(i, o) /\ execs' = execs
  BY LaunchPlace
<1>5. CASE Startable(o) /\ StartTool(i) /\ UNCHANGED <<approval, ruled>>
  BY <1>1, <1>2, <1>3, <1>5, StartAgree DEF Calm
<1>6. CASE Store(i, o) /\ execs' = execs
  BY <1>1, <1>2, <1>3, <1>6, StoreAgree DEF Calm
<1> QED
  BY <1>4, <1>5, <1>6

LEMMA FinishAgree ==
  ASSUME Types, PlaceInv, Agree, NEW i \in Calls, NEW to \in {"finished", "failed"}, FinishTool(i, to)
  PROVE  Agree' /\ Kept /\ Calm
<1>1. /\ i \in executing /\ i \in Asked /\ row' = [row EXCEPT ![i] = to]
      /\ UNCHANGED <<turn, approval, ruled, execs>> /\ Asked' = Asked /\ Asked \subseteq Calls
  BY AskedCalls DEF FinishTool, Types, Shapes, Asked
<1>2. row[i] = "started" /\ row'[i] = to /\ \A j \in Asked : j # i => row'[j] = row[j]
  BY <1>1 DEF PlaceInv, Once, Types, Rows
<1>3. Gated(turn[i]) => approval[i] = "approved" \/ (approval[i] = "none" /\ turn[i] \in ruled)
  BY <1>1, <1>2 DEF Agree, Legal
<1>4. Agree'
  <2> SUFFICES ASSUME NEW j \in Asked
               PROVE  /\ Gated(turn[j]) => Legal(row'[j], approval[j], turn[j] \in ruled)
                      /\ ~Gated(turn[j]) => approval[j] = "none"
                      /\ execs[j] = 1 /\ Gated(turn[j]) => Granted(j)
    BY <1>1 DEF Agree, Granted
  <2>1. CASE j = i
    <3>1. Gated(turn[i]) => Legal(to, approval[i], turn[i] \in ruled)
      BY <1>3 DEF Legal
    <3> QED
      BY <1>1, <1>2, <2>1, <3>1 DEF Agree
  <2>2. CASE j # i
    BY <1>2, <2>2 DEF Agree
  <2> QED
    BY <2>1, <2>2
<1>5. \A j \in Asked : (MayAsk(j)' => MayAsk(j)) /\ (IsOpen(j)' => IsOpen(j))
  BY <1>1, <1>2 DEF MayAsk, NeedsApproval, IsOpen
<1> QED
  BY <1>1, <1>4, <1>5 DEF Kept, Calm, ToAsk, Opened

\* What a step does to the lists, when it asks for an approval ...
LEMMA AsksLists == ASSUME Types, ListsOrdered, AtMostOne, Asks PROVE ListsOrdered' /\ AtMostOne'
<1>n. /\ Len(turn) \in Nat /\ pending \in Lists(Len(turn)) /\ pos \in Int /\ DOMAIN pending \subseteq Int
      /\ checkpoint # NoCheckpoint => checkpoint.pending \in Lists(Len(turn))
      /\ \A c \in parking : c.pending \in Lists(Len(turn))
  BY SavedIs DEF Types, Rows, Shapes, Lists
<1>1. pos \in DOMAIN pending /\ pending[pos] \in ToAsk /\ Ordered(pending, pos, Opened, ToAsk)
  BY DEF Asks, Current, ListsOrdered
<1>2. Opened = {}
  BY <1>n, <1>1, OrderHead
<1>3. Opened' \subseteq {pending[pos]} /\ ToAsk' \subseteq ToAsk \ {pending[pos]}
  BY <1>2 DEF Asks, Current
<1>4. Ordered(pending, pos, {}, ToAsk)
  BY <1>1, <1>2
<1>5. Ordered(pending, pos, Opened', ToAsk')
  BY <1>n, <1>1, <1>3, <1>4, OrderOpens
<1>6. \A s \in Lists(Len(turn)) : Ordered(s, 1, {}, ToAsk) => Ordered(s, 1, Opened', ToAsk')
  BY <1>n, <1>1, <1>3, <1>4, OrderElsewhere
<1>7. UNCHANGED <<pending, pos, checkpoint, parking>>
  BY DEF Asks
<1>8. checkpoint # NoCheckpoint => Ordered(checkpoint.pending, 1, Opened', ToAsk')
  BY <1>n, <1>2, <1>6 DEF ListsOrdered
<1>9. \A c \in parking : Ordered(c.pending, 1, Opened', ToAsk')
  BY <1>n, <1>2, <1>6 DEF ListsOrdered
<1> QED
  BY <1>3, <1>5, <1>7, <1>8, <1>9 DEF ListsOrdered, AtMostOne

\* ... and when it does not.
LEMMA CalmLists ==
  ASSUME AtMostOne, Calm, Ordered(pending', pos', Opened', ToAsk'),
         checkpoint' # NoCheckpoint => Ordered(checkpoint'.pending, 1, Opened, ToAsk),
         \A c \in parking' : Ordered(c.pending, 1, Opened, ToAsk)
  PROVE  ListsOrdered' /\ AtMostOne'
<1>1. Opened' \subseteq Opened /\ ToAsk' \subseteq ToAsk
  BY DEF Calm
<1>2. \A s : Ordered(s, 1, Opened, ToAsk) => Ordered(s, 1, Opened', ToAsk')
  BY <1>1, OrderShrinks
<1> QED
  BY <1>1, <1>2 DEF ListsOrdered, AtMostOne

\* Steps between which the lists do not change.
LEMMA CalmSame ==
  ASSUME ListsOrdered, AtMostOne, Calm, pending' = pending, pos' = pos,
         checkpoint' \in {checkpoint, NoCheckpoint}, parking' \subseteq parking
  PROVE  ListsOrdered' /\ AtMostOne'
<1>1. Ordered(pending, pos, Opened', ToAsk')
  BY OrderShrinks DEF ListsOrdered, Calm
<1> QED
  BY <1>1, CalmLists DEF ListsOrdered

\* The loop goes on to the next call.
LEMMA CalmNext ==
  ASSUME Types, ListsOrdered, AtMostOne, Calm, pending' = pending, pos' = pos + 1, pos \in DOMAIN pending,
         Current \notin Opened', Current \notin ToAsk',
         checkpoint' \in {checkpoint, NoCheckpoint}, parking' = parking
  PROVE  ListsOrdered' /\ AtMostOne'
<1>n. pos \in Int /\ DOMAIN pending \subseteq Int
  BY DEF Types, Shapes, Lists
<1>1. Ordered(pending, pos, Opened', ToAsk')
  BY OrderShrinks DEF ListsOrdered, Calm
<1>2. pending[pos] \notin Opened' /\ pending[pos] \notin ToAsk'
  BY DEF Current
<1>3. Ordered(pending, pos + 1, Opened', ToAsk')
  BY <1>n, <1>1, <1>2, OrderAdvances
<1> QED
  BY <1>3, CalmLists DEF ListsOrdered

\* The batch, the rejections and the lists, in any step.
LEMMA ApprovalStep ==
  ASSUME Types, Untouched, PlaceInv, ApprovalInv, [Next]_vars
  PROVE  Agree' /\ Kept /\ AtMostOne' /\ ListsOrdered'
<1> USE DEF loop, work
<1>i. Agree /\ AtMostOne /\ Batch /\ Rejections /\ ListsOrdered /\ Once
  BY DEF ApprovalInv, PlaceInv
<1>n. /\ Len(turn) \in Nat /\ Asked = 1 .. Len(turn) /\ pending \in Lists(Len(turn))
      /\ pos \in 1 .. Len(pending) + 1
  BY DEF Types, Rows, Shapes, Asked
\* steps that leave the records alone, and change the lists
<1>q. ASSUME UNCHANGED <<turn, table, execs>>
      PROVE  Agree' /\ Kept /\ Calm /\ Opened' = Opened /\ ToAsk' = ToAsk
  BY <1>i, <1>q, QuietAgree DEF Calm
<1>1. CASE ProviderResponds
  <2>1. PICK n \in Calls : pending' = [i \in 1 .. n |-> i] /\ turn' \in [1 .. n -> Kinds]
    BY <1>1 DEF ProviderResponds
  <2>2. /\ n \in Nat /\ n <= MaxCalls /\ MaxCalls \in Nat /\ Asked' = 1 .. n /\ Asked = {}
        /\ turn = << >> /\ pos' = 1
    BY <1>1, <2>1, <1>n, CallsAssumption DEF Calls, Asked, ProviderResponds
  <2>3. \A i \in 1 .. n : row'[i] = "none" /\ approval'[i] = "none" /\ execs'[i] = 0
    <3>1. UNCHANGED <<row, approval, execs>>
      BY <1>1 DEF ProviderResponds, table
    <3>2. \A i \in 1 .. n : i \in Calls \ Asked
      BY <2>2 DEF Calls
    <3> QED
      BY <3>1, <3>2 DEF Untouched
  <2>4. Agree'
    BY <2>2, <2>3 DEF Agree, Legal
  <2>5. Kept
    BY <2>2 DEF Kept
  <2>6. Opened' = {} /\ ToAsk' \in SUBSET (1 .. n)
    BY <2>2, <2>3 DEF Opened, IsOpen, ToAsk
  <2>7. Ordered(pending', pos', Opened', ToAsk')
    BY <2>1, <2>2, <2>6, OrderWhole
  <2>8. \A s \in Lists(0) : Ordered(s, 1, Opened', ToAsk')
    <3>1. \A s \in Lists(0) : s = << >>
      BY Empties DEF Lists
    <3> QED
      BY <3>1, OrderShort
  <2>9. /\ checkpoint' = checkpoint /\ parking' = parking
        /\ checkpoint # NoCheckpoint => checkpoint.pending \in Lists(0)
        /\ \A c \in parking : c.pending \in Lists(0)
    <3>1. Len(turn) = 0
      BY <2>2
    <3> QED
      BY <1>1, <3>1, SavedIs DEF ProviderResponds, Types, Shapes
  <2>10. ListsOrdered'
    BY <2>7, <2>8, <2>9 DEF ListsOrdered
  <2> QED
    BY <2>4, <2>5, <2>6, <2>10 DEF AtMostOne
<1>2. CASE ProviderFinal
  <2>1. UNCHANGED <<turn, table, execs, pending, pos, parking>> /\ checkpoint' = NoCheckpoint
    BY <1>2 DEF ProviderFinal
  <2> QED
    BY <2>1, <1>i, <1>q, CalmSame
<1>3. CASE ProviderRecovers
  <2>1. /\ UNCHANGED <<turn, table, execs, pending, pos, parking>> /\ pending = << >>
        /\ checkpoint' = [pending |-> pending, results |-> results]
    BY <1>3 DEF ProviderRecovers, PlaceInv, LoopPlace
  <2>2. checkpoint'.pending = << >> /\ Ordered(<< >>, 1, Opened, ToAsk)
    BY <2>1, OrderShort
  <2> QED
    BY <2>1, <2>2, <1>i, <1>q, CalmLists DEF ListsOrdered
<1>4. CASE Preflight
  <2>1. /\ Agree' /\ Kept /\ (Calm \/ Asks)
        /\ pc' = "preflight" => Current \notin Opened' /\ Current \notin ToAsk'
    BY <1>4, <1>i, PreflightAgree
  <2>2. /\ pos \in DOMAIN pending /\ UNCHANGED <<pending, parking>>
        /\ \/ pc' = "off" /\ pos' = pos /\ checkpoint' = NoCheckpoint
           \/ pc' = "park" /\ pos' = pos /\ checkpoint' = checkpoint
           \/ pc' = "preflight" /\ pos' = pos + 1 /\ checkpoint' = checkpoint
    BY <1>4, PreflightPlace DEF Fail
  <2>3. CASE Asks
    BY <1>i, <2>1, <2>3, AsksLists
  <2>4. CASE Calm /\ pos' = pos
    BY <1>i, <2>1, <2>2, <2>4, CalmSame
  <2>5. CASE Calm /\ pos' = pos + 1
    <3>1. pc' = "preflight"
      BY <1>n, <2>2, <2>5
    <3> QED
      BY <1>i, <2>1, <2>2, <2>5, <3>1, CalmNext
  <2> QED
    BY <2>1, <2>2, <2>3, <2>4, <2>5
<1>5. CASE StartBatch
  <2>1. UNCHANGED <<turn, table, execs, pending, pos, checkpoint, parking>>
    BY <1>5 DEF StartBatch
  <2> QED
    BY <2>1, <1>i, <1>q, CalmSame
<1>6. CASE Invoke
  <2>1. /\ Agree' /\ Kept /\ (Calm \/ Asks)
        /\ pos' = pos + 1 => Current \notin Opened' /\ Current \notin ToAsk'
        /\ pos' \in {pos, pos + 1} /\ checkpoint' \in {checkpoint, NoCheckpoint}
    BY <1>6, <1>i, InvokeAgree
  <2>2. pos \in DOMAIN pending /\ UNCHANGED <<pending, parking>>
    BY <1>6, InvokePlace
  <2>3. CASE Asks
    BY <1>i, <2>1, <2>3, AsksLists
  <2>4. CASE Calm /\ pos' = pos
    BY <1>i, <2>1, <2>2, <2>4, CalmSame
  <2>5. CASE Calm /\ pos' = pos + 1
    BY <1>i, <2>1, <2>2, <2>5, CalmNext
  <2> QED
    BY <2>1, <2>3, <2>4, <2>5
<1>7. CASE Collect
  <2>1. UNCHANGED <<turn, table, execs, pending, pos, checkpoint, parking>>
    BY <1>7 DEF Collect
  <2> QED
    BY <2>1, <1>i, <1>q, CalmSame
<1>8. CASE EndTurn
  <2>1. UNCHANGED <<turn, table, execs, parking>> /\ pending' = << >> /\ pos' = 1 /\ checkpoint' = NoCheckpoint
    BY <1>8 DEF EndTurn
  <2>2. Ordered(pending', pos', Opened', ToAsk')
    BY <2>1, OrderShort
  <2> QED
    BY <2>1, <2>2, <1>i, <1>q, CalmLists DEF ListsOrdered
<1>9. CASE Park
  <2>1. /\ UNCHANGED <<turn, table, execs, pending, pos, checkpoint>>
        /\ parking' = parking \cup {[pending |-> Rest, results |-> results]}
    BY <1>9 DEF Park
  <2>2. Ordered(Rest, 1, Opened, ToAsk)
    BY <1>i, <1>n, OrderRest DEF Rest, ListsOrdered
  <2>3. \A c \in parking' : Ordered(c.pending, 1, Opened, ToAsk)
    BY <2>1, <2>2, <1>i DEF ListsOrdered
  <2>4. Ordered(pending', pos', Opened', ToAsk')
    BY <2>1, <1>i, <1>q DEF ListsOrdered
  <2> QED
    BY <2>1, <2>3, <2>4, <1>i, <1>q, CalmLists DEF ListsOrdered
<1>10. ASSUME NEW c \in parking, SaveCheckpoint(c) PROVE Agree' /\ Kept /\ AtMostOne' /\ ListsOrdered'
  <2>1. UNCHANGED <<turn, table, execs, pending, pos>> /\ checkpoint' = c /\ parking' \subseteq parking
    BY <1>10 DEF SaveCheckpoint
  <2>2. Ordered(pending', pos', Opened', ToAsk')
    BY <2>1, <1>i, <1>q DEF ListsOrdered
  <2> QED
    BY <2>1, <2>2, <1>i, <1>q, CalmLists DEF ListsOrdered
<1>11. ASSUME NEW i \in Calls, Launch(i) PROVE Agree' /\ Kept /\ AtMostOne' /\ ListsOrdered'
  <2>1. UNCHANGED <<pending, pos, parking>> /\ checkpoint' \in {checkpoint, NoCheckpoint}
    BY <1>11, LaunchPlace
  <2> QED
    BY <1>11, <2>1, <1>i, LaunchAgree, CalmSame
<1>12. ASSUME NEW i \in Calls, NEW to \in {"finished", "failed"}, FinishTool(i, to)
       PROVE  Agree' /\ Kept /\ AtMostOne' /\ ListsOrdered'
  <2>1. UNCHANGED <<pending, pos, parking, checkpoint>>
    BY <1>12 DEF FinishTool
  <2> QED
    BY <1>12, <2>1, <1>i, FinishAgree, CalmSame
<1>13. ASSUME NEW as \in {"failed", "cancelled"}, Interrupt(as) PROVE Agree' /\ Kept /\ AtMostOne' /\ ListsOrdered'
  <2>1. UNCHANGED <<turn, table, execs, pending, pos, parking>> /\ checkpoint' = NoCheckpoint
    BY <1>13 DEF Interrupt, Fail
  <2> QED
    BY <2>1, <1>i, <1>q, CalmSame
<1>14. ASSUME NEW i \in Calls, ReviewAct(i) PROVE Agree' /\ Kept /\ AtMostOne' /\ ListsOrdered'
  <2>1. UNCHANGED <<pending, pos, parking>> /\ checkpoint' \in {checkpoint, NoCheckpoint}
    BY <1>14, Reviewed
  <2> QED
    BY <1>14, <2>1, <1>i, ReviewAgree, CalmSame
<1>15. ASSUME NEW v \in verdicts, Continue(v) PROVE Agree' /\ Kept /\ AtMostOne' /\ ListsOrdered'
  <2>1. /\ UNCHANGED <<turn, table, execs, checkpoint, parking>>
        /\ \/ UNCHANGED <<pending, pos>>
           \/ checkpoint # NoCheckpoint /\ pending' = checkpoint.pending /\ pos' = 1
           \/ v.by = "reject" /\ v.call \in Asked /\ pending' = <<v.call>> /\ pos' = 1
    <3>1. Continue(v) => checkpoint # NoCheckpoint \/ UNCHANGED loop
      BY DEF Continue, Resumable, ResumableRejected
    <3> QED
      BY <1>15, <3>1, Continued DEF Resume
  <2>2. Ordered(pending', pos', Opened', ToAsk')
    <3>1. CASE UNCHANGED <<pending, pos>>
      BY <2>1, <3>1, <1>i, <1>q DEF ListsOrdered
    <3>2. CASE checkpoint # NoCheckpoint /\ pending' = checkpoint.pending /\ pos' = 1
      BY <2>1, <3>2, <1>i, <1>q DEF ListsOrdered
    <3>3. CASE v.by = "reject" /\ v.call \in Asked /\ pending' = <<v.call>> /\ pos' = 1
      <4>1. v.call \notin ToAsk
        BY <1>15, <3>3, <1>i DEF Rejections, ToAsk, MayAsk
      <4> QED
        BY <2>1, <3>3, <4>1, <1>q, OrderShort
    <3> QED
      BY <2>1, <3>1, <3>2, <3>3
  <2> QED
    BY <2>1, <2>2, <1>i, <1>q, CalmLists DEF ListsOrdered
<1>16. CASE Crash \/ ReviewerCrash
  <2>1. UNCHANGED <<turn, table, execs, pending, pos, checkpoint>> /\ parking' \subseteq parking
    BY <1>16 DEF Crash, ReviewerCrash
  <2> QED
    BY <2>1, <1>i, <1>q, CalmSame
<1>17. CASE UNCHANGED vars
  <2>1. UNCHANGED <<turn, table, execs, pending, pos, checkpoint, parking>>
    BY <1>17 DEF vars
  <2> QED
    BY <2>1, <1>i, <1>q, CalmSame
<1> QED
  BY <1>1, <1>2, <1>3, <1>4, <1>5, <1>6, <1>7, <1>8, <1>9, <1>10, <1>11, <1>12, <1>13, <1>14, <1>15,
     <1>16, <1>17, Acts DEF LoopAct

\* Rules are only added, and calls come into a batch by the preflight.
LEMMA RulesGrow == ASSUME Types, [Next]_vars PROVE ruled \subseteq ruled'
<1> USE DEF table
<1>1. CASE Preflight
  <2>1. \E o \in Outcomes(Current) : Store(Current, o)
    BY <1>1 DEF Preflight
  <2> QED
    BY <2>1 DEF Store
<1>2. CASE Invoke
  <2>1. ruled' = ruled \/ \E o \in Outcomes(Current) : Store(Current, o)
    BY <1>2 DEF Invoke
  <2> QED
    BY <2>1 DEF Store
<1>3. ASSUME NEW i \in Calls, Launch(i) PROVE ruled \subseteq ruled'
  <2>1. ruled' = ruled \/ \E o \in Outcomes(i) : Store(i, o)
    BY <1>3 DEF Launch
  <2> QED
    BY <2>1 DEF Store
<1>4. ASSUME NEW i \in Calls, ReviewAct(i) PROVE ruled \subseteq ruled'
  BY <1>4 DEF ReviewAct, Allow, Reject, Answer, Cancel, ExpirePrompt
<1>5. CASE ProviderResponds \/ ProviderFinal \/ ProviderRecovers \/ StartBatch \/ Collect \/ EndTurn \/ Park
  BY <1>5 DEF ProviderResponds, ProviderFinal, ProviderRecovers, StartBatch, Collect, EndTurn, Park
<1>6. CASE \E c \in parking : SaveCheckpoint(c)
  BY <1>6 DEF SaveCheckpoint
<1>7. CASE \E i \in Calls : \E to \in {"finished", "failed"} : FinishTool(i, to)
  BY <1>7 DEF FinishTool
<1>8. CASE \E as \in {"failed", "cancelled"} : Interrupt(as)
  BY <1>8 DEF Interrupt
<1>9. CASE (\E v \in verdicts : Continue(v)) \/ Crash \/ ReviewerCrash \/ UNCHANGED vars
  BY <1>9 DEF Continue, Crash, ReviewerCrash, vars
<1> QED
  BY <1>1, <1>2, <1>3, <1>4, <1>5, <1>6, <1>7, <1>8, <1>9, Acts DEF LoopAct

LEMMA BatchSteps ==
  ASSUME Types, Untouched, [Next]_vars
  PROVE  \/ ProviderResponds /\ pc' = "calls" /\ inflight' = inflight
         \/ Preflight /\ turn' = turn /\ inflight' = inflight
         \/ StartBatch /\ turn' = turn /\ pc' = "await"
         \/ /\ turn' = turn /\ inflight' \subseteq inflight
            /\ pc' = "preflight" => pc = "preflight" /\ cleared' = cleared
<1> USE DEF loop, work
<1>1. CASE ProviderResponds
  BY <1>1 DEF ProviderResponds
<1>2. CASE Preflight
  BY <1>2 DEF Preflight
<1>3. CASE StartBatch
  BY <1>3 DEF StartBatch
<1>4. CASE ProviderFinal \/ ProviderRecovers \/ Collect \/ EndTurn \/ Park
  BY <1>4 DEF ProviderFinal, ProviderRecovers, Collect, EndTurn, Park
<1>5. CASE Invoke
  BY <1>5, InvokePlace DEF Fail
<1>6. CASE \E c \in parking : SaveCheckpoint(c)
  BY <1>6 DEF SaveCheckpoint
<1>7. ASSUME NEW i \in Calls, Launch(i)
      PROVE  /\ turn' = turn /\ inflight' \subseteq inflight
             /\ pc' = "preflight" => pc = "preflight" /\ cleared' = cleared
  BY <1>7, LaunchPlace
<1>8. CASE \E i \in Calls : \E to \in {"finished", "failed"} : FinishTool(i, to)
  BY <1>8 DEF FinishTool
<1>9. CASE \E as \in {"failed", "cancelled"} : Interrupt(as)
  BY <1>9 DEF Interrupt, Fail
<1>10. ASSUME NEW i \in Calls, ReviewAct(i) PROVE UNCHANGED <<turn, loop, work>>
  BY <1>10, Reviewed
<1>11. ASSUME NEW v \in verdicts, Continue(v)
       PROVE  /\ turn' = turn /\ inflight' = inflight
              /\ pc' = "preflight" => pc = "preflight" /\ cleared' = cleared
  BY <1>11, Continued DEF Resume
<1>12. CASE Crash \/ ReviewerCrash \/ UNCHANGED vars
  BY <1>12 DEF Crash, ReviewerCrash, vars
<1> QED
  BY <1>1, <1>2, <1>3, <1>4, <1>5, <1>6, <1>7, <1>8, <1>9, <1>10, <1>11, <1>12, Acts DEF LoopAct

LEMMA BatchStep ==
  ASSUME Types, Untouched, PlaceInv, ApprovalInv, [Next]_vars
  PROVE  Batch'
<1>i. Agree /\ Batch /\ Kept /\ LoopPlace
  BY ApprovalStep DEF ApprovalInv, PlaceInv
<1>k. ASSUME turn' = turn PROVE Launchables \subseteq Launchables'
  <2> SUFFICES ASSUME NEW i \in Asked, Launchable(i) PROVE Launchable(i)'
    BY <1>k DEF Launchables, Asked
  <2> QED
    BY <1>k, <1>i, RulesGrow DEF Launchable, NeedsApproval, Kept
<1>c. DOMAIN cleared = 1 .. Len(cleared)
  BY DEF Types, Shapes
<1>1. CASE ProviderResponds /\ pc' = "calls" /\ inflight' = inflight
  BY <1>1, <1>i DEF ProviderResponds, LoopPlace, Batch
<1>2. CASE Preflight /\ turn' = turn /\ inflight' = inflight
  <2>1. inflight' = {}
    BY <1>2, <1>i DEF Preflight, LoopPlace
  <2>2. ASSUME pc' = "preflight", NEW k \in DOMAIN cleared' PROVE cleared'[k] \in Launchables'
    <3>1. \A m \in DOMAIN cleared : cleared[m] \in Launchables'
      <4>1. pc = "preflight" \/ cleared = << >>
        BY <1>2, <1>i DEF Preflight, LoopPlace
      <4> QED
        BY <4>1, <1>2, <1>i, <1>k DEF Batch
    <3>3. PICK i \in Asked : i = Current
      BY <1>2, PreflightPlace
    <3>4. \/ cleared' = cleared
          \/ /\ cleared' = Append(cleared, i) /\ Safe(turn[i])
             /\ NeedsApproval(i) => approval'[i] = "approved"
      BY <1>2, <1>i, <2>2, <3>3, PreflightAgree
    <3>5. CASE cleared' = cleared
      BY <2>2, <3>1, <3>5
    <3>6. CASE cleared' = Append(cleared, i) /\ Safe(turn[i]) /\ (NeedsApproval(i) => approval'[i] = "approved")
      <4>1. i \in Launchables'
        BY <1>2, <3>6, RulesGrow DEF Launchables, Launchable, NeedsApproval, Asked
      <4>2. cleared'[k] = i \/ (k \in DOMAIN cleared /\ cleared'[k] = cleared[k])
        BY <1>c, <2>2, <3>6 DEF Types, Shapes
      <4> QED
        BY <3>1, <4>1, <4>2
    <3> QED
      BY <3>4, <3>5, <3>6
  <2> QED
    BY <2>1, <2>2 DEF Batch
<1>3. CASE StartBatch /\ turn' = turn /\ pc' = "await"
  <2>1. pc = "preflight" /\ inflight' = inflight \cup {cleared[k] : k \in 1 .. Len(cleared)}
    BY <1>3 DEF StartBatch
  <2>2. inflight' \subseteq Launchables
    BY <2>1, <1>i, <1>c DEF Batch
  <2> QED
    BY <1>3, <2>2, <1>k DEF Batch
<1>4. CASE /\ turn' = turn /\ inflight' \subseteq inflight
           /\ pc' = "preflight" => pc = "preflight" /\ cleared' = cleared
  BY <1>4, <1>i, <1>k DEF Batch
<1> QED
  BY <1>1, <1>2, <1>3, <1>4, BatchSteps

LEMMA RejectionStep ==
  ASSUME Types, Untouched, PlaceInv, ApprovalInv, [Next]_vars
  PROVE  Rejections'
<1>i. Rejections /\ Kept
  BY ApprovalStep DEF ApprovalInv
<1>v. \A v \in verdicts : v.call \in Calls
  BY DEF Types, Rows
<1>k. \A v \in verdicts : v.by = "reject" => approval'[v.call] \in {"denied", "timed_out"}
  <2> SUFFICES ASSUME NEW v \in verdicts, v.by = "reject"
               PROVE  approval'[v.call] \in {"denied", "timed_out"}
    OBVIOUS
  <2>1. approval[v.call] \in {"denied", "timed_out"}
    BY <1>i DEF Rejections
  <2>2. v.call \in Asked
    BY <1>v, <2>1 DEF Untouched
  <2> QED
    BY <1>i, <2>1, <2>2 DEF Kept
<1>1. verdicts' \subseteq verdicts => Rejections'
  BY <1>k DEF Rejections
<1>2. CASE LoopAct
  <2>1. verdicts' = verdicts
    BY <1>2 DEF LoopAct, ProviderResponds, ProviderFinal, ProviderRecovers, Preflight, StartBatch, Invoke,
       Collect, EndTurn, Park, SaveCheckpoint, Launch, FinishTool, Interrupt
  <2> QED
    BY <1>1, <2>1
<1>3. ASSUME NEW i \in Calls, ReviewAct(i) PROVE Rejections'
  <2>1. CASE \E as \in {"denied", "timed_out"} : Reject(i, as)
    <3>1. PICK as \in {"denied", "timed_out"} : Reject(i, as)
      BY <2>1
    <3>2. /\ approval' = [approval EXCEPT ![i] = as]
          /\ verdicts' = verdicts \cup {[call |-> i, by |-> "reject"]}
      BY <3>1 DEF Reject
    <3>3. approval'[i] = as
      BY <3>2 DEF Types, Rows
    <3>4. [call |-> i, by |-> "reject"].call = i
      OBVIOUS
    <3> QED
      BY <1>k, <3>1, <3>2, <3>3, <3>4 DEF Rejections
  <2>2. CASE ~ \E as \in {"denied", "timed_out"} : Reject(i, as)
    <3>1. \/ verdicts' = verdicts
          \/ verdicts' = verdicts \cup {[call |-> i, by |-> "allow"]}
      BY <1>3, <2>2 DEF ReviewAct, Allow, Answer, Cancel, ExpirePrompt
    <3>2. [call |-> i, by |-> "allow"].by = "allow"
      OBVIOUS
    <3> QED
      BY <1>k, <3>1, <3>2 DEF Rejections
  <2> QED
    BY <2>1, <2>2
<1>4. CASE (\E v \in verdicts : Continue(v)) \/ Crash \/ ReviewerCrash \/ UNCHANGED vars
  <2>1. verdicts' \subseteq verdicts
    BY <1>4 DEF Continue, Crash, ReviewerCrash, vars
  <2> QED
    BY <1>1, <2>1
<1> QED
  BY <1>2, <1>3, <1>4, Acts

LEMMA ApprovalInit == Init => ApprovalInv
<1> SUFFICES ASSUME Init PROVE ApprovalInv
  OBVIOUS
<1>1. Asked = {} /\ turn = << >>
  BY DEF Init, Asked
<1>2. Agree /\ AtMostOne /\ Opened = {}
  BY <1>1 DEF Agree, AtMostOne, Opened
<1>3. Batch /\ Rejections
  BY DEF Init, Batch, Rejections
<1>4. ListsOrdered
  BY OrderShort DEF Init, ListsOrdered
<1> QED
  BY <1>2, <1>3, <1>4 DEF ApprovalInv

LEMMA ApprovalsHold == Spec => []ApprovalInv
<1>1. Types /\ Untouched /\ PlaceInv /\ ApprovalInv /\ [Next]_vars => ApprovalInv'
  <2> SUFFICES ASSUME Types, Untouched, PlaceInv, ApprovalInv, [Next]_vars PROVE ApprovalInv'
    OBVIOUS
  <2> QED
    BY ApprovalStep, BatchStep, RejectionStep DEF ApprovalInv
<1> QED
  BY <1>1, ApprovalInit, TypesHold, PlaceHolds, PTL DEF Spec

\* A tool that needs a reviewer has run only if its own approval was granted or
\* a rule of wider scope covers its kind, and never if it was rejected: although
\* a rule added later lets a call pass whatever became of its own approval
\* (ToolOrchestrator.execute), no other approval is open at that time, because
\* the calls ask in the order of the turn and a checkpoint keeps that order.
THEOREM GateIsKept == Spec => []GateHolds
<1>1. Types /\ Untouched /\ PlaceInv /\ ApprovalInv => GateHolds
  <2> SUFFICES ASSUME Types, PlaceInv, ApprovalInv,
                      NEW i \in Asked, execs[i] > 0, Gated(turn[i])
               PROVE  \/ approval[i] = "approved"
                      \/ approval[i] = "none" /\ turn[i] \in ruled
    BY DEF GateHolds, Asked
  <2>1. execs[i] = 1
    BY DEF PlaceInv, Once
  <2> QED
    BY <2>1 DEF ApprovalInv, Agree, Granted
<1> QED
  BY <1>1, TypesHold, PlaceHolds, ApprovalsHold, PTL

\* A call that is cleared or launched parks no more.
LEMMA LaunchParksNot ==
  ASSUME Rows, NEW i \in Asked, Launchable(i), NEW o \in Outcomes(i)
  PROVE  o.verdict # "park"
<1>2. turn[i] # "ask"
  BY DEF Launchable, Safe
<1>3. CASE row[i] \in {"failed", "finished"}
  BY <1>3, OutcomeIs
<1>4. CASE row[i] \notin {"failed", "finished"}
  <2>1. PICK v, to : /\ Way(i, v, to, o.approval, o.prompt)
                     /\ o.verdict \in {v, "throw"}
    BY <1>4, OutcomeIs
  <2>2. CASE NeedsApproval(i) /\ o.approval \in Read(approval[i]) /\ AtGate(v, to, o.approval, Entered(i))
    <3>1. o.approval # "pending"
      BY <2>2, ReadIs DEF Launchable
    <3>2. v # "park"
      BY <2>2, <3>1 DEF AtGate
    <3> QED
      BY <2>1, <3>2
  <2>3. CASE v \in {"done", "clear"}
    BY <2>1, <2>3
  <2> QED
    BY <1>2, <2>1, <2>2, <2>3 DEF Way
<1> QED
  BY <1>3, <1>4

\* Types; and a call the preflight has cleared needs no reviewer when it is
\* launched, so that a batch never parks half-way (executeParallelToolBatch).
THEOREM TypesCorrect == Spec => []TypeOK
<1>1. Types /\ Untouched /\ PlaceInv /\ ApprovalInv => TypeOK
  <2> SUFFICES ASSUME Types, PlaceInv, ApprovalInv PROVE TypeOK
    OBVIOUS
  <2>1. Asked \subseteq Calls /\ Len(turn) \in Nat /\ Len(turn) <= MaxCalls /\ MaxCalls \in Nat
    BY AskedCalls, CallsAssumption DEF Types, Rows
  <2>2. Seq(Asked) \subseteq Seq(Calls) /\ Lists(Len(turn)) \subseteq Seq(Calls)
    <3>1. \A s \in Seq(Asked) : s \in Seq(Calls)
      BY <2>1
    <3> QED
      BY <3>1 DEF Lists, Asked
  <2>3. Saved(Len(turn)) \subseteq Checkpoint
    BY <2>2 DEF Saved, Checkpoint, Asked
  <2>4. pending \in Seq(Calls) /\ pos \in 1 .. MaxCalls + 1
    <3>1. Len(pending) \in Nat /\ Len(pending) <= Len(turn) /\ pos \in 1 .. Len(pending) + 1
      BY DEF Types, Shapes, Lists
    <3> QED
      BY <2>1, <2>2, <3>1 DEF Types, Shapes
  <2>5. ASSUME NEW i \in inflight, NEW o \in Outcomes(i) PROVE o.verdict # "park"
    <3>1. i \in Asked /\ Launchable(i) /\ Rows
      BY DEF ApprovalInv, Batch, Launchables, Types
    <3> QED
      BY <3>1, LaunchParksNot
  <2>6. /\ cleared \in Seq(Calls) /\ results \in Seq(Calls) /\ inflight \subseteq Calls /\ executing \subseteq Calls
        /\ checkpoint \in Checkpoint \cup {NoCheckpoint} /\ parking \subseteq Checkpoint
    BY <2>1, <2>2, <2>3 DEF Types, Shapes
  <2> QED
    BY <2>4, <2>5, <2>6 DEF TypeOK, Types, Rows, Shapes
<1> QED
  BY <1>1, TypesHold, PlaceHolds, ApprovalsHold, PTL

-----------------------------------------------------------------------------
(* One process: what waits, what is reported and what a rejection stops     *)

\* One process works on the task, it stays up, and records are decided once.
OneProcess == Env \cap {"remote", "crash", "again"} = {}

\* The calls that have run or are about to, those other than questions that are
\* over, those whose approval was rejected, and those a reviewer is asked about.
Begun     == {j \in Asked : execs[j] = 1} \cup inflight \cup {cleared[k] : k \in DOMAIN cleared}
Over      == {j \in Asked : turn[j] # "ask" /\ row[j] \in CallEnded}
Rejected  == {j \in Asked : approval[j] \in {"denied", "timed_out"}}
Undecided == {j \in Asked : approval[j] = "pending" \/ prompt[j] = "pending"}

\* A reviewer can still decide about the call.
Asking(i) == IF turn[i] = "ask" THEN prompt[i] = "pending" /\ row[i] = "started" ELSE approval[i] = "pending"

Members(s)  == {s[k] : k \in DOMAIN s}
Distinct(s) == \A k, m \in DOMAIN s : s[k] = s[m] => k = m

\* The calls of s from its a-th on come after those of B and are not in E.
Ahead(s, a, B, E) == \A k \in DOMAIN s : k >= a => s[k] \notin E /\ \A j \in B : j < s[k]

\* The row of a question that was not put yet.
AskRows ==
  \A i \in Asked : turn[i] = "ask" /\ prompt[i] = "none" => row[i] \in {"none", "requested", "failed"}

\* While the loop works: what is pending is ahead of what has run; after a
\* rejection only the rejected call is left; the results are those of the calls
\* that are over, but for those of the batch the loop awaits; and nobody is asked
\* about any call but the one the loop parks at.
Works ==
  /\ Ahead(pending, pos, Begun, Over)
  /\ \A i \in Rejected : \A k \in DOMAIN pending : k >= pos => pending[k] = i
  /\ Distinct(results) /\ Members(results) \subseteq Over
  /\ Over \subseteq Members(results) \cup (IF pc = "await" THEN Members(cleared) ELSE {})
  /\ pc = "await" => /\ Distinct(cleared) /\ Members(cleared) \cap Members(results) = {}
                     /\ Members(cleared) \subseteq inflight \cup executing \cup Over
  /\ pc = "preflight" => Distinct(cleared) /\ Members(cleared) \cap Over = {}
  /\ Undecided = IF pc = "park" THEN {pending[pos]} ELSE {}
  /\ pc = "park" => Asking(pending[pos])

\* While the task waits with checkpoint c: its first call is the one a reviewer
\* is asked about, or has just decided.
Waits(c) ==
  /\ c # NoCheckpoint /\ c.pending # << >>
  /\ parking = {c} \/ (parking = {} /\ checkpoint = c)
  /\ Ahead(c.pending, 1, Begun, Over) /\ Distinct(c.results) /\ Members(c.results) = Over
  /\ LET i == c.pending[1] IN
     \/ /\ verdicts = {} /\ Undecided = {i} /\ Rejected = {} /\ Asking(i)
        /\ status = "waiting_clarification" <=> turn[i] = "ask"
     \/ /\ verdicts = {[call |-> i, by |-> "allow"]} /\ parking = {}
        /\ Undecided = {} /\ Rejected = {}
     \/ /\ verdicts = {[call |-> i, by |-> "reject"]} /\ parking = {}
        /\ Undecided = {} /\ Rejected = {i} /\ status = "waiting_approval"

\* What has run comes before what was rejected.
RejectedLast == \A i \in Rejected : \A j \in Begun : j <= i

\* The task waits, or the loop works, or the task is over.
Placed ==
  /\ status \in Waiting => \E c \in parking \cup {checkpoint} : Waits(c)
  /\ status \notin Waiting =>
       /\ parking = {} /\ verdicts = {}
       /\ pc # "off" => Works
       /\ pc = "off" => Undecided = {}

LocalInv == AskRows /\ RejectedLast /\ Placed

\* Members of lists that grow.
LEMMA Grown ==
  ASSUME NEW S, NEW s \in Seq(S), NEW e \in S
  PROVE  /\ Members(Append(s, e)) = Members(s) \cup {e}
         /\ Distinct(s) /\ e \notin Members(s) => Distinct(Append(s, e))
<1> DEFINE t == Append(s, e)
<1>1. /\ Len(s) \in Nat /\ DOMAIN s = 1 .. Len(s) /\ DOMAIN t = 1 .. Len(s) + 1
      /\ t[Len(s) + 1] = e /\ \A k \in 1 .. Len(s) : t[k] = s[k]
  OBVIOUS
<1> HIDE DEF t
<1>2. \A k \in DOMAIN t : k = Len(s) + 1 \/ k \in DOMAIN s
  BY <1>1
<1>3. Len(s) + 1 \in DOMAIN t /\ \A k \in DOMAIN s : k \in DOMAIN t /\ t[k] = s[k]
  BY <1>1
<1>4. Members(t) = Members(s) \cup {e}
  BY <1>1, <1>2, <1>3 DEF Members
<1>5. Distinct(s) /\ e \notin Members(s) => Distinct(t)
  BY <1>1, <1>2, <1>3 DEF Members, Distinct
<1> QED
  BY <1>4, <1>5 DEF t

LEMMA Joined ==
  ASSUME NEW S, NEW s \in Seq(S), NEW t \in Seq(S)
  PROVE  /\ Members(s \o t) = Members(s) \cup Members(t)
         /\ Distinct(s) /\ Distinct(t) /\ Members(s) \cap Members(t) = {} => Distinct(s \o t)
<1> DEFINE u == s \o t
<1>1. /\ Len(s) \in Nat /\ Len(t) \in Nat /\ DOMAIN s = 1 .. Len(s) /\ DOMAIN t = 1 .. Len(t)
      /\ DOMAIN u = 1 .. Len(s) + Len(t)
      /\ \A k \in 1 .. Len(s) : u[k] = s[k]
      /\ \A k \in Len(s) + 1 .. Len(s) + Len(t) : u[k] = t[k - Len(s)]
  OBVIOUS
<1> HIDE DEF u
<1>2. ASSUME NEW k \in DOMAIN u
      PROVE  \/ k \in DOMAIN s /\ u[k] = s[k]
             \/ \E b \in DOMAIN t : b = k - Len(s) /\ u[k] = t[b]
  <2>1. CASE k \in 1 .. Len(s)
    BY <1>1, <2>1
  <2>2. CASE k \in Len(s) + 1 .. Len(s) + Len(t)
    <3>1. PICK b \in 1 .. Len(t) : b = k - Len(s)
      BY <1>1, <2>2
    <3>2. u[k] = t[k - Len(s)]
      BY <1>1, <2>2
    <3> QED
      BY <1>1, <3>1, <3>2
  <2> QED
    BY <1>1, <2>1, <2>2
<1>3. \A k \in DOMAIN s : k \in DOMAIN u /\ u[k] = s[k]
  BY <1>1
<1>4. \A k \in DOMAIN t : \E m \in DOMAIN u : u[m] = t[k]
  <2> SUFFICES ASSUME NEW k \in DOMAIN t PROVE \E m \in DOMAIN u : u[m] = t[k]
    OBVIOUS
  <2>1. PICK m \in Len(s) + 1 .. Len(s) + Len(t) : m - Len(s) = k
    <3>1. k + Len(s) \in Len(s) + 1 .. Len(s) + Len(t) /\ (k + Len(s)) - Len(s) = k
      BY <1>1
    <3> QED
      BY <3>1
  <2>2. u[m] = t[m - Len(s)] /\ m \in DOMAIN u
    BY <1>1
  <2> QED
    BY <2>1, <2>2
<1>5. Members(u) = Members(s) \cup Members(t)
  <2>1. \A x \in Members(u) : x \in Members(s) \cup Members(t)
    BY <1>2 DEF Members
  <2>2. \A x \in Members(s) \cup Members(t) : x \in Members(u)
    BY <1>3, <1>4 DEF Members
  <2> QED
    BY <2>1, <2>2
<1>6. ASSUME Distinct(s), Distinct(t), Members(s) \cap Members(t) = {} PROVE Distinct(u)
  <2> SUFFICES ASSUME NEW k \in DOMAIN u, NEW m \in DOMAIN u, u[k] = u[m] PROVE k = m
    BY DEF Distinct
  <2>1. CASE k \in DOMAIN s /\ u[k] = s[k] /\ m \in DOMAIN s /\ u[m] = s[m]
    BY <1>6, <2>1 DEF Distinct
  <2>2. ASSUME NEW b \in DOMAIN t, b = k - Len(s), u[k] = t[b],
               NEW d \in DOMAIN t, d = m - Len(s), u[m] = t[d]
        PROVE  k = m
    <3>1. b = d
      BY <1>6, <2>2 DEF Distinct
    <3>2. k \in Int /\ m \in Int /\ Len(s) \in Int
      BY <1>1
    <3>3. k - Len(s) = m - Len(s)
      BY <3>1, <2>2
    <3> QED
      BY <3>2, <3>3
  <2>3. \A a \in DOMAIN s, b \in DOMAIN t : s[a] # t[b]
    BY <1>6 DEF Members
  <2> QED
    BY <1>2, <2>1, <2>2, <2>3
<1> QED
  BY <1>5, <1>6 DEF u

\* What an outcome is to a call nobody is asked about.
LEMMA SettledOutcome ==
  ASSUME Types, Once, Agree, AskRows, NEW i \in Asked, i \notin Undecided,
         row[i] = "started" => turn[i] = "ask", NEW o \in Outcomes(i)
  PROVE  /\ o.verdict = "park" =>
              /\ i \notin Rejected
              /\ IF turn[i] = "ask" THEN o.prompt = "pending" /\ o.row = "started" ELSE o.approval = "pending"
              /\ turn[i] = "ask" \/ i \notin Over => ~(turn[i] # "ask" /\ o.row \in CallEnded)
         /\ o.verdict # "park" => o.approval # "pending" /\ o.prompt # "pending"
         /\ o.approval \in {"denied", "timed_out"} <=> approval[i] \in {"denied", "timed_out"}
         /\ o.verdict = "done" => o.row \in CallEnded
         /\ o.verdict = "clear" => turn[i] # "ask" /\ i \notin Rejected /\ (i \notin Over => o.row \notin CallEnded)
         /\ Startable(o) => i \notin Over
         /\ turn[i] = "ask" /\ o.prompt = "none" => o.row \in {"none", "requested", "failed"}
<1>r. Rows
  BY DEF Types
<1>0. /\ Entered(i) = (IF row[i] = "none" THEN "requested" ELSE row[i])
      /\ row[i] \in CallStatus \cup {"none"} /\ approval[i] \in Approval /\ Entered(i) \in CallStatus
      /\ prompt[i] \in Prompt /\ o.row \in CallStatus
  BY <1>r, AskedCalls, OutcomeTypes
<1>p. approval[i] # "pending" /\ prompt[i] # "pending"
  BY DEF Undecided
<1>e. /\ CallEnded = {"denied", "timed_out", "finished", "failed"} /\ "started" \in CallStatus
      /\ (i \in Over <=> turn[i] # "ask" /\ row[i] \in CallEnded)
      /\ (i \in Rejected <=> approval[i] \in {"denied", "timed_out"})
  BY DEF CallEnded, CallStatus, Over, Rejected
<1>1. CASE row[i] \in {"failed", "finished"}
  <2>1. /\ o.verdict \in {"throw", "done"} /\ o.row = row[i] /\ o.approval = approval[i] /\ o.prompt = prompt[i]
    BY <1>1, <1>r, OutcomeIs
  <2> QED
    BY <2>1, <1>1, <1>p, <1>e DEF Startable, AskRows
<1>2. CASE row[i] \notin {"failed", "finished"}
  <2>1. PICK v, to : /\ to \in CallStatus /\ Way(i, v, to, o.approval, o.prompt)
                     /\ \/ /\ o.verdict = v /\ o.row = to
                           /\ \/ CanMoveCall(Entered(i), to)
                              \/ Entered(i) = "requested" /\ (to = "approved" \/ turn[i] = "ask")
                        \/ /\ o.verdict = "throw" /\ o.row = Entered(i)
                           /\ ~CanMoveCall(Entered(i), to)
                           /\ ~(Entered(i) = "requested" /\ to = "approved")
    BY <1>2, <1>r, OutcomeIs
  <2>m. CanMoveCall(Entered(i), to) <=>
          \/ Entered(i) = to
          \/ Entered(i) = "requested" /\ to \in {"awaiting_approval", "started", "failed"}
          \/ Entered(i) = "awaiting_approval" /\ to \in {"approved", "denied", "timed_out"}
          \/ Entered(i) = "approved" /\ to \in {"started", "denied", "timed_out"}
          \/ Entered(i) = "started" /\ to \in {"finished", "failed", "timed_out"}
    BY <1>0, <2>1, Moves
  <2>s. CanMoveCall(o.row, "started") => o.row \in {"started", "requested", "approved"}
    BY <1>0, <1>e, Moves
  <2>2. CASE v = "done" /\ to = "failed" /\ o.approval = approval[i] /\ o.prompt = prompt[i]
    BY <1>0, <1>2, <1>p, <1>e, <2>1, <2>2 DEF Startable, AskRows
  <2>3. CASE /\ turn[i] = "ask"
             /\ o.approval = approval[i] /\ o.prompt \in Read(prompt[i]) /\ AtQuestion(v, to, o.prompt)
    <3>1. \/ prompt[i] = "none" /\ o.prompt = "pending"
          \/ prompt[i] \notin {"none", "pending"} /\ o.prompt = prompt[i]
      BY <1>p, <2>3, ReadIs
    <3>2. CASE prompt[i] = "none" /\ o.prompt = "pending"
      <4>1. v = "park" /\ to = "started" /\ row[i] \in {"none", "requested"} /\ approval[i] = "none"
        BY <1>2, <2>3, <3>2 DEF AtQuestion, AskRows, Agree, Gated
      <4>2. o.verdict = "park" /\ o.row = "started"
        BY <1>0, <2>1, <2>m, <4>1
      <4> QED
        BY <1>e, <2>3, <3>2, <4>1, <4>2 DEF Startable
    <3>3. CASE prompt[i] \notin {"none", "pending"} /\ o.prompt = prompt[i]
      <4>1. v = "done" /\ to \in CallEnded
        BY <1>0, <1>e, <2>3, <3>3 DEF AtQuestion
      <4> QED
        BY <1>e, <1>p, <2>1, <2>3, <3>3, <4>1 DEF Startable
    <3> QED
      BY <3>1, <3>2, <3>3
  <2>4. CASE /\ turn[i] # "ask" /\ NeedsApproval(i)
             /\ o.prompt = prompt[i] /\ o.approval \in Read(approval[i])
             /\ AtGate(v, to, o.approval, Entered(i))
    <3>0. Legal(row[i], approval[i], turn[i] \in ruled) /\ turn[i] \notin ruled
      BY <2>4 DEF Agree, NeedsApproval
    <3>1. \/ approval[i] = "none" /\ o.approval = "pending"
          \/ approval[i] \notin {"none", "pending"} /\ o.approval = approval[i]
      BY <1>p, <2>4, ReadIs
    <3>2. CASE approval[i] = "none" /\ o.approval = "pending"
      <4>1. v = "park" /\ to = "awaiting_approval" /\ row[i] \in {"none", "requested"}
        BY <1>0, <1>2, <2>4, <3>0, <3>2 DEF AtGate, Legal
      <4>2. o.verdict = "park" /\ o.row = "awaiting_approval"
        BY <1>0, <2>1, <2>m, <4>1
      <4> QED
        BY <1>e, <2>4, <3>2, <4>1, <4>2 DEF Startable
    <3>3. CASE approval[i] = "approved" /\ o.approval = "approved"
      <4>1. v = "clear" /\ to = "approved" /\ row[i] \in {"awaiting_approval", "approved", "started"}
        BY <1>0, <1>2, <2>4, <3>0, <3>3 DEF AtGate, Legal
      <4> QED
        BY <1>0, <1>p, <1>e, <2>1, <2>4, <3>3, <4>1 DEF Startable
    <3>4. CASE approval[i] \in {"denied", "timed_out"} /\ o.approval = approval[i]
      <4>1. v = "done" /\ to \in CallEnded
        BY <1>e, <2>4, <3>4 DEF AtGate
      <4> QED
        BY <1>p, <1>e, <2>1, <2>4, <3>4, <4>1 DEF Startable
    <3> QED
      BY <1>0, <3>1, <3>2, <3>3, <3>4 DEF Approval
  <2>5. CASE /\ turn[i] # "ask" /\ ~NeedsApproval(i)
             /\ o.approval = approval[i] /\ o.prompt = prompt[i]
             /\ v = "clear" /\ to = (IF Gated(turn[i]) THEN "approved" ELSE Entered(i))
    <3>1. CASE Gated(turn[i])
      <4>1. Legal(row[i], approval[i], TRUE) /\ to = "approved"
        BY <2>5, <3>1 DEF Agree, NeedsApproval
      <4>2. CASE o.verdict = "clear" /\ o.row = "approved"
        <5>1. row[i] \in {"none", "requested", "awaiting_approval", "approved"}
          BY <1>0, <2>1, <2>m, <4>1, <4>2
        <5>2. approval[i] \notin {"denied", "timed_out"}
          BY <4>1, <5>1 DEF Legal
        <5> QED
          BY <1>p, <1>e, <2>5, <4>2, <5>1, <5>2 DEF Startable
      <4>3. CASE o.verdict = "throw"
        BY <1>p, <1>e, <2>5, <4>3 DEF Startable
      <4> QED
        BY <2>1, <2>5, <4>1, <4>2, <4>3
    <3>2. CASE ~Gated(turn[i])
      <4>1. approval[i] = "none" /\ to = Entered(i)
        BY <2>5, <3>2 DEF Agree
      <4>2. o.row = Entered(i) /\ o.verdict = "clear"
        BY <2>1, <2>m, <2>5, <4>1
      <4> QED
        BY <1>0, <1>p, <1>e, <2>5, <2>s, <4>1, <4>2 DEF Startable
    <3> QED
      BY <3>1, <3>2
  <2> QED
    BY <2>1, <2>2, <2>3, <2>4, <2>5 DEF Way
<1> QED
  BY <1>1, <1>2

\* A list that is ahead of some calls is ahead of fewer ...
LEMMA AheadLess ==
  ASSUME NEW s, NEW a, NEW B, NEW E, NEW C \in SUBSET B, NEW F \in SUBSET E, Ahead(s, a, B, E)
  PROVE  Ahead(s, a, C, F)
BY DEF Ahead

\* ... and from its next call on also of the call before.
LEMMA AheadNext ==
  ASSUME NEW s, DOMAIN s \subseteq Int, \A k \in DOMAIN s : s[k] \in Int, Increasing(s), NEW a \in DOMAIN s,
         NEW B, NEW E, Ahead(s, a, B, E), NEW C \in SUBSET (B \cup {s[a]}), NEW F \in SUBSET (E \cup {s[a]})
  PROVE  s[a] \notin B /\ s[a] \notin E /\ Ahead(s, a + 1, C, F)
<1>1. s[a] \notin B /\ s[a] \notin E
  BY DEF Ahead
<1>2. ASSUME NEW k \in DOMAIN s, k >= a + 1 PROVE s[k] \notin F /\ \A j \in C : j < s[k]
  <2>1. a < k /\ k >= a
    BY <1>2
  <2>2. s[a] < s[k] /\ s[a] \in Int /\ s[k] \in Int
    BY <2>1 DEF Increasing
  <2>3. s[k] \notin E /\ \A j \in B : j < s[k]
    BY <2>1 DEF Ahead
  <2> QED
    BY <2>2, <2>3
<1> QED
  BY <1>1, <1>2 DEF Ahead

\* Storing the outcome of a call while nobody is asked about any.
LEMMA StoreLocal ==
  ASSUME Types, Once, Agree, AskRows, NEW i \in Asked, Undecided = {},
         row[i] = "started" => turn[i] = "ask", NEW o \in Outcomes(i), Store(i, o), turn' = turn
  PROVE  /\ AskRows' /\ Rejected' = Rejected
         /\ Undecided' = IF o.verdict = "park" THEN {i} ELSE {}
         /\ o.verdict = "park" => Asking(i)' /\ i \notin Rejected
         /\ o.verdict = "done" => Over' = IF turn[i] = "ask" THEN Over ELSE Over \cup {i}
         /\ o.verdict \in {"clear", "park"} /\ i \notin Over => Over' = Over
         /\ o.verdict = "clear" => i \notin Rejected
<1>1. /\ o.verdict = "park" =>
           /\ i \notin Rejected
           /\ IF turn[i] = "ask" THEN o.prompt = "pending" /\ o.row = "started" ELSE o.approval = "pending"
           /\ turn[i] = "ask" \/ i \notin Over => ~(turn[i] # "ask" /\ o.row \in CallEnded)
      /\ o.verdict # "park" => o.approval # "pending" /\ o.prompt # "pending"
      /\ o.approval \in {"denied", "timed_out"} <=> approval[i] \in {"denied", "timed_out"}
      /\ o.verdict = "done" => o.row \in CallEnded
      /\ o.verdict = "clear" => turn[i] # "ask" /\ i \notin Rejected /\ (i \notin Over => o.row \notin CallEnded)
      /\ turn[i] = "ask" /\ o.prompt = "none" => o.row \in {"none", "requested", "failed"}
  BY SettledOutcome
<1>2. /\ row'[i] = o.row /\ approval'[i] = o.approval /\ prompt'[i] = o.prompt /\ Asked' = Asked
      /\ \A j \in Asked \ {i} : row'[j] = row[j] /\ approval'[j] = approval[j] /\ prompt'[j] = prompt[j]
  BY StoreTypes, AskedCalls DEF Types, Asked
<1>3. AskRows'
  BY <1>1, <1>2 DEF AskRows
<1>4. Rejected' = Rejected
  BY <1>1, <1>2 DEF Rejected
<1>5. \A j \in Asked : approval[j] # "pending" /\ prompt[j] # "pending"
  BY DEF Undecided
<1>6. Undecided' = IF o.verdict = "park" THEN {i} ELSE {}
  <2>1. \A j \in Asked \ {i} : approval'[j] # "pending" /\ prompt'[j] # "pending"
    BY <1>2, <1>5
  <2>2. o.verdict = "park" <=> approval'[i] = "pending" \/ prompt'[i] = "pending"
    BY <1>1, <1>2
  <2> QED
    BY <1>2, <2>1, <2>2 DEF Undecided
<1>7. o.verdict = "park" => Asking(i)' /\ i \notin Rejected
  BY <1>1, <1>2 DEF Asking
<1>8. \A j \in Asked \ {i} : j \in Over' <=> j \in Over
  BY <1>2 DEF Over
<1>9. i \in Over' <=> turn[i] # "ask" /\ o.row \in CallEnded
  BY <1>2 DEF Over
<1>10. Over' \subseteq Asked /\ Over \subseteq Asked /\ (turn[i] = "ask" => i \notin Over)
  BY <1>2 DEF Over
<1>11. o.verdict = "done" => Over' = IF turn[i] = "ask" THEN Over ELSE Over \cup {i}
  BY <1>1, <1>8, <1>9, <1>10
<1>12. o.verdict \in {"clear", "park"} /\ i \notin Over => Over' = Over
  BY <1>1, <1>8, <1>9, <1>10
<1> QED
  BY <1>1, <1>3, <1>4, <1>6, <1>7, <1>11, <1>12

\* Entering a tool at such a time.
LEMMA StartLocal ==
  ASSUME Types, Once, Agree, AskRows, NEW i \in Asked, Undecided = {},
         row[i] = "started" => turn[i] = "ask", NEW o \in Outcomes(i), Startable(o), StartTool(i),
         UNCHANGED <<turn, approval, prompt>>
  PROVE  AskRows' /\ Rejected' = Rejected /\ Undecided' = {} /\ Over' = Over /\ i \notin Over /\ i \notin Rejected
<1>1. i \notin Over /\ (o.verdict = "clear" => turn[i] # "ask" /\ i \notin Rejected)
  BY SettledOutcome
<1>2. turn[i] # "ask" /\ i \notin Rejected
  BY <1>1 DEF Startable
<1>3. row'[i] = "started" /\ Asked' = Asked /\ \A j \in Asked \ {i} : row'[j] = row[j]
  BY StartTypes, AskedCalls DEF Types, Asked
<1>4. AskRows'
  BY <1>2, <1>3 DEF AskRows
<1>5. Rejected' = Rejected /\ Undecided' = {}
  BY <1>3 DEF Rejected, Undecided
<1>6. Over' = Over
  <2>1. "started" \notin CallEnded
    BY DEF CallEnded
  <2> QED
    BY <1>1, <1>3, <2>1 DEF Over
<1> QED
  BY <1>1, <1>2, <1>4, <1>5, <1>6

\* A loop that is somewhere works on a task that does not wait.
LEMMA WorksNow ==
  ASSUME LoopPlace, Placed, pc # "off"
  PROVE  status \notin Waiting /\ parking = {} /\ verdicts = {} /\ Works
BY DEF LoopPlace, Placed, Waiting

\* What a step to a loop that works, or to no loop at all, has to keep.
LEMMA PlacedNext ==
  ASSUME status' \notin Waiting, parking' = {}, verdicts' = {},
         \/ pc' # "off" /\ Works'
         \/ pc' = "off" /\ Undecided' = {}
  PROVE  Placed'
BY DEF Placed

\* Steps that leave the records and the calls that have begun.
LEMMA LastKept ==
  ASSUME RejectedLast, Rejected' \subseteq Rejected, Begun' \subseteq Begun
  PROVE  RejectedLast'
BY DEF RejectedLast

\* All that is known so far.
LocalNow == Types /\ Untouched /\ PlaceInv /\ ApprovalInv /\ LocalInv

\* The call at hand, and what is pending after it.
LEMMA AtCurrent ==
  ASSUME LocalNow, pos \in DOMAIN pending, Works
  PROVE  /\ Current \notin Begun /\ Current \notin Over
         /\ \A C \in SUBSET (Begun \cup {Current}), F \in SUBSET (Over \cup {Current}) : Ahead(pending, pos + 1, C, F)
         /\ \A i \in Rejected : i = Current
         /\ \A i \in Rejected : \A k \in DOMAIN pending : k >= pos + 1 => pending[k] = i
         /\ Current \in Asked
<1>1. DOMAIN pending \subseteq Int /\ pos \in Int /\ \A k \in DOMAIN pending : pending[k] \in Int
  BY DEF LocalNow, Types, Shapes, Lists
<1>2. Increasing(pending) /\ Ahead(pending, pos, Begun, Over)
  BY DEF LocalNow, ApprovalInv, ListsOrdered, Ordered, Works
<1>3. Current = pending[pos]
  BY DEF Current
<1>4. pending[pos] \notin Begun /\ pending[pos] \notin Over
  BY <1>1, <1>2, AheadNext
<1>5. \A C \in SUBSET (Begun \cup {pending[pos]}), F \in SUBSET (Over \cup {pending[pos]}) : Ahead(pending, pos + 1, C, F)
  BY <1>1, <1>2, AheadNext
<1>6. \A k \in DOMAIN pending : k >= pos + 1 => k >= pos
  BY <1>1
<1>7. \A i \in Rejected : \A k \in DOMAIN pending : k >= pos + 1 => pending[k] = i
  BY <1>6 DEF Works
<1>8. \A i \in Rejected : i = Current
  BY <1>1, <1>3 DEF Works
<1> QED
  BY <1>3, <1>4, <1>5, <1>7, <1>8, CurrentAsked DEF LocalNow

\* One step of the batch's preflight.
LEMMA PreflightLocal == ASSUME LocalNow, Preflight PROVE LocalInv'
<1>1. /\ pos \in DOMAIN pending /\ Current \in Asked /\ pc \in {"calls", "preflight"} /\ turn[Current] # "ask"
      /\ UNCHANGED <<turn, pending, execs, inflight, executing, parking, verdicts>>
  BY PreflightPlace DEF LocalNow, Preflight, Safe
<1>2. PICK o \in Outcomes(Current) :
        /\ Store(Current, o)
        /\ \/ /\ o.verdict = "throw"
              /\ Fail("failed")
           \/ /\ o.verdict = "park" /\ pc' = "park"
              /\ UNCHANGED <<status, checkpoint, pos, cleared, results>>
           \/ /\ o.verdict = "clear" /\ pc' = "preflight" /\ pos' = pos + 1
              /\ cleared' = Append(cleared, Current) /\ results' = results
              /\ UNCHANGED <<status, checkpoint>>
           \/ /\ o.verdict = "done" /\ pc' = "preflight" /\ pos' = pos + 1
              /\ cleared' = cleared /\ results' = Append(results, Current)
              /\ UNCHANGED <<status, checkpoint>>
  BY PreflightPlace DEF LocalNow
<1>3. status \notin Waiting /\ parking = {} /\ verdicts = {} /\ Works /\ Undecided = {}
  BY <1>1, WorksNow DEF LocalNow, PlaceInv, LocalInv, Works
<1>4. /\ AskRows' /\ Rejected' = Rejected
      /\ Undecided' = (IF o.verdict = "park" THEN {Current} ELSE {})
      /\ o.verdict = "park" => (\A i \in {Current} : Asking(i)')
      /\ o.verdict = "done" => Over' = Over \cup {Current}
      /\ o.verdict \in {"clear", "park"} /\ Current \notin Over => Over' = Over
  <2>1. row[Current] = "started" => turn[Current] = "ask"
    BY <1>1, NotStarted DEF LocalNow, PlaceInv
  <2>2. PICK i \in Asked : i = Current
    BY <1>1
  <2> QED
    BY <1>1, <1>2, <1>3, <2>1, <2>2, StoreLocal DEF LocalNow, PlaceInv, ApprovalInv, LocalInv
<1>5. /\ Current \notin Begun /\ Current \notin Over
      /\ \A C \in SUBSET (Begun \cup {Current}), F \in SUBSET (Over \cup {Current}) : Ahead(pending, pos + 1, C, F)
      /\ \A i \in Rejected : i = Current
      /\ \A i \in Rejected : \A k \in DOMAIN pending : k >= pos + 1 => pending[k] = i
  BY <1>1, <1>3, AtCurrent
<1>6. /\ Asked' = Asked /\ cleared \in Seq(Asked) /\ results \in Seq(Asked)
      /\ Members(cleared) \subseteq Begun
      /\ Distinct(cleared) /\ Members(cleared) \cap Over = {}
  <2>1. pc = "calls" => cleared = << >>
    BY DEF LocalNow, PlaceInv, LoopPlace
  <2>2. pc = "calls" => Distinct(cleared) /\ Members(cleared) = {}
    BY <2>1 DEF Distinct, Members
  <2> QED
    BY <1>1, <1>3, <2>2 DEF LocalNow, Types, Shapes, Asked, Works, Begun, Members
<1>7. Over \subseteq Members(results) /\ Members(results) \subseteq Over /\ Distinct(results)
  BY <1>1, <1>3 DEF Works
<1>8. CASE o.verdict = "throw" /\ Fail("failed")
  <2>1. Begun' = Begun
    BY <1>1, <1>8 DEF Fail, Begun, Asked
  <2>2. Placed'
    BY <1>1, <1>3, <1>4, <1>8, PlacedNext DEF Fail, Waiting
  <2> QED
    BY <1>4, <2>1, <2>2, LastKept DEF LocalNow, LocalInv
<1>9. CASE o.verdict = "park" /\ pc' = "park" /\ UNCHANGED <<status, checkpoint, pos, cleared, results>>
  <2>1. Begun' = Begun /\ Over' = Over /\ Current' = Current
    BY <1>1, <1>4, <1>5, <1>9 DEF Begun, Asked, Current
  <2>2. Asking(pending[pos])' /\ Undecided' = {pending'[pos']}
    BY <1>1, <1>4, <1>9, <2>1 DEF Current, Asking
  <2>3. Works'
    BY <1>1, <1>3, <1>4, <1>7, <1>9, <2>1, <2>2 DEF Works
  <2>4. Placed'
    BY <1>1, <1>3, <1>9, <2>3, PlacedNext
  <2> QED
    BY <1>4, <2>1, <2>4, LastKept DEF LocalNow, LocalInv
<1>10. CASE /\ o.verdict = "clear" /\ pc' = "preflight" /\ pos' = pos + 1
            /\ cleared' = Append(cleared, Current) /\ results' = results
            /\ UNCHANGED <<status, checkpoint>>
  <2>1. /\ Members(cleared') = Members(cleared) \cup {Current} /\ Distinct(cleared')
    BY <1>1, <1>5, <1>6, <1>10, Grown
  <2>2. Begun' \subseteq Begun \cup {Current} /\ Over' = Over
    BY <1>1, <1>4, <1>5, <1>6, <1>10, <2>1 DEF Begun, Members
  <2>3. Ahead(pending', pos', Begun', Over')
    BY <1>1, <1>5, <1>10, <2>2
  <2>4. Works'
    BY <1>1, <1>4, <1>5, <1>6, <1>7, <1>10, <2>1, <2>2, <2>3 DEF Works
  <2>5. Placed'
    BY <1>1, <1>3, <1>10, <2>4, PlacedNext
  <2>6. RejectedLast'
    <3>1. \A i \in Rejected : Current <= i
      BY <1>1, <1>5 DEF Asked
    <3> QED
      BY <1>4, <2>2, <3>1 DEF LocalNow, LocalInv, RejectedLast
  <2> QED
    BY <1>4, <2>5, <2>6 DEF LocalInv
<1>11. CASE /\ o.verdict = "done" /\ pc' = "preflight" /\ pos' = pos + 1
            /\ cleared' = cleared /\ results' = Append(results, Current)
            /\ UNCHANGED <<status, checkpoint>>
  <2>1. Members(results') = Members(results) \cup {Current} /\ Distinct(results')
    BY <1>1, <1>5, <1>6, <1>7, <1>11, Grown
  <2>2. Begun' = Begun /\ Over' = Over \cup {Current}
    BY <1>1, <1>4, <1>11 DEF Begun, Asked
  <2>3. Ahead(pending', pos', Begun', Over')
    BY <1>1, <1>5, <1>11, <2>2
  <2>4. Works'
    BY <1>1, <1>4, <1>5, <1>6, <1>7, <1>11, <2>1, <2>2, <2>3 DEF Works
  <2>5. Placed'
    BY <1>1, <1>3, <1>11, <2>4, PlacedNext
  <2> QED
    BY <1>4, <2>2, <2>5, LastKept DEF LocalNow, LocalInv
<1> QED
  BY <1>2, <1>8, <1>9, <1>10, <1>11

\* A call that runs alone.
LEMMA InvokeLocal == ASSUME LocalNow, Invoke PROVE LocalInv'
<1>1. /\ pos \in DOMAIN pending /\ Current \in Asked /\ pc = "calls"
      /\ UNCHANGED <<turn, pending, inflight, parking, verdicts>>
  BY InvokePlace DEF LocalNow
<1>2. PICK o \in Outcomes(Current) :
        \/ /\ Startable(o) /\ StartTool(Current)
           /\ pos' = pos + 1 /\ cleared' = <<Current>> /\ pc' = "await"
           /\ UNCHANGED <<approval, prompt, ruled, status, checkpoint, results>>
        \/ /\ o.verdict = "done" /\ Store(Current, o)
           /\ pos' = pos + 1 /\ results' = WithResult(results, Current)
           /\ UNCHANGED <<status, checkpoint, pc, cleared, execs, executing>>
        \/ /\ o.verdict = "park" /\ Store(Current, o) /\ pc' = "park"
           /\ UNCHANGED <<status, checkpoint, pos, cleared, results, execs, executing>>
        \/ /\ Thrown(o) /\ Store(Current, o) /\ Fail("failed")
           /\ UNCHANGED <<execs, executing>>
  BY InvokePlace DEF LocalNow
<1>3. status \notin Waiting /\ parking = {} /\ verdicts = {} /\ Works /\ Undecided = {}
  BY <1>1, WorksNow DEF LocalNow, PlaceInv, LocalInv, Works
<1>s. row[Current] = "started" => turn[Current] = "ask"
  BY <1>1, NotStarted DEF LocalNow, PlaceInv
<1>4. Store(Current, o) =>
        /\ AskRows' /\ Rejected' = Rejected
        /\ Undecided' = (IF o.verdict = "park" THEN {Current} ELSE {})
        /\ o.verdict = "park" => (\A i \in {Current} : Asking(i)')
        /\ o.verdict = "done" => Over' = IF turn[Current] = "ask" THEN Over ELSE Over \cup {Current}
        /\ o.verdict \in {"clear", "park"} /\ Current \notin Over => Over' = Over
  <2>2. PICK i \in Asked : i = Current
    BY <1>1
  <2> QED
    BY <1>1, <1>2, <1>3, <1>s, <2>2, StoreLocal DEF LocalNow, PlaceInv, ApprovalInv, LocalInv
<1>5. /\ Current \notin Begun /\ Current \notin Over
      /\ \A C \in SUBSET (Begun \cup {Current}), F \in SUBSET (Over \cup {Current}) : Ahead(pending, pos + 1, C, F)
      /\ \A i \in Rejected : i = Current
      /\ \A i \in Rejected : \A k \in DOMAIN pending : k >= pos + 1 => pending[k] = i
  BY <1>1, <1>3, AtCurrent
<1>6. Asked' = Asked /\ cleared = << >> /\ Members(cleared) = {} /\ results \in Seq(Asked)
  BY <1>1 DEF LocalNow, PlaceInv, LoopPlace, Asked, Members, Types, Shapes
<1>7. Over \subseteq Members(results) /\ Members(results) \subseteq Over /\ Distinct(results)
  BY <1>1, <1>3 DEF Works
<1>8. CASE Thrown(o) /\ Store(Current, o) /\ Fail("failed") /\ UNCHANGED <<execs, executing>>
  <2>1. Begun' = Begun
    BY <1>1, <1>8 DEF Fail, Begun, Asked
  <2>2. Undecided' = {}
    BY <1>4, <1>8 DEF Thrown
  <2>3. Placed'
    BY <1>1, <1>3, <1>8, <2>2, PlacedNext DEF Fail, Waiting
  <2> QED
    BY <1>4, <1>8, <2>1, <2>3, LastKept DEF LocalNow, LocalInv
<1>9. CASE /\ o.verdict = "park" /\ Store(Current, o) /\ pc' = "park"
           /\ UNCHANGED <<status, checkpoint, pos, cleared, results, execs, executing>>
  <2>1. Begun' = Begun /\ Over' = Over /\ Current' = Current
    BY <1>1, <1>4, <1>5, <1>9 DEF Begun, Asked, Current
  <2>2. Asking(pending[pos])' /\ Undecided' = {pending'[pos']}
    BY <1>1, <1>4, <1>9, <2>1 DEF Current, Asking
  <2>3. Works'
    BY <1>1, <1>3, <1>4, <1>7, <1>9, <2>1, <2>2 DEF Works
  <2>4. Placed'
    BY <1>1, <1>3, <1>9, <2>3, PlacedNext
  <2> QED
    BY <1>4, <1>9, <2>1, <2>4, LastKept DEF LocalNow, LocalInv
<1>10. CASE /\ Startable(o) /\ StartTool(Current)
            /\ pos' = pos + 1 /\ cleared' = <<Current>> /\ pc' = "await"
            /\ UNCHANGED <<approval, prompt, ruled, status, checkpoint, results>>
  <2>1. AskRows' /\ Rejected' = Rejected /\ Undecided' = {} /\ Over' = Over
    <3>1. PICK i \in Asked : i = Current
      BY <1>1
    <3> QED
      BY <1>1, <1>2, <1>3, <1>s, <1>10, <3>1, StartLocal DEF LocalNow, PlaceInv, ApprovalInv, LocalInv
  <2>2. Members(cleared') = {Current} /\ Distinct(cleared') /\ Current \in executing'
    BY <1>10 DEF Members, Distinct, StartTool
  <2>3. \A j \in Asked \ {Current} : execs'[j] = execs[j]
    <3>1. PICK i \in Asked : i = Current
      BY <1>1
    <3> QED
      BY <1>10, <3>1, StartTypes, AskedCalls DEF LocalNow, Types
  <2>4. Begun' \subseteq Begun \cup {Current}
    BY <1>1, <1>6, <2>2, <2>3 DEF Begun, Members
  <2>5. Ahead(pending', pos', Begun', Over')
    BY <1>1, <1>5, <1>10, <2>1, <2>4
  <2>6. Works'
    BY <1>1, <1>5, <1>7, <1>10, <2>1, <2>2, <2>5 DEF Works
  <2>7. Placed'
    BY <1>1, <1>3, <1>10, <2>6, PlacedNext
  <2>8. RejectedLast'
    <3>1. \A i \in Rejected : Current <= i
      BY <1>1, <1>5 DEF Asked
    <3> QED
      BY <2>1, <2>4, <3>1 DEF LocalNow, LocalInv, RejectedLast
  <2> QED
    BY <2>1, <2>7, <2>8 DEF LocalInv
<1>11. CASE /\ o.verdict = "done" /\ Store(Current, o)
            /\ pos' = pos + 1 /\ results' = WithResult(results, Current)
            /\ UNCHANGED <<status, checkpoint, pc, cleared, execs, executing>>
  <2>1. Members(results') = Over' /\ Distinct(results')
    <3>1. CASE turn[Current] = "ask"
      BY <1>4, <1>7, <1>11, <3>1 DEF WithResult
    <3>2. CASE turn[Current] # "ask"
      <4>1. results' = Append(results, Current)
        BY <1>11, <3>2 DEF WithResult
      <4>2. Current \notin Members(results) /\ Members(results) = Over
        BY <1>5, <1>7
      <4>3. Members(results') = Members(results) \cup {Current} /\ Distinct(results')
        BY <1>1, <1>6, <1>7, <4>1, <4>2, Grown
      <4> QED
        BY <1>4, <1>11, <3>2, <4>2, <4>3
    <3> QED
      BY <3>1, <3>2
  <2>2. Begun' = Begun /\ Over' \subseteq Over \cup {Current}
    BY <1>1, <1>4, <1>11 DEF Begun, Asked
  <2>3. Ahead(pending', pos', Begun', Over')
    BY <1>1, <1>5, <1>11, <2>2
  <2>4. Works'
    BY <1>1, <1>4, <1>5, <1>11, <2>1, <2>3 DEF Works
  <2>5. Placed'
    BY <1>1, <1>3, <1>11, <2>4, PlacedNext
  <2> QED
    BY <1>4, <1>11, <2>2, <2>5, LastKept DEF LocalNow, LocalInv
<1> QED
  BY <1>2, <1>8, <1>9, <1>10, <1>11

\* What the calls of a batch leave of the loop that awaits them.
LEMMA AwaitNext ==
  ASSUME Types, Works, pc = "await", pc' = "await", UNCHANGED <<pending, pos, results, cleared>>,
         Rejected' = Rejected, Undecided' = {}, Begun' \subseteq Begun,
         Over \subseteq Over', Over' \subseteq Over \cup Members(cleared),
         Members(cleared) \subseteq Begun,
         inflight \cup executing \cup Over \subseteq inflight' \cup executing' \cup Over'
  PROVE  Works'
<1>1. Ahead(pending, pos, Begun, Over)
  BY DEF Works
<1>2. Ahead(pending, pos, Begun, Over \cup Members(cleared))
  <2>1. \A k \in DOMAIN pending : k >= pos => pending[k] \notin Members(cleared)
    <3> SUFFICES ASSUME NEW k \in DOMAIN pending, k >= pos, pending[k] \in Begun PROVE FALSE
      OBVIOUS
    <3>1. pending[k] < pending[k] /\ pending[k] \in Int
      BY <1>1 DEF Ahead, Types, Shapes, Lists
    <3> QED
      BY <3>1
  <2> QED
    BY <1>1, <2>1 DEF Ahead
<1>3. Ahead(pending', pos', Begun', Over')
  BY <1>2, AheadLess
<1> QED
  BY <1>3 DEF Works

\* The calls of a batch are among those that have begun.
LEMMA BatchBegun ==
  ASSUME LocalNow
  PROVE  /\ Members(cleared) \subseteq Begun /\ inflight \subseteq Begun
         /\ pc = "await" => inflight \cup executing \subseteq Members(cleared)
         /\ inflight \cup executing # {} => pc \in {"await", "off"} /\ status \notin Waiting
BY DEF LocalNow, PlaceInv, LoopPlace, Begun, Members, Types, Shapes

\* A call of a batch goes on by itself, and beside a loop that is gone.
LEMMA LaunchLocal == ASSUME LocalNow, NEW i \in Calls, Launch(i) PROVE LocalInv'
<1>1. /\ i \in Asked /\ i \in inflight /\ inflight' = inflight \ {i}
      /\ UNCHANGED <<turn, pending, pos, cleared, results, parking, verdicts>>
  BY LaunchPlace DEF LocalNow
<1>2. PICK o \in Outcomes(i) :
        \/ /\ Startable(o) /\ StartTool(i)
           /\ UNCHANGED <<approval, prompt, ruled, status, checkpoint, pc>>
        \/ /\ o.verdict = "done" /\ Store(i, o)
           /\ UNCHANGED <<status, checkpoint, pc, execs, executing>>
        \/ /\ Thrown(o) /\ Store(i, o)
           /\ pc = "await" /\ pc' = "off" /\ status' = "failed" /\ checkpoint' = NoCheckpoint
           /\ UNCHANGED <<execs, executing>>
        \/ /\ Thrown(o) /\ Store(i, o) /\ pc # "await"
           /\ UNCHANGED <<status, checkpoint, pc, execs, executing>>
  BY LaunchPlace DEF LocalNow
<1>3. /\ status \notin Waiting /\ parking = {} /\ verdicts = {} /\ Undecided = {}
      /\ (pc = "await" /\ Works) \/ pc = "off"
  BY <1>1, BatchBegun DEF LocalNow, LocalInv, Placed, Works
<1>4. row[i] = "started" => turn[i] = "ask"
  BY <1>1, NotStarted DEF LocalNow, PlaceInv
<1>5. turn[i] # "ask"
  BY <1>1 DEF LocalNow, ApprovalInv, Batch, Launchables, Launchable, Safe
<1>6. Asked' = Asked
  BY <1>1 DEF Asked
<1>7. CASE /\ Startable(o) /\ StartTool(i)
           /\ UNCHANGED <<approval, prompt, ruled, status, checkpoint, pc>>
  <2>1. AskRows' /\ Rejected' = Rejected /\ Undecided' = {} /\ Over' = Over
    BY <1>1, <1>3, <1>4, <1>7, StartLocal DEF LocalNow, PlaceInv, ApprovalInv, LocalInv
  <2>2. executing' = executing \cup {i} /\ \A j \in Asked \ {i} : execs'[j] = execs[j]
    BY <1>1, <1>7, StartTypes, AskedCalls DEF LocalNow, Types, StartTool
  <2>3. Begun' \subseteq Begun
    BY <1>1, <1>6, <2>2 DEF Begun
  <2>4. pc = "await" /\ Works => Works'
    BY <1>1, <1>7, <2>1, <2>2, <2>3, BatchBegun, AwaitNext DEF LocalNow
  <2>5. Placed'
    BY <1>1, <1>3, <1>7, <2>1, <2>4, PlacedNext
  <2> QED
    BY <2>1, <2>3, <2>5, LastKept DEF LocalNow, LocalInv
<1>8. ASSUME Store(i, o), UNCHANGED <<execs, executing>>
      PROVE  /\ AskRows' /\ Rejected' = Rejected /\ RejectedLast'
             /\ Undecided' = (IF o.verdict = "park" THEN {i} ELSE {})
             /\ o.verdict = "done" => Over' = Over \cup {i}
             /\ Begun' \subseteq Begun
  <2>1. /\ AskRows' /\ Rejected' = Rejected
        /\ Undecided' = (IF o.verdict = "park" THEN {i} ELSE {})
        /\ o.verdict = "done" => Over' = Over \cup {i}
    BY <1>1, <1>3, <1>4, <1>5, <1>8, StoreLocal DEF LocalNow, PlaceInv, ApprovalInv, LocalInv
  <2>2. Begun' \subseteq Begun
    BY <1>1, <1>6, <1>8 DEF Begun
  <2> QED
    BY <2>1, <2>2, LastKept DEF LocalNow, LocalInv
<1>9. CASE /\ o.verdict = "done" /\ Store(i, o)
           /\ UNCHANGED <<status, checkpoint, pc, execs, executing>>
  <2>1. AskRows' /\ Rejected' = Rejected /\ RejectedLast' /\ Undecided' = {} /\ Over' = Over \cup {i} /\ Begun' \subseteq Begun
    BY <1>8, <1>9
  <2>2. pc = "await" /\ Works => Works'
    <3> SUFFICES ASSUME pc = "await", Works PROVE Works'
      OBVIOUS
    <3>1. i \in Members(cleared) /\ Members(cleared) \subseteq Begun
      BY <1>1, BatchBegun
    <3>2. inflight \cup executing \cup Over \subseteq inflight' \cup executing' \cup Over'
      BY <1>1, <1>9, <2>1
    <3> QED
      BY <1>1, <1>9, <2>1, <3>1, <3>2, AwaitNext DEF LocalNow
  <2>3. Placed'
    BY <1>1, <1>3, <1>9, <2>1, <2>2, PlacedNext
  <2> QED
    BY <2>1, <2>3 DEF LocalInv
<1>10. CASE /\ Thrown(o) /\ Store(i, o)
            /\ pc = "await" /\ pc' = "off" /\ status' = "failed" /\ checkpoint' = NoCheckpoint
            /\ UNCHANGED <<execs, executing>>
  <2>1. AskRows' /\ RejectedLast' /\ Undecided' = {}
    BY <1>8, <1>10 DEF Thrown
  <2>2. Placed'
    BY <1>1, <1>3, <1>10, <2>1, PlacedNext DEF Waiting
  <2> QED
    BY <2>1, <2>2 DEF LocalInv
<1>11. CASE /\ Thrown(o) /\ Store(i, o) /\ pc # "await"
            /\ UNCHANGED <<status, checkpoint, pc, execs, executing>>
  <2>1. AskRows' /\ RejectedLast' /\ Undecided' = {}
    BY <1>8, <1>11 DEF Thrown
  <2>2. Placed'
    BY <1>1, <1>3, <1>11, <2>1, PlacedNext
  <2> QED
    BY <2>1, <2>2 DEF LocalInv
<1> QED
  BY <1>2, <1>7, <1>9, <1>10, <1>11

\* A tool returns.
LEMMA FinishLocal ==
  ASSUME LocalNow, NEW i \in Calls, NEW to \in {"finished", "failed"}, FinishTool(i, to)
  PROVE  LocalInv'
<1>1. /\ i \in executing /\ i \in Asked /\ executing' = executing \ {i}
      /\ row'[i] = to /\ \A j \in Asked \ {i} : row'[j] = row[j]
      /\ UNCHANGED <<status, turn, approval, prompt, pc, pending, pos, cleared, results, inflight, execs, parking, verdicts>>
  <2>1. i \in executing /\ i \in Asked /\ row' = [row EXCEPT ![i] = to] /\ executing' = executing \ {i}
    BY DEF FinishTool, LocalNow, Types, Shapes
  <2>2. row \in [Calls -> CallStatus \cup {"none"}] /\ Asked \subseteq Calls
    BY AskedCalls DEF LocalNow, Types, Rows
  <2> QED
    BY <2>1, <2>2 DEF FinishTool, loop
<1>2. turn[i] # "ask" /\ to \in CallEnded /\ Asked' = Asked
  BY <1>1 DEF LocalNow, PlaceInv, Once, CallEnded, Asked
<1>3. /\ status \notin Waiting /\ parking = {} /\ verdicts = {} /\ Undecided = {}
      /\ (pc = "await" /\ Works) \/ pc = "off"
  BY <1>1, BatchBegun DEF LocalNow, LocalInv, Placed, Works
<1>4. AskRows' /\ Rejected' = Rejected /\ Undecided' = {} /\ Begun' = Begun
  BY <1>1, <1>2, <1>3 DEF LocalNow, LocalInv, AskRows, Rejected, Undecided, Begun
<1>5. Over' = Over \cup {i}
  BY <1>1, <1>2 DEF Over
<1>6. pc = "await" /\ Works => Works'
  <2> SUFFICES ASSUME pc = "await", Works PROVE Works'
    OBVIOUS
  <2>1. i \in Members(cleared) /\ Members(cleared) \subseteq Begun
    BY <1>1, BatchBegun
  <2>2. inflight \cup executing \cup Over \subseteq inflight' \cup executing' \cup Over'
    BY <1>1, <1>5
  <2> QED
    BY <1>1, <1>4, <1>5, <2>1, <2>2, AwaitNext DEF LocalNow
<1>7. Placed'
  BY <1>1, <1>3, <1>4, <1>6, PlacedNext
<1> QED
  BY <1>4, <1>7, LastKept DEF LocalNow, LocalInv

\* Steps that leave the records alone.
LEMMA QuietRecords ==
  ASSUME UNCHANGED <<turn, table>>
  PROVE  /\ Asked' = Asked /\ Rejected' = Rejected /\ Undecided' = Undecided /\ Over' = Over
         /\ AskRows => AskRows'
         /\ \A i \in Asked : Asking(i)' <=> Asking(i)
BY DEF table, Asked, Rejected, Undecided, Over, AskRows, Asking

\* The batch is launched ...
LEMMA StartBatchLocal == ASSUME LocalNow, StartBatch PROVE LocalInv'
<1>1. /\ pc = "preflight" /\ pc' = "await" /\ inflight = {} /\ inflight' = Members(cleared)
      /\ UNCHANGED <<turn, table, status, pending, pos, cleared, results, executing, execs, parking, verdicts>>
  <2>1. DOMAIN cleared = 1 .. Len(cleared)
    BY DEF LocalNow, Types, Shapes
  <2> QED
    BY <2>1 DEF StartBatch, LocalNow, PlaceInv, LoopPlace, Members
<1>2. status \notin Waiting /\ parking = {} /\ verdicts = {} /\ Works
  BY <1>1, WorksNow DEF LocalNow, PlaceInv, LocalInv
<1>3. Asked' = Asked /\ Rejected' = Rejected /\ Undecided' = Undecided /\ Over' = Over /\ AskRows'
  BY <1>1, QuietRecords DEF LocalNow, LocalInv
<1>4. Begun' = Begun
  BY <1>1, <1>3 DEF Begun, Members
<1>5. Works'
  BY <1>1, <1>2, <1>3, <1>4 DEF Works
<1>6. Placed'
  BY <1>1, <1>2, <1>5, PlacedNext
<1> QED
  BY <1>3, <1>4, <1>6, LastKept DEF LocalNow, LocalInv

\* ... and its results are collected.
LEMMA CollectLocal == ASSUME LocalNow, Collect PROVE LocalInv'
<1>1. /\ pc = "await" /\ pc' = "calls" /\ cleared' = << >> /\ results' = results \o cleared
      /\ UNCHANGED <<turn, table, status, pending, pos, inflight, executing, execs, parking, verdicts>>
  BY DEF Collect, work
<1>2. status \notin Waiting /\ parking = {} /\ verdicts = {} /\ Works
  BY <1>1, WorksNow DEF LocalNow, PlaceInv, LocalInv
<1>3. Asked' = Asked /\ Rejected' = Rejected /\ Undecided' = Undecided /\ Over' = Over /\ AskRows'
  BY <1>1, QuietRecords DEF LocalNow, LocalInv
<1>4. Members(cleared) \subseteq Over
  <2>1. DOMAIN cleared = 1 .. Len(cleared)
    BY DEF LocalNow, Types, Shapes
  <2>2. \A k \in DOMAIN cleared : cleared[k] \notin inflight \cup executing
    BY <2>1 DEF Collect
  <2> QED
    BY <1>1, <1>2, <2>2 DEF Works, Members
<1>5. Members(results') = Over /\ Distinct(results')
  <2>1. cleared \in Seq(Asked) /\ results \in Seq(Asked)
    BY DEF LocalNow, Types, Shapes
  <2>2. /\ Distinct(cleared) /\ Distinct(results) /\ Members(results) \cap Members(cleared) = {}
        /\ Over \subseteq Members(results) \cup Members(cleared) /\ Members(results) \subseteq Over
    BY <1>1, <1>2 DEF Works
  <2>3. Members(results') = Members(results) \cup Members(cleared) /\ Distinct(results')
    BY <1>1, <2>1, <2>2, Joined
  <2> QED
    BY <1>4, <2>2, <2>3
<1>6. Begun' \subseteq Begun
  BY <1>1, <1>3 DEF Begun
<1>7. Ahead(pending', pos', Begun', Over')
  <2>1. Ahead(pending, pos, Begun, Over)
    BY <1>2 DEF Works
  <2> QED
    BY <1>1, <1>3, <1>6, <2>1, AheadLess
<1>8. Works'
  BY <1>1, <1>2, <1>3, <1>5, <1>7 DEF Works
<1>9. Placed'
  BY <1>1, <1>2, <1>8, PlacedNext
<1> QED
  BY <1>3, <1>6, <1>9, LastKept DEF LocalNow, LocalInv

\* The turn ends, the model answers or is given up.
LEMMA EndTurnLocal == ASSUME LocalNow, EndTurn PROVE LocalInv'
<1>1. /\ pc = "calls" /\ pc' = "provider" /\ status' = "running" /\ pending' = << >>
      /\ UNCHANGED <<turn, table, cleared, results, inflight, executing, execs, parking, verdicts>>
  BY DEF EndTurn, work
<1>2. parking = {} /\ verdicts = {} /\ Works
  BY <1>1, WorksNow DEF LocalNow, PlaceInv, LocalInv
<1>3. Asked' = Asked /\ Rejected' = Rejected /\ Undecided' = Undecided /\ Over' = Over /\ AskRows'
  BY <1>1, QuietRecords DEF LocalNow, LocalInv
<1>4. Begun' = Begun
  BY <1>1, <1>3 DEF Begun
<1>5. Works'
  BY <1>1, <1>2, <1>3 DEF Works, Ahead
<1>6. Placed'
  BY <1>1, <1>2, <1>5, PlacedNext DEF Waiting
<1> QED
  BY <1>3, <1>4, <1>6, LastKept DEF LocalNow, LocalInv

LEMMA RespondsLocal == ASSUME LocalNow, ProviderResponds PROVE LocalInv'
<1>1. /\ pc = "provider" /\ pc' = "calls" /\ status' = "waiting_tool" /\ turn = << >> /\ pos' = 1
      /\ \E n \in Calls : pending' = [i \in 1 .. n |-> i]
      /\ UNCHANGED <<row, approval, prompt, cleared, results, inflight, executing, execs, parking, verdicts>>
  BY DEF ProviderResponds, work, table
<1>2. parking = {} /\ verdicts = {} /\ Works /\ inflight = {} /\ cleared = << >>
  BY <1>1, WorksNow DEF LocalNow, PlaceInv, LocalInv, LoopPlace
<1>3. Asked = {} /\ results = << >>
  <2>1. Len(turn) = 0 /\ results \in Seq(1 .. 0)
    BY <1>1 DEF LocalNow, Types, Shapes, Asked
  <2> QED
    BY <2>1, Empties DEF Asked
<1>4. \A i \in Asked' : row'[i] = "none" /\ approval'[i] = "none" /\ prompt'[i] = "none" /\ execs'[i] = 0
  <2>1. Asked' \subseteq Calls
    <3>1. PICK n \in Calls : turn' \in [1 .. n -> Kinds]
      BY DEF ProviderResponds
    <3>2. Len(turn') = n
      BY <3>1 DEF Calls
    <3> QED
      BY <3>1, <3>2, CallsAssumption DEF Asked, Calls
  <2> QED
    BY <1>1, <1>3, <2>1 DEF LocalNow, Untouched
<1>5. Rejected' = {} /\ Undecided' = {} /\ AskRows'
  BY <1>4 DEF Rejected, Undecided, AskRows
<1>6. Over' = {}
  <2>1. "none" \notin CallEnded
    BY DEF CallEnded
  <2> QED
    BY <1>4, <2>1 DEF Over
<1>7. Begun' = {}
  BY <1>1, <1>2, <1>4 DEF Begun
<1>8. Works'
  <2>1. Ahead(pending', pos', {}, {})
    BY DEF Ahead
  <2>2. Distinct(results') /\ Members(results') = {}
    BY <1>1, <1>3 DEF Distinct, Members
  <2> QED
    BY <1>1, <1>5, <1>6, <1>7, <2>1, <2>2 DEF Works
<1>9. Placed'
  BY <1>1, <1>2, <1>8, PlacedNext DEF Waiting
<1> QED
  BY <1>5, <1>9 DEF LocalInv, RejectedLast

LEMMA GivenUpLocal ==
  ASSUME LocalNow, pc \in {"provider", "calls"}, pc' = "off", status' \notin Waiting,
         UNCHANGED <<turn, table, cleared, inflight, execs, parking, verdicts>>
  PROVE  LocalInv'
<1>1. parking = {} /\ verdicts = {} /\ Undecided = {}
  BY WorksNow DEF LocalNow, PlaceInv, LocalInv, Works
<1>2. Asked' = Asked /\ Rejected' = Rejected /\ Undecided' = Undecided /\ AskRows'
  BY QuietRecords DEF LocalNow, LocalInv
<1>3. Begun' = Begun
  BY <1>2 DEF Begun
<1>4. Placed'
  BY <1>1, <1>2, PlacedNext
<1> QED
  BY <1>2, <1>3, <1>4, LastKept DEF LocalNow, LocalInv

LEMMA RecoversLocal == ASSUME LocalNow, ProviderRecovers PROVE LocalInv'
<1>1. /\ pc = "provider" /\ UNCHANGED <<turn, table, status, pc, pending, pos, cleared, results, inflight, executing, execs, parking, verdicts>>
  BY DEF ProviderRecovers, loop, work
<1>2. status \notin Waiting /\ parking = {} /\ verdicts = {} /\ Works
  BY <1>1, WorksNow DEF LocalNow, PlaceInv, LocalInv
<1>3. Asked' = Asked /\ Rejected' = Rejected /\ Undecided' = Undecided /\ Over' = Over /\ AskRows'
  BY <1>1, QuietRecords DEF LocalNow, LocalInv
<1>4. Begun' = Begun
  BY <1>1, <1>3 DEF Begun
<1>5. Works'
  BY <1>1, <1>2, <1>3, <1>4 DEF Works
<1>6. Placed'
  BY <1>1, <1>2, <1>5, PlacedNext
<1> QED
  BY <1>3, <1>4, <1>6, LastKept DEF LocalNow, LocalInv

\* The calls of a task that parks: those from the call at hand on.
LEMMA RestIs ==
  ASSUME LocalNow, pos \in DOMAIN pending, NEW B, NEW E, Ahead(pending, pos, B, E)
  PROVE  /\ Rest \in Lists(Len(turn)) /\ Rest # << >> /\ Rest[1] = Current
         /\ Ahead(Rest, 1, B, E)
<1>1. /\ Len(turn) \in Nat /\ pending \in Lists(Len(turn)) /\ DOMAIN pending = 1 .. Len(pending)
      /\ Len(pending) \in Nat /\ pos \in 1 .. Len(pending)
  BY DEF LocalNow, Types, Shapes, Rows, Lists
<1>2. /\ Rest \in Lists(Len(turn)) /\ Len(Rest) = Len(pending) - pos + 1
      /\ \A k \in 1 .. Len(pending) - pos + 1 : Rest[k] = pending[pos + k - 1]
  BY <1>1, Rests DEF Rest
<1>3. DOMAIN Rest = 1 .. Len(pending) - pos + 1
  BY <1>2 DEF Lists
<1>4. 1 \in 1 .. Len(pending) - pos + 1 /\ pos + 1 - 1 = pos
  BY <1>1
<1>5. Rest[1] = Current /\ Rest # << >>
  BY <1>1, <1>2, <1>4 DEF Current
<1>6. ASSUME NEW k \in DOMAIN Rest PROVE Rest[k] \notin E /\ \A j \in B : j < Rest[k]
  <2>1. PICK m \in DOMAIN pending : m = pos + k - 1 /\ m >= pos
    BY <1>1, <1>3
  <2>2. Rest[k] = pending[m]
    BY <1>2, <1>3, <2>1
  <2> QED
    BY <2>1, <2>2 DEF Ahead
<1> QED
  BY <1>2, <1>5, <1>6 DEF Ahead

LEMMA ParkLocal == ASSUME LocalNow, Park PROVE LocalInv'
<1>1. /\ pc = "park" /\ pc' = "off" /\ pos \in DOMAIN pending
      /\ status' = (IF turn[Current] = "ask" THEN "waiting_clarification" ELSE "waiting_approval")
      /\ parking' = parking \cup {[pending |-> Rest, results |-> results]}
      /\ UNCHANGED <<turn, table, checkpoint, pending, pos, cleared, results, inflight, executing, execs, verdicts>>
  BY DEF Park, work, LocalNow, PlaceInv, LoopPlace
<1>2. status \notin Waiting /\ parking = {} /\ verdicts = {} /\ Works
  BY <1>1, WorksNow DEF LocalNow, PlaceInv, LocalInv
<1>3. Asked' = Asked /\ Rejected' = Rejected /\ Undecided' = Undecided /\ Over' = Over /\ AskRows'
  BY <1>1, QuietRecords DEF LocalNow, LocalInv
<1>4. Begun' = Begun
  BY <1>1, <1>3 DEF Begun
<1>c. PICK c : c = [pending |-> Rest, results |-> results]
  OBVIOUS
<1>i. PICK i \in Asked : i = Current
  BY <1>1, CurrentAsked DEF LocalNow
<1>5. /\ c.pending \in Lists(Len(turn)) /\ c.pending # << >> /\ c.pending[1] = i
      /\ Ahead(c.pending, 1, Begun, Over)
  BY <1>1, <1>2, <1>c, <1>i, RestIs DEF Works
<1>6. c # NoCheckpoint
  <2>1. c \in [pending : Seq(Calls), results : Seq(Calls)]
    <3>1. Asked \subseteq Calls
      BY AskedCalls DEF LocalNow, Types
    <3>2. \A s \in Seq(Asked) : s \in Seq(Calls)
      BY <3>1
    <3>3. c.pending \in Seq(Asked) /\ results \in Seq(Asked)
      BY <1>5 DEF Lists, Asked, LocalNow, Types, Shapes
    <3>4. Rest \in Seq(Calls) /\ results \in Seq(Calls)
      BY <1>c, <3>2, <3>3
    <3> QED
      BY <1>c, <3>4
  <2> QED
    BY <2>1, CheckpointAssumption DEF Checkpoint
<1>7. Distinct(c.results) /\ Members(c.results) = Over
  BY <1>1, <1>2, <1>c DEF Works
<1>8. Undecided = {i} /\ Asking(i) /\ \A r \in Rejected : r = i
  <2>1. Undecided = {pending[pos]} /\ Asking(pending[pos])
    BY <1>1, <1>2 DEF Works
  <2>2. \A r \in Rejected : r = Current
    BY <1>1, <1>2, AtCurrent
  <2> QED
    BY <1>i, <2>1, <2>2 DEF Current
<1>9. Rejected = {}
  <2>1. i \notin Rejected
    <3>1. turn[i] = "ask" => approval[i] = "none"
      BY DEF LocalNow, ApprovalInv, Agree, Gated
    <3> QED
      BY <1>8, <3>1 DEF Rejected, Asking
  <2> QED
    BY <1>8, <2>1
<1>10. Asking(i)'
  BY <1>1, <1>8, QuietRecords
<1>11. (status' = "waiting_clarification") <=> turn'[i] = "ask"
  BY <1>1, <1>i
<1>12. Waits(c)'
  BY <1>1, <1>2, <1>3, <1>4, <1>5, <1>6, <1>7, <1>8, <1>9, <1>10, <1>11, <1>c DEF Waits
<1>13. Placed'
  <2>1. status' \in Waiting /\ c \in parking'
    BY <1>1, <1>c DEF Waiting
  <2> QED
    BY <1>12, <2>1 DEF Placed
<1> QED
  BY <1>3, <1>4, <1>13, LastKept DEF LocalNow, LocalInv

LEMMA SaveLocal == ASSUME LocalNow, NEW c \in parking, SaveCheckpoint(c) PROVE LocalInv'
<1>1. /\ checkpoint' = c /\ parking' = parking \ {c}
      /\ UNCHANGED <<status, turn, table, pc, pending, pos, cleared, results, inflight, executing, execs, verdicts>>
  BY DEF SaveCheckpoint, loop, work
<1>2. status \in Waiting /\ Waits(c) /\ parking = {c}
  BY DEF LocalNow, LocalInv, Placed, Waits
<1>3. Asked' = Asked /\ Rejected' = Rejected /\ Undecided' = Undecided /\ Over' = Over /\ AskRows'
  BY <1>1, QuietRecords DEF LocalNow, LocalInv
<1>4. Begun' = Begun
  BY <1>1, <1>3 DEF Begun
<1>5. Undecided = {c.pending[1]} /\ Asking(c.pending[1]) /\ Rejected = {} /\ verdicts = {}
  BY <1>2 DEF Waits
<1>6. Asking(c.pending[1])'
  <2>1. PICK i \in Asked : i = c.pending[1]
    BY <1>5 DEF Undecided
  <2>2. Asking(i)'
    BY <1>1, <1>5, <2>1, QuietRecords
  <2> QED
    BY <2>1, <2>2 DEF Asking
<1>7. Waits(c)'
  BY <1>1, <1>2, <1>3, <1>4, <1>5, <1>6 DEF Waits
<1>8. Placed'
  BY <1>1, <1>2, <1>7 DEF Placed
<1> QED
  BY <1>3, <1>4, <1>8, LastKept DEF LocalNow, LocalInv

\* A reviewer finds the call the task waits for, and no other.
LEMMA AskedOf ==
  ASSUME OneProcess, LocalNow, verdicts = {}, NEW i \in Calls, Reviewable,
         approval[i] = "pending" \/ prompt[i] = "pending"
  PROVE  /\ i \in Asked /\ status \in Waiting /\ parking = {} /\ pc = "off"
         /\ Waits(checkpoint) /\ i = checkpoint.pending[1]
         /\ Undecided = {i} /\ Rejected = {} /\ Asking(i)
         /\ status = "waiting_clarification" <=> turn[i] = "ask"
         /\ \A j \in Begun : j <= i
         /\ approval[i] = "pending" => turn[i] # "ask" /\ prompt[i] = "none"
         /\ prompt[i] = "pending" => turn[i] = "ask" /\ approval[i] = "none"
<1>1. i \in Asked /\ i \in Undecided
  BY DEF LocalNow, Untouched, Undecided
<1>2. pc # "park" /\ parking = {}
  BY DEF OneProcess, Reviewable
<1>3. status \in Waiting
  BY <1>1, <1>2 DEF LocalNow, LocalInv, Placed, Works
<1>4. Waits(checkpoint) /\ pc = "off"
  BY <1>2, <1>3 DEF LocalNow, LocalInv, Placed, PlaceInv, LoopPlace, Waiting
<1>5. /\ Undecided = {checkpoint.pending[1]} /\ Rejected = {} /\ Asking(checkpoint.pending[1])
      /\ status = "waiting_clarification" <=> turn[checkpoint.pending[1]] = "ask"
  BY <1>4 DEF Waits
<1>6. i = checkpoint.pending[1]
  BY <1>1, <1>5
<1>7. \A j \in Begun : j < i
  <2>1. Ahead(checkpoint.pending, 1, Begun, Over) /\ checkpoint # NoCheckpoint /\ checkpoint.pending # << >>
    BY <1>4 DEF Waits
  <2>2. checkpoint.pending \in Lists(Len(turn))
    BY <2>1, SavedIs DEF LocalNow, Types, Shapes
  <2>3. 1 \in DOMAIN checkpoint.pending
    BY <2>1, <2>2 DEF Lists
  <2> QED
    BY <1>6, <2>1, <2>3 DEF Ahead
<1>8. \A j \in Begun : j <= i
  <2>1. Begun \subseteq Int /\ i \in Int
    <3>1. inflight \subseteq Asked /\ \A k \in DOMAIN cleared : cleared[k] \in Asked
      BY DEF LocalNow, Types, Shapes
    <3>2. Begun \subseteq Asked
      BY <3>1 DEF Begun
    <3> QED
      BY <1>1, <3>2 DEF Asked
  <2> QED
    BY <1>7, <2>1
<1>9. turn[i] # "ask" => prompt[i] = "none"
  BY <1>1 DEF LocalNow, PlaceInv, Once
<1>10. turn[i] = "ask" => approval[i] = "none"
  BY <1>1 DEF LocalNow, ApprovalInv, Agree, Gated
<1> QED
  BY <1>1, <1>2, <1>3, <1>4, <1>5, <1>6, <1>8, <1>9, <1>10

\* The verdict on an approval, and the answer to a question.
LEMMA VerdictLocal ==
  ASSUME LocalNow, verdicts = {}, NEW i \in Asked, status \in Waiting, parking = {},
         Waits(checkpoint), i = checkpoint.pending[1], Undecided = {i}, Rejected = {},
         \A j \in Begun : j <= i,
         UNCHANGED <<turn, row, loop, work, parking, status, checkpoint>>,
         \A j \in Asked \ {i} : approval'[j] = approval[j] /\ prompt'[j] = prompt[j],
         approval'[i] # "pending", prompt'[i] # "pending",
         turn[i] = "ask" => prompt'[i] # "none",
         \/ verdicts' = {[call |-> i, by |-> "allow"]} /\ approval'[i] \notin {"denied", "timed_out"}
         \/ verdicts' = {[call |-> i, by |-> "reject"]} /\ approval'[i] \in {"denied", "timed_out"}
            /\ status = "waiting_approval"
  PROVE  LocalInv'
<1>1. Asked' = Asked /\ Over' = Over /\ Begun' = Begun
  BY DEF Asked, Over, Begun, loop, work
<1>2. AskRows'
  BY <1>1 DEF LocalNow, LocalInv, AskRows
<1>3. Undecided' = {}
  BY <1>1 DEF Undecided
<1>4. Rejected' = IF approval'[i] \in {"denied", "timed_out"} THEN {i} ELSE {}
  BY <1>1 DEF Rejected
<1>5. RejectedLast'
  BY <1>1, <1>4 DEF RejectedLast
<1>6. Waits(checkpoint)'
  BY <1>1, <1>3, <1>4 DEF Waits
<1>7. Placed'
  BY <1>6 DEF Placed
<1> QED
  BY <1>2, <1>5, <1>7 DEF LocalInv

\* A question without an answer ends the task.
LEMMA UnansweredLocal ==
  ASSUME LocalNow, verdicts = {}, NEW i \in Asked, parking = {}, pc = "off", Undecided = {i}, Rejected = {},
         UNCHANGED <<turn, approval, loop, work, parking, verdicts>>,
         \A j \in Asked \ {i} : prompt'[j] = prompt[j] /\ row'[j] = row[j],
         approval[i] # "pending", prompt'[i] \notin {"pending", "none"}, status' \notin Waiting
  PROVE  LocalInv'
<1>1. Asked' = Asked /\ Begun' = Begun /\ Rejected' = {}
  BY DEF Asked, Begun, Rejected, loop, work
<1>2. AskRows'
  BY <1>1 DEF LocalNow, LocalInv, AskRows
<1>3. Undecided' = {}
  BY <1>1 DEF Undecided
<1>4. Placed'
  BY <1>3, PlacedNext DEF loop
<1> QED
  BY <1>1, <1>2, <1>4 DEF LocalInv, RejectedLast

LEMMA ReviewLocal == ASSUME OneProcess, LocalNow, verdicts = {}, NEW i \in Calls, ReviewAct(i) PROVE LocalInv'
<1>t. /\ row \in [Calls -> CallStatus \cup {"none"}] /\ approval \in [Calls -> Approval]
      /\ prompt \in [Calls -> Prompt] /\ Asked \subseteq Calls
  BY AskedCalls DEF LocalNow, Types, Rows
<1>1. ASSUME NEW scope \in {"once", "session"}, Allow(i, scope) PROVE LocalInv'
  <2>1. /\ Reviewable /\ approval[i] = "pending" /\ approval' = [approval EXCEPT ![i] = "approved"]
        /\ verdicts' = {[call |-> i, by |-> "allow"]} /\ UNCHANGED <<status, prompt, checkpoint, turn, row, loop, work, parking>>
    BY <1>1 DEF Allow, UnchangedByReview
  <2>2. approval'[i] = "approved" /\ \A j \in Asked \ {i} : approval'[j] = approval[j]
    BY <1>t, <2>1
  <2> QED
    BY <2>1, <2>2, AskedOf, VerdictLocal
<1>2. ASSUME NEW as \in {"denied", "timed_out"}, Reject(i, as) PROVE LocalInv'
  <2>1. /\ Reviewable /\ approval[i] = "pending" /\ approval' = [approval EXCEPT ![i] = as]
        /\ verdicts' = {[call |-> i, by |-> "reject"]} /\ UNCHANGED <<status, prompt, checkpoint, turn, row, loop, work, parking>>
    BY <1>2 DEF Reject, Decidable, UnchangedByReview, OneProcess
  <2>2. approval'[i] = as /\ \A j \in Asked \ {i} : approval'[j] = approval[j]
    BY <1>t, <2>1
  <2>3. status = "waiting_approval" /\ turn[i] # "ask" /\ prompt[i] = "none"
    BY <2>1, AskedOf DEF Waiting
  <2> QED
    BY <2>1, <2>2, <2>3, AskedOf, VerdictLocal
<1>3. CASE Answer(i)
  <2>1. /\ Reviewable /\ prompt[i] = "pending" /\ prompt' = [prompt EXCEPT ![i] = "answered"]
        /\ checkpoint # NoCheckpoint => verdicts' = {[call |-> i, by |-> "allow"]}
        /\ UNCHANGED <<status, approval, checkpoint, turn, row, loop, work, parking>>
    BY <1>3 DEF Answer, Decidable, UnchangedByReview, OneProcess
  <2>2. prompt'[i] = "answered" /\ \A j \in Asked \ {i} : prompt'[j] = prompt[j]
    BY <1>t, <2>1
  <2>3. checkpoint # NoCheckpoint /\ approval[i] = "none"
    BY <2>1, AskedOf DEF Waits
  <2> QED
    BY <2>1, <2>2, <2>3, AskedOf, VerdictLocal
<1>4. CASE Cancel(i)
  <2>1. /\ Reviewable /\ prompt[i] = "pending" /\ prompt' = [prompt EXCEPT ![i] = "cancelled"]
        /\ FailWaiting /\ UNCHANGED <<approval, verdicts, turn, row, loop, work, parking>>
    BY <1>4 DEF Cancel, Decidable, UnchangedByReview, OneProcess
  <2>2. prompt'[i] = "cancelled" /\ \A j \in Asked \ {i} : prompt'[j] = prompt[j]
    BY <1>t, <2>1
  <2>3. status = "waiting_clarification" /\ approval[i] = "none"
    BY <2>1, AskedOf
  <2>4. status' \notin Waiting
    BY <2>1, <2>3 DEF FailWaiting, Waiting
  <2> QED
    BY <2>1, <2>2, <2>3, <2>4, AskedOf, UnansweredLocal
<1>5. CASE ExpirePrompt(i)
  <2>1. Reviewable /\ prompt[i] = "pending" /\ prompt' = [prompt EXCEPT ![i] = "timed_out"]
    BY <1>5 DEF ExpirePrompt
  <2>2. prompt'[i] = "timed_out" /\ \A j \in Asked \ {i} : prompt'[j] = prompt[j]
    BY <1>t, <2>1
  <2>3. status = "waiting_clarification" /\ approval[i] = "none" /\ row[i] = "started"
    BY <2>1, AskedOf DEF Asking
  <2>4. CanMoveCall(row[i], "timed_out")
    <3>1. "started" \in CallStatus /\ "timed_out" \in CallStatus
      BY DEF CallStatus
    <3> QED
      BY <2>3, <3>1, Moves
  <2>5. /\ row' = [row EXCEPT ![i] = "timed_out"] /\ FailWaiting
        /\ UNCHANGED <<approval, verdicts, turn, loop, work, parking>>
    BY <1>5, <2>4 DEF ExpirePrompt
  <2>6. \A j \in Asked \ {i} : row'[j] = row[j]
    BY <1>t, <2>5
  <2>7. status' \notin Waiting
    BY <2>3, <2>5 DEF FailWaiting, Waiting
  <2> QED
    BY <2>1, <2>2, <2>3, <2>5, <2>6, <2>7, AskedOf, UnansweredLocal
<1> QED
  BY <1>1, <1>2, <1>3, <1>4, <1>5 DEF ReviewAct

\* A loop that goes on from the checkpoint, or with the rejected call alone.
LEMMA ResumeLocal ==
  ASSUME LocalNow, NEW rest, Resume(rest), UNCHANGED <<turn, table, checkpoint, work, parking>>,
         parking = {}, verdicts' = {}, checkpoint # NoCheckpoint, Waits(checkpoint), Undecided = {},
         Ahead(rest, 1, Begun, Over),
         \A i \in Rejected : \A k \in DOMAIN rest : rest[k] = i
  PROVE  LocalInv'
<1>1. /\ status' = "running" /\ pending' = rest /\ pos' = 1 /\ cleared' = << >>
      /\ results' = checkpoint.results /\ pc' \in {"provider", "calls"}
      /\ UNCHANGED <<inflight, execs>>
  BY DEF Resume, work
<1>2. Asked' = Asked /\ Rejected' = Rejected /\ Undecided' = Undecided /\ Over' = Over /\ AskRows'
  BY QuietRecords DEF LocalNow, LocalInv
<1>3. Begun' \subseteq Begun
  BY <1>1, <1>2 DEF Begun
<1>4. Distinct(checkpoint.results) /\ Members(checkpoint.results) = Over
  BY DEF Waits
<1>5. Ahead(pending', pos', Begun', Over')
  BY <1>1, <1>2, <1>3, AheadLess
<1>6. Works'
  BY <1>1, <1>2, <1>4, <1>5 DEF Works
<1>7. Placed'
  BY <1>1, <1>6, PlacedNext DEF Waiting
<1> QED
  BY <1>2, <1>3, <1>7, LastKept DEF LocalNow, LocalInv

\* No continuation is refused.
LEMMA ContinueLocal == ASSUME LocalNow, NEW v \in verdicts, Continue(v) PROVE LocalInv'
<1>1. /\ verdicts' = verdicts \ {v} /\ UNCHANGED <<turn, table, checkpoint, work, parking>>
  BY DEF Continue
<1>2. status \in Waiting /\ Waits(checkpoint) /\ parking = {}
  <2>1. status \in Waiting
    BY DEF LocalNow, LocalInv, Placed
  <2>2. PICK c \in parking \cup {checkpoint} : Waits(c)
    BY <2>1 DEF LocalNow, LocalInv, Placed
  <2>3. parking = {}
    BY <2>2 DEF Waits
  <2> QED
    BY <2>1, <2>2, <2>3
<1>i. PICK i : i = checkpoint.pending[1]
  OBVIOUS
<1>3. /\ checkpoint # NoCheckpoint /\ checkpoint.pending # << >> /\ Undecided = {}
      /\ Ahead(checkpoint.pending, 1, Begun, Over)
      /\ \/ verdicts = {[call |-> i, by |-> "allow"]} /\ Rejected = {}
         \/ /\ verdicts = {[call |-> i, by |-> "reject"]} /\ Rejected = {i} /\ status = "waiting_approval"
  BY <1>2, <1>i DEF Waits
<1>4. 1 \in DOMAIN checkpoint.pending
  <2>1. checkpoint.pending \in Lists(Len(turn))
    BY <1>3, SavedIs DEF LocalNow, Types, Shapes
  <2> QED
    BY <1>3, <2>1 DEF Lists
<1>5. verdicts' = {}
  BY <1>1, <1>3
<1>6. CASE v = [call |-> i, by |-> "allow"] /\ Rejected = {}
  <2>1. v.by = "allow" /\ Resumable
    BY <1>2, <1>3, <1>6 DEF Resumable
  <2>2. Resume(checkpoint.pending)
    BY <2>1 DEF Continue, Refused
  <2> QED
    BY <1>1, <1>2, <1>3, <1>5, <1>6, <2>2, ResumeLocal
<1>7. CASE v = [call |-> i, by |-> "reject"] /\ Rejected = {i} /\ status = "waiting_approval"
  <2>1. v.by = "reject" /\ v.call = i /\ Resumable
    BY <1>2, <1>3, <1>7 DEF Resumable
  <2>2. ResumableRejected(v.call)
    BY <1>4, <1>7, <1>i, <2>1 DEF ResumableRejected
  <2>3. Resume(<<i>>)
    BY <2>1, <2>2 DEF Continue, Refused, AfterRejection
  <2>4. i \notin Over /\ \A j \in Begun : j < i
    BY <1>3, <1>4, <1>i DEF Ahead
  <2>5. DOMAIN <<i>> = {1} /\ <<i>>[1] = i
    OBVIOUS
  <2>6. Ahead(<<i>>, 1, Begun, Over) /\ \A r \in Rejected : \A k \in DOMAIN <<i>> : <<i>>[k] = r
    BY <1>7, <2>4, <2>5 DEF Ahead
  <2> QED
    BY <1>1, <1>2, <1>3, <1>5, <2>3, <2>6, ResumeLocal
<1> QED
  BY <1>3, <1>6, <1>7

\* In one process a verdict is followed by its continuation.
LEMMA LocalActs ==
  ASSUME OneProcess, Next
  PROVE  \/ verdicts = {} /\ (LoopAct \/ \E i \in Calls : ReviewAct(i))
         \/ \E v \in verdicts : Continue(v)
<1>1. "remote" \notin Env /\ "crash" \notin Env
  BY DEF OneProcess
<1>2. ~Crash /\ ~ReviewerCrash /\ (Settled <=> verdicts = {})
  BY <1>1 DEF Crash, ReviewerCrash, Settled
<1>3. CASE Settled /\ LoopStep
  BY <1>2, <1>3 DEF LoopStep, LoopAct
<1>4. CASE Settled /\ \E as \in {"failed", "cancelled"} : Interrupt(as)
  BY <1>2, <1>4 DEF LoopAct
<1>5. CASE Settled /\ \E i \in Calls : Review(i)
  BY <1>2, <1>5 DEF Review, ReviewAct
<1> QED
  BY <1>2, <1>3, <1>4, <1>5 DEF Next

LEMMA LocalStep == ASSUME OneProcess, LocalNow, [Next]_vars PROVE LocalInv'
<1>1. CASE ProviderResponds
  BY <1>1, RespondsLocal
<1>2. CASE ProviderFinal
  BY <1>2, GivenUpLocal DEF ProviderFinal, Waiting, work
<1>3. CASE ProviderRecovers
  BY <1>3, RecoversLocal
<1>4. CASE Preflight
  BY <1>4, PreflightLocal
<1>5. CASE StartBatch
  BY <1>5, StartBatchLocal
<1>6. CASE Invoke
  BY <1>6, InvokeLocal
<1>7. CASE Collect
  BY <1>7, CollectLocal
<1>8. CASE EndTurn
  BY <1>8, EndTurnLocal
<1>9. CASE Park
  BY <1>9, ParkLocal
<1>10. CASE \E c \in parking : SaveCheckpoint(c)
  BY <1>10, SaveLocal
<1>11. CASE \E i \in Calls : Launch(i)
  BY <1>11, LaunchLocal
<1>12. CASE \E i \in Calls : \E to \in {"finished", "failed"} : FinishTool(i, to)
  BY <1>12, FinishLocal
<1>13. CASE \E as \in {"failed", "cancelled"} : Interrupt(as)
  BY <1>13, GivenUpLocal DEF Interrupt, Fail, Waiting, work
<1>14. CASE verdicts = {} /\ \E i \in Calls : ReviewAct(i)
  BY <1>14, ReviewLocal
<1>15. CASE \E v \in verdicts : Continue(v)
  BY <1>15, ContinueLocal
<1>16. CASE UNCHANGED vars
  <2>1. UNCHANGED <<turn, table, status, checkpoint, pc, pending, pos, cleared, results, inflight, executing, execs,
                    parking, verdicts>>
    BY <1>16 DEF vars, loop, work
  <2>2. /\ Asked' = Asked /\ Rejected' = Rejected /\ Undecided' = Undecided /\ Over' = Over /\ AskRows'
        /\ \A i : Asking(i)' <=> Asking(i)
    BY <2>1, QuietRecords DEF LocalNow, LocalInv, Asking, table
  <2>3. Begun' = Begun
    BY <2>1, <2>2 DEF Begun
  <2>4. Works => Works'
    BY <2>1, <2>2, <2>3 DEF Works, Asking, table
  <2>5. \A c : Waits(c) => Waits(c)'
    BY <2>1, <2>2, <2>3 DEF Waits
  <2>6. Placed'
    BY <2>1, <2>2, <2>4, <2>5 DEF LocalNow, LocalInv, Placed
  <2> QED
    BY <2>2, <2>3, <2>6, LastKept DEF LocalNow, LocalInv
<1> QED
  BY <1>1, <1>2, <1>3, <1>4, <1>5, <1>6, <1>7, <1>8, <1>9, <1>10, <1>11, <1>12, <1>13, <1>14, <1>15,
     <1>16, LocalActs DEF LoopAct

LEMMA LocalInit == Init => LocalInv
<1> SUFFICES ASSUME Init PROVE LocalInv
  OBVIOUS
<1>1. Asked = {} /\ DOMAIN pending = {} /\ DOMAIN results = {} /\ DOMAIN cleared = {}
  BY DEF Init, Asked
<1>2. Begun = {} /\ Over = {} /\ Rejected = {} /\ Undecided = {}
  BY <1>1 DEF Init, Begun, Over, Rejected, Undecided
<1>3. Works
  BY <1>1, <1>2 DEF Init, Works, Ahead, Distinct, Members
<1>4. Placed
  BY <1>2, <1>3 DEF Init, Placed, Waiting
<1> QED
  BY <1>1, <1>2, <1>4 DEF LocalInv, AskRows, RejectedLast

LEMMA LocalHolds == ASSUME OneProcess PROVE Spec => []LocalInv
<1>1. Types /\ Untouched /\ PlaceInv /\ ApprovalInv /\ LocalInv /\ [Next]_vars => LocalInv'
  BY LocalStep DEF LocalNow
<1> QED
  BY <1>1, LocalInit, TypesHold, PlaceHolds, ApprovalsHold, PTL DEF Spec

\* After a deny or a timeout the later calls of the turn are not executed,
\* although the calls of a batch are launched by themselves: the loop asks
\* before it has cleared a later call, and goes on from a rejection with the
\* rejected call alone (resumeTaskAfterApprovalFailure).  A verdict that is
\* submitted again breaks it, see the run of the finding.
THEOREM RejectionStopsTurn == OneProcess => (Spec => []DenyStopsBatch)
<1> SUFFICES ASSUME OneProcess PROVE Spec => []DenyStopsBatch
  OBVIOUS
<1>1. Types /\ Untouched /\ PlaceInv /\ LocalInv => DenyStopsBatch
  <2> SUFFICES ASSUME Types, Untouched, PlaceInv, LocalInv,
                      NEW i \in Calls, NEW j \in Calls, approval[i] \in {"denied", "timed_out"}, i < j
               PROVE  execs[j] = 0
    BY DEF DenyStopsBatch
  <2>1. i \in Rejected
    BY DEF Untouched, Rejected
  <2>2. ~(j <= i)
    BY DEF Calls
  <2>3. j \notin Begun
    BY <2>1, <2>2 DEF LocalInv, RejectedLast
  <2>4. CASE j \in Asked
    BY <2>3, <2>4 DEF Begun, PlaceInv, Once
  <2>5. CASE j \notin Asked
    BY <2>5 DEF Untouched
  <2> QED
    BY <2>4, <2>5
<1> QED
  BY <1>1, TypesHold, PlaceHolds, LocalHolds, PTL

\* A task that waits has a checkpoint whose first call a reviewer can decide:
\* the status is written before the checkpoint and the checkpoint after the
\* record (tryPauseToolExecution), and no resumed loop leaves an older one.
THEOREM WaitingCanResume == OneProcess => (Spec => []ParkedResumable)
<1> SUFFICES ASSUME OneProcess PROVE Spec => []ParkedResumable
  OBVIOUS
<1>1. LocalInv => ParkedResumable
  <2> SUFFICES ASSUME LocalInv, status \in Waiting, parking = {}, verdicts = {}
               PROVE  /\ checkpoint # NoCheckpoint /\ checkpoint.pending # << >>
                      /\ status = "waiting_approval" => approval[checkpoint.pending[1]] = "pending"
                      /\ status # "waiting_approval" => prompt[checkpoint.pending[1]] = "pending"
    BY DEF ParkedResumable
  <2>1. Waits(checkpoint)
    BY DEF LocalInv, Placed
  <2>2. /\ Asking(checkpoint.pending[1])
        /\ status = "waiting_clarification" <=> turn[checkpoint.pending[1]] = "ask"
    BY <2>1 DEF Waits
  <2> QED
    BY <2>1, <2>2 DEF Waits, Asking, Waiting
<1> QED
  BY <1>1, LocalHolds, PTL

\* When the model is asked again after the turn, it is told of exactly the calls
\* that have come to an end, and of each of them once: however often the turn
\* was parked, and whichever of its calls ran in a batch.
THEOREM ToldOfEachCall == OneProcess => (Spec => []ResultsMatchRows)
<1> SUFFICES ASSUME OneProcess PROVE Spec => []ResultsMatchRows
  OBVIOUS
<1>1. Types /\ PlaceInv /\ LocalInv => ResultsMatchRows
  <2> SUFFICES ASSUME Types, PlaceInv, LocalInv, pc = "provider" PROVE
                 /\ \A i \in Asked : turn[i] # "ask" =>
                      (row[i] \in CallEnded <=> \E k \in DOMAIN results : results[k] = i)
                 /\ \A k, m \in DOMAIN results : results[k] = results[m] => k = m
    BY DEF ResultsMatchRows, Asked
  <2>1. Works
    BY WorksNow DEF PlaceInv, LocalInv
  <2>2. Members(results) = Over /\ Distinct(results)
    BY <2>1 DEF Works
  <2> QED
    BY <2>2 DEF Members, Over, Distinct
<1> QED
  BY <1>1, TypesHold, PlaceHolds, LocalHolds, PTL

-----------------------------------------------------------------------------
(* The calls of a turn are reviewed calls                                  *)

\* An outcome moves the approval of its call towards a verdict, by itself only
\* when its time is over, and leaves an ended row as it is.
LEMMA OutcomeMoves ==
  ASSUME Rows, NEW i \in Asked, NEW o \in Outcomes(i)
  PROVE  /\ row[i] \in CallEnded => o.row = row[i]
         /\ \/ o.approval = approval[i]
            \/ approval[i] = "none" /\ o.approval = "pending"
            \/ approval[i] = "pending" /\ o.approval = "timed_out"
<1>0. /\ Entered(i) = (IF row[i] = "none" THEN "requested" ELSE row[i])
      /\ row[i] \in CallStatus \cup {"none"} /\ Entered(i) \in CallStatus
  BY AskedCalls
<1>1. CASE row[i] \in {"failed", "finished"}
  BY <1>1, OutcomeIs
<1>2. CASE row[i] \notin {"failed", "finished"}
  <2>1. PICK v, to : /\ to \in CallStatus /\ Way(i, v, to, o.approval, o.prompt)
                     /\ \/ /\ o.verdict = v /\ o.row = to
                           /\ \/ CanMoveCall(Entered(i), to)
                              \/ Entered(i) = "requested" /\ (to = "approved" \/ turn[i] = "ask")
                        \/ o.verdict = "throw" /\ o.row = Entered(i)
    BY <1>2, OutcomeIs
  <2>2. row[i] \in CallEnded => o.row = row[i]
    BY <1>0, <1>2, <2>1, Moves DEF CallEnded
  <2>3. \/ o.approval = approval[i]
        \/ o.approval \in Read(approval[i])
    BY <2>1 DEF Way
  <2>4. \/ o.approval = approval[i]
        \/ approval[i] = "none" /\ o.approval = "pending"
        \/ approval[i] = "pending" /\ o.approval = "timed_out"
    BY <2>3, ReadIs
  <2> QED
    BY <2>2, <2>4
<1> QED
  BY <1>1, <1>2

\* The calls that are over, and those that need no reviewer.
CallsOver == {i \in Calls : row[i] \in CallEnded}
Exempt == {i \in DOMAIN turn : ~NeedsApproval(i)}

\* A step that stores an outcome is a request, a rejection, an end or none of
\* them ...
LEMMA StoreReviewed ==
  ASSUME Types, Once, Agree, NEW i \in Asked, NEW o \in Outcomes(i),
         row[i] = "started" => turn[i] = "ask", Store(i, o), UNCHANGED <<turn, execs>>
  PROVE  \/ AsReviewed!Request(i) \/ AsReviewed!Reject(i) \/ AsReviewed!End(i)
         \/ UNCHANGED AsReviewed!callVars
<1>1. /\ UNCHANGED ruled /\ Asked \subseteq Calls
      /\ row' = [row EXCEPT ![i] = o.row] /\ approval' = [approval EXCEPT ![i] = o.approval]
      /\ row \in [Calls -> CallStatus \cup {"none"}] /\ approval \in [Calls -> Approval] /\ i \in Calls
  BY AskedCalls DEF Store, Types, Rows
<1>2. Exempt' = Exempt /\ UNCHANGED execs
  BY <1>1 DEF Exempt, NeedsApproval
<1>3. row[i] \in CallEnded => o.row = row[i]
  BY OutcomeMoves DEF Types
<1>4. CallsOver' \in {CallsOver, CallsOver \cup {i}} /\ (CallsOver' = CallsOver \/ i \notin CallsOver)
      /\ (o.row \notin CallEnded => CallsOver' = CallsOver)
  <2>1. \A j \in Calls : j # i => row'[j] = row[j]
    BY <1>1
  <2>2. row'[i] = o.row
    BY <1>1
  <2> QED
    BY <1>1, <1>3, <2>1, <2>2 DEF CallsOver
<1>5. i \in CallsOver <=> row[i] \in CallEnded
  BY <1>1 DEF CallsOver
<1>6. execs[i] \in {0, 1} /\ (execs[i] = 1 => row[i] \in {"started", "finished", "failed"})
  BY DEF Once
<1>7. i \in Exempt <=> ~NeedsApproval(i)
  BY DEF Exempt, Types, Rows, Asked
<1>8. CASE o.approval = approval[i]
  <2>1. approval' = approval
    BY <1>1, <1>8
  <2>2. approval[i] = "pending" => CallsOver' = CallsOver
    <3>1. ASSUME approval[i] = "pending" PROVE o.row \notin CallEnded
      <4>1. Gated(turn[i]) /\ Legal(row[i], approval[i], turn[i] \in ruled) /\ row[i] # "started"
        BY <3>1 DEF Agree, Legal
      <4>2. Legal(o.row, o.approval, turn[i] \in ruled)
        BY <4>1, GatedOutcome DEF Types
      <4> QED
        BY <1>8, <3>1, <4>2 DEF Legal, CallEnded
    <3> QED
      BY <1>4, <3>1
  <2>3. CASE CallsOver' = CallsOver
    BY <1>2, <2>1, <2>3 DEF AsReviewed!callVars, CallsOver, Exempt
  <2>4. CASE CallsOver' # CallsOver
    BY <1>2, <1>4, <2>1, <2>2, <2>4 DEF AsReviewed!End, CallsOver, Exempt
  <2> QED
    BY <2>3, <2>4
<1>9. CASE approval[i] = "none" /\ o.approval = "pending"
  <2>1. Gated(turn[i])
    BY <1>9, UngatedOutcome DEF Types
  <2>2. Legal(row[i], approval[i], turn[i] \in ruled) /\ row[i] # "started"
    BY <2>1 DEF Agree, Gated
  <2>3. Legal(o.row, o.approval, turn[i] \in ruled)
    BY <2>1, <2>2, GatedOutcome DEF Types
  <2>4. o.row = "awaiting_approval" /\ turn[i] \notin ruled
    BY <1>9, <2>3 DEF Legal
  <2>5. row[i] \in {"none", "requested"}
    BY <1>3, <1>9, <2>2, <2>4 DEF Legal, CallEnded
  <2>6. i \notin CallsOver /\ execs[i] = 0 /\ NeedsApproval(i) /\ CallsOver' = CallsOver
    BY <1>4, <1>5, <1>6, <2>1, <2>4, <2>5 DEF CallEnded, NeedsApproval
  <2> QED
    BY <1>1, <1>2, <1>7, <1>9, <2>6 DEF AsReviewed!Request, AsReviewed!New, CallsOver, Exempt
<1>10. CASE approval[i] = "pending" /\ o.approval = "timed_out"
  <2>1. Gated(turn[i]) /\ Legal(row[i], approval[i], turn[i] \in ruled)
    BY <1>10 DEF Agree
  <2>2. row[i] = "awaiting_approval"
    BY <1>10, <2>1 DEF Legal
  <2>3. i \notin CallsOver /\ execs[i] = 0
    BY <1>5, <1>6, <2>2 DEF CallEnded
  <2> QED
    BY <1>1, <1>2, <1>4, <1>10, <2>3 DEF AsReviewed!Reject, AsReviewed!New, CallsOver, Exempt
<1> QED
  BY <1>8, <1>9, <1>10, OutcomeMoves DEF Types

\* ... and one that enters the tool is a start.
LEMMA StartReviewed ==
  ASSUME Types, Once, Agree, NEW i \in Asked, NEW o \in Outcomes(i),
         row[i] = "started" => turn[i] = "ask", Startable(o), StartTool(i),
         UNCHANGED <<turn, approval, ruled>>
  PROVE  AsReviewed!Start(i)
<1>1. /\ Asked \subseteq Calls /\ i \in Calls
      /\ row' = [row EXCEPT ![i] = "started"] /\ execs' = [execs EXCEPT ![i] = @ + 1]
      /\ row \in [Calls -> CallStatus \cup {"none"}] /\ o.row \in CallStatus
  BY AskedCalls, OutcomeTypes DEF StartTool, Types, Rows
<1>2. Exempt' = Exempt /\ (i \in Exempt <=> ~NeedsApproval(i))
  BY DEF Exempt, NeedsApproval, Types, Rows, Asked
<1>3. row[i] \notin CallEnded
  <2>1. o.verdict = "clear" /\ CanMoveCall(o.row, "started") /\ "started" \in CallStatus
    BY DEF Startable, CallStatus
  <2>2. o.row \notin CallEnded
    BY <1>1, <2>1, Moves DEF CallEnded
  <2> QED
    BY <2>2, OutcomeMoves DEF Types
<1>4. turn[i] # "ask" /\ row[i] \notin {"started", "finished", "failed"}
  BY Fresh DEF Types
<1>5. execs[i] = 0
  BY <1>4 DEF Once
<1>6. CallsOver' = CallsOver /\ i \notin CallsOver
  BY <1>1, <1>3 DEF CallsOver, CallEnded
<1>7. approval[i] = "approved" \/ (approval[i] = "none" /\ i \in Exempt)
  <2>1. CASE Gated(turn[i])
    <3>1. row[i] # "started" /\ Legal(row[i], approval[i], turn[i] \in ruled) /\ o.verdict = "clear"
      BY <1>4, <2>1 DEF Agree, Startable
    <3>2. approval[i] = "approved" \/ (approval[i] = "none" /\ turn[i] \in ruled)
      BY <2>1, <3>1, GatedOutcome DEF Types
    <3> QED
      BY <1>2, <3>2 DEF NeedsApproval
  <2>2. CASE ~Gated(turn[i])
    BY <1>2, <2>2 DEF Agree, NeedsApproval
  <2> QED
    BY <2>1, <2>2
<1> QED
  BY <1>1, <1>2, <1>5, <1>6, <1>7 DEF AsReviewed!Start, AsReviewed!New, CallsOver, Exempt

\* The tool returns.
LEMMA FinishReviewed ==
  ASSUME Types, Once, Agree, NEW i \in Calls, NEW to \in {"finished", "failed"}, FinishTool(i, to)
  PROVE  AsReviewed!End(i)
<1>1. /\ i \in executing /\ i \in Asked /\ row' = [row EXCEPT ![i] = to]
      /\ UNCHANGED <<turn, approval, ruled, execs>>
      /\ row \in [Calls -> CallStatus \cup {"none"}]
  BY DEF FinishTool, Types, Rows, Shapes
<1>2. row[i] = "started"
  BY <1>1 DEF Once
<1>3. approval[i] # "pending"
  BY <1>1, <1>2 DEF Agree, Legal
<1>4. i \notin CallsOver /\ CallsOver' = CallsOver \cup {i}
  BY <1>1, <1>2 DEF CallsOver, CallEnded
<1>5. Exempt' = Exempt
  BY <1>1 DEF Exempt, NeedsApproval
<1> QED
  BY <1>1, <1>3, <1>4, <1>5 DEF AsReviewed!End, CallsOver, Exempt

\* The reviewers decide what is pending, or say again what they decided.
LEMMA ReviewReviewed ==
  ASSUME Types, Untouched, Once, Agree, NEW i \in Calls, ReviewAct(i)
  PROVE  \/ AsReviewed!Allow(i) \/ AsReviewed!Reject(i) \/ AsReviewed!End(i)
         \/ UNCHANGED AsReviewed!callVars
<1>0. i \in Asked /\ turn' = turn /\ execs' = execs
  BY Reviewed DEF work
<1>t. approval \in [Calls -> Approval] /\ row \in [Calls -> CallStatus \cup {"none"}]
  BY DEF Types, Rows
\* what is pending has not begun
<1>k. approval[i] = "pending" => i \notin CallsOver /\ execs[i] = 0
  <2> SUFFICES ASSUME approval[i] = "pending" PROVE i \notin CallsOver /\ execs[i] = 0
    OBVIOUS
  <2>1. row[i] = "awaiting_approval"
    BY <1>0 DEF Agree, Legal
  <2> QED
    BY <1>0, <2>1 DEF Once, CallsOver, CallEnded
<1>1. ASSUME NEW scope \in {"once", "session"}, Allow(i, scope) PROVE AsReviewed!Allow(i)
  <2>1. /\ approval[i] = "pending" /\ approval' = [approval EXCEPT ![i] = "approved"] /\ row' = row
        /\ ruled' = ruled \/ ruled' = ruled \cup {turn[i]}
    BY <1>1 DEF Allow, UnchangedByReview
  <2>2. CallsOver' = CallsOver
    BY <2>1 DEF CallsOver
  <2>3. Exempt \subseteq Exempt'
    BY <1>0, <2>1 DEF Exempt, NeedsApproval
  <2>4. Exempt' \in SUBSET Calls
    BY <1>0, AskedCalls DEF Exempt, Types, Rows, Asked
  <2> QED
    BY <1>0, <1>k, <2>1, <2>2, <2>3, <2>4 DEF AsReviewed!Allow, AsReviewed!New, CallsOver, Exempt
<1>2. ASSUME NEW as \in {"denied", "timed_out"}, Reject(i, as)
      PROVE  AsReviewed!Reject(i) \/ UNCHANGED AsReviewed!callVars
  <2>1. /\ approval[i] \in {"pending", as} /\ approval' = [approval EXCEPT ![i] = as]
        /\ row' = row /\ ruled' = ruled
    BY <1>2 DEF Reject, UnchangedByReview
  <2>2. CallsOver' = CallsOver /\ Exempt' = Exempt
    BY <1>0, <2>1 DEF CallsOver, Exempt, NeedsApproval
  <2>3. CASE approval[i] = "pending"
    BY <1>0, <1>k, <2>1, <2>2, <2>3 DEF AsReviewed!Reject, AsReviewed!New, CallsOver, Exempt
  <2>4. CASE approval[i] = as
    <3>1. approval' = approval
      BY <1>t, <2>1, <2>4
    <3> QED
      BY <1>0, <2>2, <3>1 DEF AsReviewed!callVars, CallsOver, Exempt
  <2> QED
    BY <2>1, <2>3, <2>4
<1>3. CASE Answer(i) \/ Cancel(i) \/ ExpirePrompt(i)
  <2>1. /\ approval' = approval /\ ruled' = ruled /\ prompt[i] # "none"
        /\ \/ row' = row
           \/ row' = [row EXCEPT ![i] = "timed_out"] /\ CanMoveCall(row[i], "timed_out")
    BY <1>3 DEF Answer, Cancel, ExpirePrompt, Decidable, UnchangedByReview
  <2>2. turn[i] = "ask" /\ approval[i] = "none"
    BY <1>0, <2>1 DEF Once, Agree, Gated
  <2>3. Exempt' = Exempt
    BY <1>0, <2>1 DEF Exempt, NeedsApproval
  <2>4. CallsOver' = CallsOver \/ (i \notin CallsOver /\ CallsOver' = CallsOver \cup {i})
    <3>1. CASE row' = row
      BY <3>1 DEF CallsOver
    <3>2. CASE row' = [row EXCEPT ![i] = "timed_out"]
      <4>1. \A j \in Calls : j \in CallsOver' <=> j \in CallsOver \/ j = i
        BY <1>t, <3>2 DEF CallsOver, CallEnded
      <4> QED
        BY <4>1 DEF CallsOver
    <3> QED
      BY <2>1, <3>1, <3>2
  <2> QED
    BY <1>0, <2>1, <2>2, <2>3, <2>4 DEF AsReviewed!End, AsReviewed!callVars, CallsOver, Exempt
<1> QED
  BY <1>1, <1>2, <1>3 DEF ReviewAct

\* The model asks for its calls, of which nothing is on record.
LEMMA AskReviewed ==
  ASSUME Types, Untouched, Types', ProviderResponds
  PROVE  AsReviewed!Ask
<1>1. Asked = {} /\ turn = << >> /\ UNCHANGED <<row, approval, execs>>
  BY DEF ProviderResponds, Asked, table, work
<1>2. \A i \in Calls : row[i] = "none" /\ approval[i] = "none" /\ execs[i] = 0
  BY <1>1 DEF Untouched
<1>3. approval = [i \in Calls |-> "none"] /\ execs = [i \in Calls |-> 0]
  BY <1>2 DEF Types, Rows
<1>4. CallsOver = {} /\ CallsOver' = CallsOver /\ Exempt = {}
  BY <1>1, <1>2 DEF CallsOver, Exempt, CallEnded
<1>5. Exempt' \in SUBSET Calls
  BY CallsAssumption DEF Exempt, Types, Rows, Calls
<1> QED
  BY <1>1, <1>3, <1>4, <1>5 DEF AsReviewed!Ask, AsReviewed!Init, CallsOver, Exempt

LEMMA ReviewedStep ==
  ASSUME Types, Untouched, PlaceInv, ApprovalInv, [Next]_vars
  PROVE  [AsReviewed!Next]_(AsReviewed!callVars)
<1> USE DEF table, loop, work
<1>i. Once /\ Agree /\ LoopPlace /\ Stuck
  BY DEF PlaceInv, ApprovalInv
<1>a. Asked \subseteq Calls
  BY AskedCalls DEF Types
<1>k. UNCHANGED <<turn, row, approval, ruled, execs>> => UNCHANGED AsReviewed!callVars
  BY DEF AsReviewed!callVars, NeedsApproval
<1>1. CASE ProviderResponds
  <2>1. Types'
    BY TypesStep
  <2> QED
    BY <1>1, <2>1, AskReviewed DEF AsReviewed!Next
<1>2. CASE \/ ProviderFinal \/ ProviderRecovers \/ StartBatch \/ Collect \/ EndTurn \/ Park
           \/ \E c \in parking : SaveCheckpoint(c)
           \/ \E as \in {"failed", "cancelled"} : Interrupt(as)
           \/ \E v \in verdicts : Continue(v)
           \/ Crash \/ ReviewerCrash \/ UNCHANGED vars
  BY <1>2, <1>k DEF ProviderFinal, ProviderRecovers, StartBatch, Collect, EndTurn, Park, SaveCheckpoint,
                    Interrupt, Continue, Crash, ReviewerCrash, vars
<1>3. CASE Preflight
  <2>1. /\ Current \in Asked /\ pc \in {"calls", "preflight"}
        /\ UNCHANGED <<turn, execs>>
    BY <1>3, PreflightPlace
  <2>2. PICK o \in Outcomes(Current) : Store(Current, o)
    BY <1>3, PreflightPlace
  <2>3. row[Current] = "started" => turn[Current] = "ask"
    BY <1>i, <2>1, NotStarted
  <2> QED
    BY <1>a, <1>i, <2>1, <2>2, <2>3, StoreReviewed DEF AsReviewed!Next
<1>4. CASE Invoke
  <2>1. /\ Current \in Asked /\ pc = "calls" /\ turn' = turn
    BY <1>4, InvokePlace
  <2>2. PICK o \in Outcomes(Current) :
             \/ Startable(o) /\ StartTool(Current) /\ UNCHANGED <<approval, ruled>>
             \/ Store(Current, o) /\ execs' = execs
    BY <1>4, InvokePlace
  <2>3. row[Current] = "started" => turn[Current] = "ask"
    BY <1>i, <2>1, NotStarted
  <2>4. CASE Startable(o) /\ StartTool(Current) /\ UNCHANGED <<approval, ruled>>
    BY <1>a, <1>i, <2>1, <2>3, <2>4, StartReviewed DEF AsReviewed!Next
  <2>5. CASE Store(Current, o) /\ execs' = execs
    BY <1>a, <1>i, <2>1, <2>3, <2>5, StoreReviewed DEF AsReviewed!Next
  <2> QED
    BY <2>2, <2>4, <2>5
<1>5. ASSUME NEW i \in Calls, Launch(i) PROVE AsReviewed!Next \/ UNCHANGED AsReviewed!callVars
  <2>1. i \in Asked /\ i \in inflight /\ turn' = turn
    BY <1>5, LaunchPlace
  <2>2. PICK o \in Outcomes(i) :
             \/ Startable(o) /\ StartTool(i) /\ UNCHANGED <<approval, ruled>>
             \/ Store(i, o) /\ execs' = execs
    BY <1>5, LaunchPlace
  <2>3. row[i] = "started" => turn[i] = "ask"
    BY <1>i, <2>1, NotStarted
  <2>4. CASE Startable(o) /\ StartTool(i) /\ UNCHANGED <<approval, ruled>>
    BY <1>i, <2>1, <2>3, <2>4, StartReviewed DEF AsReviewed!Next
  <2>5. CASE Store(i, o) /\ execs' = execs
    BY <1>i, <2>1, <2>3, <2>5, StoreReviewed DEF AsReviewed!Next
  <2> QED
    BY <2>2, <2>4, <2>5
<1>6. ASSUME NEW i \in Calls, NEW to \in {"finished", "failed"}, FinishTool(i, to) PROVE AsReviewed!Next
  BY <1>6, <1>i, FinishReviewed DEF AsReviewed!Next
<1>7. ASSUME NEW i \in Calls, ReviewAct(i) PROVE AsReviewed!Next \/ UNCHANGED AsReviewed!callVars
  BY <1>7, <1>i, ReviewReviewed DEF AsReviewed!Next
<1> QED
  BY <1>1, <1>2, <1>3, <1>4, <1>5, <1>6, <1>7, Acts DEF LoopAct

\* A turn implements ReviewedCall: however it is parked, resumed from whatever
\* checkpoint, reviewed and cut by crashes, each of its steps is a step of one
\* reviewed call, or none (ToolOrchestrator.execute and the resolution facades).
THEOREM CallsAreReviewed == Spec => CallSpec
<1>1. Init => AsReviewed!Init
  BY DEF Init, AsReviewed!Init, CallEnded
<1>2. Types /\ Untouched /\ PlaceInv /\ ApprovalInv /\ [Next]_vars => [AsReviewed!Next]_(AsReviewed!callVars)
  BY ReviewedStep
<1> QED
  BY <1>1, <1>2, TypesHold, PlaceHolds, ApprovalsHold, PTL DEF Spec, CallSpec, AsReviewed!Spec

=============================================================================
