-------------------------- MODULE Requests_proofs ---------------------------
(***************************************************************************)
(* Theorems about what a task asks of others: ModelCalls, for any tasks,   *)
(* sessions, models and limits, AgentLoop, for any number of iterations,   *)
(* calls and pauses, and McpLink, for any number of callers, children,     *)
(* requests and closes.                                                    *)
(***************************************************************************)
EXTENDS ModelCalls, AgentLoop, McpLink, FiniteSetTheorems, TLAPS

-----------------------------------------------------------------------------
(* Requests to models: the model in force.                                 *)

\* Kernel, router and auxiliary slots are only ever written together, whatever
\* the order of the steps in which switches and clears take effect.
THEOREM ModelsAgree == CallSpec => []OneModelInForce
<1>1. CallInit => OneModelInForce
  BY DEF CallInit, OneModelInForce
<1>2. OneModelInForce /\ [CallNext]_callVars => OneModelInForce'
  <2> SUFFICES ASSUME OneModelInForce, [CallNext]_callVars PROVE OneModelInForce'
    OBVIOUS
  <2>1. CASE UNCHANGED inForce
    BY <2>1 DEF OneModelInForce, inForce
  <2>2. ASSUME NEW m, NEW chosen \in BOOLEAN, PutInForce(m, chosen) PROVE OneModelInForce'
    BY <2>2 DEF OneModelInForce, PutInForce
  <2>3. CASE SwitchEnd
    BY <2>2, <2>3 DEF SwitchEnd
  <2>4. CASE \E s \in Sessions : ClearEnd(s)
    BY <2>2, <2>4 DEF ClearEnd
  <2>5. QED
    BY <2>1, <2>3, <2>4 DEF CallNext, ModelChange, TaskCalls, StartTask, Request, NextCandidate,
       GiveUp, Answer, ToolsDone, SwitchBegin, ClearBegin, callVars, inForce
<1>3. QED
  BY <1>1, <1>2, PTL DEF CallSpec

-----------------------------------------------------------------------------
(* Requests to models: the types.                                          *)

Record(t) == [stage |-> call[t].stage, model |-> call[t].model, later |-> call[t].later,
              at |-> call[t].at, attempt |-> call[t].attempt]

\* CallTypeOK says nothing of the shape of call, which the steps build on.
CallTypeInv == CallTypeOK /\ call = [t \in Tasks |-> Record(t)]

\* No task is in a request, and every ledger is empty.
LEMMA InitCallType == CallInit => CallTypeInv
BY DEF CallInit, CallTypeInv, CallTypeOK, Record, Between, At, Stages, NoSwitch

\* The router chooses among the models.
LEMMA TierModelIsModel ==
  ASSUME CallTypeOK, NEW tier \in {"cheap", "balanced", "quality"}
  PROVE  TierModel(tier) \in Models
BY CallAssumption DEF CallTypeOK, TierModel, Configured

\* The model in force for a main call is a model.
LEMMA MainModelIsModel ==
  ASSUME CallTypeOK, NEW t \in Tasks
  PROVE  MainModel(t) \in Models
BY TierModelIsModel, CallAssumption DEF MainModel, CallTypeOK

\* What a step of a task puts into its request.
CallRecord(c) ==
  /\ c = [stage |-> c.stage, model |-> c.model, later |-> c.later, at |-> c.at, attempt |-> c.attempt]
  /\ c.stage \in Stages /\ c.attempt \in 0..2 /\ c.at \in Nat
  /\ c.model \in IF c.stage = "asking" THEN Models ELSE {NoModel}

\* A call that is set to a record stays well-typed.
LEMMA SetCallType ==
  ASSUME CallTypeInv, NEW t \in Tasks, NEW c, CallRecord(c), SetCall(t, c)
  PROVE  /\ \A u \in Tasks : CallRecord(call'[u])
         /\ call' = [u \in Tasks |-> Record(u)']
<1>1. \A u \in Tasks : CallRecord(call[u])
  BY DEF CallTypeInv, CallTypeOK, CallRecord, Record, At
<1>2. \A u \in Tasks : call'[u] = IF u = t THEN c ELSE call[u]
  BY DEF CallTypeInv, SetCall
<1>3. \A u \in Tasks : CallRecord(call'[u])
  BY <1>1, <1>2
<1>4. call' = [u \in Tasks |-> call'[u]]
  BY DEF CallTypeInv, SetCall
<1>5. QED
  BY <1>3, <1>4 DEF CallRecord, Record

\* A task that is between two requests has a well-typed record ...
LEMMA BetweenType == \A stage \in Stages \ {"asking"} : CallRecord(Between(stage))
BY DEF Between, CallRecord, Stages

\* ... and so has one that asks.
LEMMA AskingType == \A m \in Models, n \in 1..2 : CallRecord(Asking(m, n))
BY DEF Asking, CallRecord, Stages

\* A step of a task leaves its request and the ledgers well-typed.
LEMMA TaskCallsType ==
  ASSUME CallTypeInv, NEW t \in Tasks, TaskCalls(t) PROVE CallTypeInv'
<1>0. CallRecord(call[t])
  BY DEF CallTypeInv, CallTypeOK, CallRecord, Record, At
<1>1. ASSUME NEW c, CallRecord(c), SetCall(t, c),
             UNCHANGED <<ledgers, inForce, default, sessionModel, switch, clearing>>
      PROVE  CallTypeInv'
  <2>1. (\A u \in Tasks : CallRecord(call'[u])) /\ call' = [u \in Tasks |-> Record(u)']
    BY <1>1, SetCallType
  <2>2. QED
    BY <1>1, <2>1 DEF CallTypeInv, CallTypeOK, CallRecord, At, ledgers, inForce
<1>2. CASE StartTask(t)
  BY <1>1, <1>2, BetweenType DEF StartTask, Stages
<1>3. CASE Request(t)
  BY <1>1, <1>3, AskingType, MainModelIsModel DEF Request, CallTypeInv
<1>4. CASE NextCandidate(t)
  <2>1. CallRecord([call[t] EXCEPT !.at = @ + 1])
    BY <1>0 DEF CallRecord
  <2>2. QED
    BY <1>1, <1>4, <2>1 DEF NextCandidate
<1>5. CASE ToolsDone(t)
  BY <1>1, <1>5, BetweenType DEF ToolsDone, Stages
<1>6. ASSUME NEW error \in Outcomes, GiveUp(t, error) PROVE CallTypeInv'
  <2>1. CASE SetCall(t, Asking(call[t].model, 2))
    <3>1. call[t].model \in Models
      BY <1>0, <1>6 DEF GiveUp, At, CallRecord
    <3>2. QED
      BY <1>1, <1>6, <2>1, <3>1, AskingType DEF GiveUp
  <2>2. CASE SetCall(t, Between("failed"))
    BY <1>1, <1>6, <2>2, BetweenType DEF GiveUp, Stages
  <2>3. QED
    BY <1>6, <2>1, <2>2 DEF GiveUp
<1>7. ASSUME NEW use \in 0..MaxUse, Answer(t, use) PROVE CallTypeInv'
  <2>1. PICK next \in {"overspent", "ready", "tools", "done"} : SetCall(t, Between(next))
    BY <1>7 DEF Answer
  <2>2. (\A u \in Tasks : CallRecord(call'[u])) /\ call' = [u \in Tasks |-> Record(u)']
    BY <2>1, SetCallType, BetweenType DEF Stages
  <2>3. SessionOf[t] \in Sessions /\ use \in Nat
    BY <1>7, CallAssumption
  <2>4. /\ taskUsed' \in [Tasks -> Nat] /\ sessionUsed' \in [Sessions -> Nat] /\ spent' \in [Sessions -> Nat]
        /\ taskDown' \subseteq Tasks /\ sessionDown' \subseteq Sessions
    BY <1>7, <2>3 DEF Answer, CallTypeInv, CallTypeOK
  <2>5. QED
    BY <1>7, <2>2, <2>4 DEF Answer, CallTypeInv, CallTypeOK, CallRecord, At, inForce
<1>8. QED
  BY <1>2, <1>3, <1>4, <1>5, <1>6, <1>7 DEF TaskCalls

\* Switches and clears write models.
LEMMA ModelChangeType == CallTypeInv /\ ModelChange => CallTypeInv'
<1> SUFFICES ASSUME CallTypeInv, ModelChange PROVE CallTypeInv'
  OBVIOUS
<1>1. UNCHANGED <<call, ledgers>>
  BY DEF ModelChange, SwitchBegin, SwitchEnd, ClearBegin, ClearEnd
<1>2. call' = [t \in Tasks |-> Record(t)'] /\ \A t \in Tasks : At(t, "asking")' = At(t, "asking")
  BY <1>1 DEF CallTypeInv, Record, At
<1>3. ASSUME NEW m \in Models, NEW scope \in Sessions \cup {Config}, SwitchBegin(m, scope) PROVE CallTypeInv'
  BY <1>1, <1>2, <1>3 DEF SwitchBegin, CallTypeInv, CallTypeOK, ledgers, inForce
<1>4. CASE SwitchEnd
  <2>1. switch.model \in Models
    BY <1>4 DEF SwitchEnd, CallTypeInv, CallTypeOK, NoSwitch
  <2>2. QED
    BY <1>1, <1>2, <1>4, <2>1 DEF SwitchEnd, PutInForce, NoSwitch, CallTypeInv, CallTypeOK, ledgers
<1>5. ASSUME NEW s \in Sessions, ClearBegin(s) PROVE CallTypeInv'
  BY <1>1, <1>2, <1>5 DEF ClearBegin, CallTypeInv, CallTypeOK, ledgers, inForce
<1>6. ASSUME NEW s \in Sessions, ClearEnd(s) PROVE CallTypeInv'
  <2>1. clearing[s] \in Models
    BY <1>6 DEF ClearEnd, CallTypeInv, CallTypeOK
  <2>2. QED
    BY <1>1, <1>2, <1>6, <2>1 DEF ClearEnd, PutInForce, CallTypeInv, CallTypeOK, ledgers
<1>7. QED
  BY <1>3, <1>4, <1>5, <1>6 DEF ModelChange

\* Every step keeps the types.
LEMMA CallTypeStep == CallTypeInv /\ [CallNext]_callVars => CallTypeInv'
<1> SUFFICES ASSUME CallTypeInv, [CallNext]_callVars PROVE CallTypeInv'
  OBVIOUS
<1>1. CASE UNCHANGED callVars
  BY <1>1 DEF CallTypeInv, CallTypeOK, Record, At, callVars
<1>2. QED
  BY <1>1, TaskCallsType, ModelChangeType DEF CallNext

\* In every behaviour the variables keep their types: a request has a model
\* exactly while it is made, and every model in force is one of the configured.
THEOREM CallTypeCorrect == CallSpec => []CallTypeOK
<1>1. CallTypeInv => CallTypeOK
  BY DEF CallTypeInv
<1>2. QED
  BY <1>1, InitCallType, CallTypeStep, PTL DEF CallSpec

-----------------------------------------------------------------------------
(* Requests to models: the downgrade.                                      *)

\* A ledger between its limits has set its flag, and flags stay set.
FlagsSet ==
  /\ \A t \in Tasks : InBand(taskUsed[t], TaskSoft, TaskHard) => t \in taskDown
  /\ \A s \in Sessions : InBand(sessionUsed[s], SessionSoft, SessionHard) => s \in sessionDown

\* Empty ledgers are below the band.
LEMMA InitFlagsSet == CallInit => FlagsSet
BY DEF CallInit, FlagsSet, InBand

\* Only an answer moves a ledger, and its verdict sets the flag.
LEMMA CallFlagsStep == CallTypeInv /\ FlagsSet /\ [CallNext]_callVars => FlagsSet'
<1> SUFFICES ASSUME CallTypeInv, FlagsSet, [CallNext]_callVars PROVE FlagsSet'
  OBVIOUS
<1>1. CASE UNCHANGED ledgers
  BY <1>1 DEF FlagsSet, InBand, ledgers
<1>2. ASSUME NEW t \in Tasks, NEW use \in 0..MaxUse, Answer(t, use) PROVE FlagsSet'
  <2> DEFINE s == SessionOf[t]
             mine == taskUsed[t] + use
             ours == sessionUsed[s] + use
  <2>1. s \in Sessions /\ mine \in Nat /\ ours \in Nat
    BY CallAssumption DEF CallTypeInv, CallTypeOK
  <2>2. ASSUME NEW u \in Tasks, InBand(taskUsed[u], TaskSoft, TaskHard)' PROVE u \in taskDown'
    <3>1. CASE u = t
      BY <1>2, <2>1, <2>2, <3>1, CallAssumption DEF Answer, Verdict, InBand, CallTypeInv, CallTypeOK
    <3>2. CASE u # t
      BY <1>2, <2>2, <3>2 DEF Answer, FlagsSet, InBand, CallTypeInv, CallTypeOK
    <3>3. QED
      BY <3>1, <3>2
  <2>3. ASSUME NEW r \in Sessions, InBand(sessionUsed[r], SessionSoft, SessionHard)' PROVE r \in sessionDown'
    <3>1. CASE r = s /\ Verdict(mine, TaskSoft, TaskHard) # "hard"
      BY <1>2, <2>1, <2>3, <3>1, CallAssumption DEF Answer, Verdict, InBand, CallTypeInv, CallTypeOK
    <3>2. CASE r # s \/ Verdict(mine, TaskSoft, TaskHard) = "hard"
      BY <1>2, <2>3, <3>2 DEF Answer, FlagsSet, InBand, CallTypeInv, CallTypeOK
    <3>3. QED
      BY <3>1, <3>2
  <2>4. QED
    BY <2>2, <2>3 DEF FlagsSet
<1>3. QED
  BY <1>1, <1>2 DEF CallNext, ModelChange, TaskCalls, StartTask, Request, NextCandidate,
     GiveUp, ToolsDone, SwitchBegin, SwitchEnd, ClearBegin, ClearEnd, callVars, ledgers

\* A request that starts while a ledger is in the band goes to the cheap tier.
LEMMA RequestObeys ==
  ASSUME CallTypeInv, FlagsSet, [CallNext]_callVars, NEW t \in Tasks,
         At(t, "ready"), call'[t].stage = "asking",
         \/ InBand(taskUsed[t], TaskSoft, TaskHard)
         \/ InBand(sessionUsed[SessionOf[t]], SessionSoft, SessionHard)
  PROVE  call'[t].model = TierModel("cheap")
<1>1. SessionOf[t] \in Sessions
  BY CallAssumption
<1>2. Downgraded(t)
  BY <1>1 DEF FlagsSet, Downgraded
<1>3. call'[t] # call[t]
  BY DEF At
<1>4. PICK u \in Tasks : TaskCalls(u)
  BY <1>3 DEF CallNext, callVars, ModelChange, SwitchBegin, SwitchEnd, ClearBegin, ClearEnd
<1>5. \A c : SetCall(u, c) => u = t /\ call'[t] = c
  BY <1>3 DEF SetCall, CallTypeInv
<1>6. PICK c : SetCall(u, c)
  BY <1>4 DEF TaskCalls, StartTask, Request, NextCandidate, GiveUp, Answer, ToolsDone
<1>7. u = t
  BY <1>5, <1>6
<1>8. Request(t)
  BY <1>4, <1>5, <1>7 DEF TaskCalls, StartTask, NextCandidate, GiveUp, Answer, ToolsDone, At, Between
<1>9. call'[t] = Asking(MainModel(t), 1)
  BY <1>5, <1>7, <1>8 DEF Request
<1>10. QED
  BY <1>2, <1>9 DEF MainModel, Asking

\* Whichever task of a session was charged, whatever was switched to: requests
\* between the limits are made to the cheap tier.
THEOREM DowngradeObeyed == CallSpec => DowngradeHolds
<1>1. CallTypeInv /\ FlagsSet /\ [CallNext]_callVars =>
        [\A t \in Tasks :
          /\ At(t, "ready") /\ call'[t].stage = "asking"
          /\ \/ InBand(taskUsed[t], TaskSoft, TaskHard)
             \/ InBand(sessionUsed[SessionOf[t]], SessionSoft, SessionHard)
          => call'[t].model = TierModel("cheap")]_callVars
  BY RequestObeys
<1>2. QED
  BY <1>1, InitCallType, CallTypeStep, InitFlagsSet, CallFlagsStep, PTL DEF CallSpec, DowngradeHolds

-----------------------------------------------------------------------------
(* Requests to models: the budget of a session.                            *)

\* What was really used, against the ledger of the session and against its limit.
SpendAccounted ==
  \A s \in Sessions :
    /\ spent[s] <= sessionUsed[s] + MaxUse * Cardinality(Overspent(s))
    /\ spent[s] <= SessionHard - 1 + MaxUse * Cardinality(Overspent(s))

\* What was overspent by the tasks of a session is finite.
LEMMA OverspentFinite == ASSUME NEW s PROVE /\ IsFiniteSet(Overspent(s))
                                           /\ Cardinality(Overspent(s)) \in Nat
<1>1. Overspent(s) \subseteq Tasks
  BY DEF Overspent
<1>2. QED
  BY <1>1, TaskAssumption, FS_Subset, FS_CardinalityType

\* The product with the next number, which the provers do not find in a larger goal.
LEMMA MultiplyNext == \A a, b \in Nat : a * (b + 1) = a * b + a /\ a * b \in Nat
OBVIOUS

\* Nothing is spent at first.
LEMMA InitSpendAccounted == CallInit => SpendAccounted
<1> SUFFICES ASSUME CallInit, NEW s \in Sessions
             PROVE  /\ spent[s] <= sessionUsed[s] + MaxUse * Cardinality(Overspent(s))
                    /\ spent[s] <= SessionHard - 1 + MaxUse * Cardinality(Overspent(s))
  BY DEF SpendAccounted
<1>1. MaxUse * Cardinality(Overspent(s)) \in Nat
  BY CallAssumption, OverspentFinite, MultiplyNext
<1>2. QED
  BY <1>1, CallAssumption DEF CallInit

\* Who has been ended by the budget stays so.
LEMMA OverspentStays ==
  ASSUME CallTypeInv, [CallNext]_callVars, NEW s \in Sessions
  PROVE  Overspent(s) \subseteq Overspent(s)'
<1> SUFFICES ASSUME NEW t \in Tasks, At(t, "overspent") PROVE At(t, "overspent")'
  BY DEF Overspent
<1>1. ASSUME NEW u \in Tasks, TaskCalls(u) PROVE At(t, "overspent")'
  <2>1. u # t
    BY <1>1 DEF TaskCalls, StartTask, Request, NextCandidate, GiveUp, Answer, ToolsDone, At
  <2>2. PICK c : SetCall(u, c)
    BY <1>1 DEF TaskCalls, StartTask, Request, NextCandidate, GiveUp, Answer, ToolsDone
  <2>3. QED
    BY <2>1, <2>2 DEF SetCall, At, CallTypeInv
<1>2. CASE UNCHANGED call
  BY <1>2 DEF At
<1>3. QED
  BY <1>1, <1>2 DEF CallNext, ModelChange, SwitchBegin, SwitchEnd, ClearBegin, ClearEnd, callVars

\* Every session still pays no more than one answer for each task that the budget
\* ended: an answer that is not charged to the session ends its task.
LEMMA SpendAccountedStep == CallTypeInv /\ SpendAccounted /\ [CallNext]_callVars => SpendAccounted'
<1> SUFFICES ASSUME CallTypeInv, SpendAccounted, [CallNext]_callVars, NEW s \in Sessions
             PROVE  /\ spent[s]' <= sessionUsed[s]' + MaxUse * Cardinality(Overspent(s)')
                    /\ spent[s]' <= SessionHard - 1 + MaxUse * Cardinality(Overspent(s)')
  BY DEF SpendAccounted
<1> DEFINE n == Cardinality(Overspent(s))
<1>1. PICK m : m = Cardinality(Overspent(s)')
  OBVIOUS
<1>2. PICK k : k = n
  OBVIOUS
<1>3. IsFiniteSet(Overspent(s)')
  <2>1. Overspent(s)' \subseteq Tasks
    BY DEF Overspent
  <2>2. QED
    BY <2>1, TaskAssumption, FS_Subset
<1>4. k \in Nat /\ m \in Nat /\ k <= m
  BY <1>1, <1>2, <1>3, OverspentFinite, OverspentStays, FS_CardinalityType, FS_Subset
<1>5. MaxUse * k \in Nat /\ MaxUse * m \in Nat /\ MaxUse * k <= MaxUse * m
  BY <1>4, CallAssumption
<1>6. /\ spent[s] \in Nat /\ sessionUsed[s] \in Nat
      /\ spent[s] <= sessionUsed[s] + MaxUse * k /\ spent[s] <= SessionHard - 1 + MaxUse * k
  BY <1>2 DEF SpendAccounted, CallTypeInv, CallTypeOK
<1>7. CASE spent'[s] = spent[s] /\ sessionUsed'[s] = sessionUsed[s]
  BY <1>1, <1>5, <1>6, <1>7, CallAssumption
<1>8. ASSUME NEW t \in Tasks, NEW use \in 0..MaxUse, Answer(t, use), SessionOf[t] = s
      PROVE  /\ spent'[s] <= sessionUsed'[s] + MaxUse * m
             /\ spent'[s] <= SessionHard - 1 + MaxUse * m
  <2>1. spent'[s] = spent[s] + use /\ sessionUsed'[s] \in {sessionUsed[s], sessionUsed[s] + use}
    BY <1>8 DEF Answer, CallTypeInv, CallTypeOK
  <2>2. CASE SetCall(t, Between("overspent"))
    <3>1. t \notin Overspent(s)
      BY <1>8 DEF Answer, At, Overspent
    <3>2. Overspent(s) \cup {t} \subseteq Overspent(s)'
      <4>1. t \in Overspent(s)'
        BY <1>8, <2>2 DEF Overspent, SetCall, At, Between, CallTypeInv
      <4>2. QED
        BY <4>1, OverspentStays
    <3>3. Cardinality(Overspent(s) \cup {t}) = k + 1
      BY <1>2, <3>1, OverspentFinite, FS_AddElement
    <3>4. k + 1 <= m
      BY <1>1, <1>3, <3>2, <3>3, FS_Subset
    <3>5. MaxUse * k + MaxUse <= MaxUse * m
      BY <1>4, <3>4, CallAssumption
    <3>6. QED
      BY <1>5, <1>6, <2>1, <3>5, CallAssumption
  <2>3. CASE ~SetCall(t, Between("overspent"))
    <3>1. /\ sessionUsed'[s] = sessionUsed[s] + use
          /\ Verdict(sessionUsed[s] + use, SessionSoft, SessionHard) # "hard"
      BY <1>8, <2>3 DEF Answer, CallTypeInv, CallTypeOK
    <3>2. sessionUsed[s] + use <= SessionHard - 1
      BY <1>6, <3>1, CallAssumption DEF Verdict
    <3>3. QED
      BY <1>5, <1>6, <2>1, <3>1, <3>2, CallAssumption
  <2>4. QED
    BY <2>2, <2>3
<1>9. ASSUME NEW t \in Tasks, NEW use \in 0..MaxUse, Answer(t, use), SessionOf[t] # s
      PROVE  spent'[s] = spent[s] /\ sessionUsed'[s] = sessionUsed[s]
  BY <1>9 DEF Answer, CallTypeInv, CallTypeOK
<1>10. (\E t \in Tasks, use \in 0..MaxUse : Answer(t, use)) \/ UNCHANGED ledgers
  BY DEF CallNext, ModelChange, TaskCalls, StartTask, Request, NextCandidate,
     GiveUp, ToolsDone, SwitchBegin, SwitchEnd, ClearBegin, ClearEnd, callVars, ledgers
<1>11. QED
  BY <1>1, <1>7, <1>8, <1>9, <1>10 DEF ledgers

\* However many tasks of a session spend at once: what they really use stays below
\* the hard limit, but for one last answer of each task that the budget ended.
THEOREM SessionSpendBounded == CallSpec => []SpendBounded
<1>1. CallTypeInv /\ SpendAccounted => SpendBounded
  <2> SUFFICES ASSUME CallTypeInv, SpendAccounted, NEW s \in Sessions
               PROVE  spent[s] < SessionHard + MaxUse * Cardinality(Overspent(s))
    BY DEF SpendBounded
  <2>1. MaxUse * Cardinality(Overspent(s)) \in Nat
    BY CallAssumption, OverspentFinite, MultiplyNext
  <2>2. spent[s] \in Nat /\ spent[s] <= SessionHard - 1 + MaxUse * Cardinality(Overspent(s))
    BY DEF SpendAccounted, CallTypeInv, CallTypeOK
  <2>3. QED
    BY <2>1, <2>2, CallAssumption
<1>2. QED
  BY <1>1, InitCallType, CallTypeStep, InitSpendAccounted, SpendAccountedStep, PTL DEF CallSpec

-----------------------------------------------------------------------------
(* The loop of a task: its ends.                                           *)

\* How an iteration of the loop, a summary or a parked task can end.
Ends == \E final \in Terminal, text \in {"none", "plain", "marked"} : End(final, text)

\* A failure is an end.
LEMMA FailEnds == Fail => Ends
BY DEF Fail, Ends, Terminal

\* So is a success with a text.
LEMMA FinishEnds == ASSUME NEW says \in BOOLEAN, Finish(says) PROVE Ends
BY DEF Finish, Ends, Terminal

\* What an end leaves behind.
LEMMA EndLeaves ==
  ASSUME Ends
  PROVE  /\ status' \in Terminal /\ pc' = "rest" /\ output' \in {"none", "plain", "marked"}
         /\ checkpoint' = NoCheckpoint /\ UNCHANGED <<iter, recoveries>>
BY DEF Ends, End

\* The actions in which nothing but an end happens.
Ending == Ends /\ UNCHANGED <<pending, decided, request, finals, inHistory, aborted, history>>

\* The steps of the loop: either an end, or one of the others.
Goes ==
  \/ Planned /\ pc' = "top" /\ UNCHANGED saved
  \/ NextIteration \/ Overflow \/ Recover \/ Continue \/ Unpolished
  \/ \E calls \in Turns, done \in BOOLEAN : AnswerCalls(calls, done)
  \/ \E ok \in BOOLEAN : ToolResult(ok)
  \/ Pause \/ EndTurn
  \/ Exhausted /\ ~verified
  \/ SummaryRejected /\ attempt = 0

\* A step of the loop is an end or goes on.
LEMMA LoopStepKinds == LoopStep => Ending \/ Goes
<1> SUFFICES ASSUME LoopStep PROVE Ending \/ Goes
  OBVIOUS
<1>1. CASE Planned
  BY <1>1, FailEnds DEF Planned, Ending, Goes
<1>2. CASE Stop \/ AskFails \/ SummaryFails
  BY <1>2, FailEnds DEF Stop, AskFails, SummaryFails, Ending
<1>3. ASSUME NEW says \in BOOLEAN, Final(says) \/ Summary(says) PROVE Ending
  BY <1>3, FinishEnds DEF Final, Summary, Ending
<1>4. CASE Exhausted
  BY <1>4 DEF Exhausted, Ending, Goes, Ends, Terminal, request, history
<1>5. CASE SummaryRejected
  BY <1>5, FailEnds DEF SummaryRejected, Ending, Goes, request, history
<1>6. QED
  BY <1>1, <1>2, <1>3, <1>4, <1>5 DEF LoopStep, Goes

-----------------------------------------------------------------------------
(* The loop of a task: the types.                                          *)

\* No checkpoint: its fields are of the types of one.
LEMMA NoCheckpointFields == NoCheckpoint.kept = FALSE /\ NoCheckpoint.wrote = FALSE
BY DEF NoCheckpoint

\* A task that has not started is well-typed.
LEMMA InitLoopType == LoopInit => LoopTypeOK
<1> SUFFICES ASSUME LoopInit PROVE LoopTypeOK
  OBVIOUS
<1>1. FlagsOK
  BY DEF LoopInit, NoCheckpoint, FlagsOK
<1>2. CountsOK
  BY LoopAssumption DEF LoopInit, CountsOK
<1>3. StatesOK
  BY DEF LoopInit, StatesOK, Terminal, Running
<1>4. QED
  BY <1>1, <1>2, <1>3 DEF LoopTypeOK

\* Every step keeps the types of the flags ...
LEMMA LoopFlagsStep == LoopTypeOK /\ [LoopNext]_loopVars => FlagsOK'
<1> SUFFICES ASSUME FlagsOK, [LoopNext]_loopVars PROVE FlagsOK'
  BY DEF LoopTypeOK
<1> USE DEF FlagsOK
<1>1. CASE Ending
  <2>1. checkpoint' = NoCheckpoint
    BY <1>1, EndLeaves DEF Ending
  <2>2. checkpoint'.kept \in BOOLEAN /\ checkpoint'.wrote \in BOOLEAN
    BY <2>1, NoCheckpointFields
  <2>3. UNCHANGED <<request, finals, inHistory, aborted, history>>
    BY <1>1 DEF Ending
  <2>4. QED
    BY <2>2, <2>3 DEF request, finals, history
<1>2. CASE Goes
  <2>1. CASE Planned /\ pc' = "top" /\ UNCHANGED saved
    BY <2>1 DEF Planned, saved, request, finals, history
  <2>2. CASE NextIteration
    BY <2>2 DEF NextIteration, finals
  <2>3. CASE Overflow
    BY <2>3 DEF Overflow, finals, NoCheckpoint
  <2>4. CASE Recover
    BY <2>4 DEF Recover, finals, NoCheckpoint
  <2>5. CASE Continue \/ Unpolished
    <3>1. CASE Continue
      <4>1. guarded' \in BOOLEAN  BY <3>1 DEF Continue
      <4> QED BY <3>1, <4>1 DEF Continue, saved, request, history
    <3>2. CASE Unpolished
      BY <3>2 DEF Unpolished, saved, finals
    <3> QED BY <2>5, <3>1, <3>2
  <2>6. ASSUME NEW calls \in Turns, NEW done \in BOOLEAN, AnswerCalls(calls, done) PROVE FlagsOK'
    BY <2>6 DEF AnswerCalls
  <2>7. ASSUME NEW ok \in BOOLEAN, ToolResult(ok) PROVE FlagsOK'
    BY <2>7 DEF ToolResult, VerifiedAfter, saved, request
  <2>8. CASE Pause
    BY <2>8 DEF Pause, request, finals
  <2>9. CASE EndTurn
    BY <2>9 DEF EndTurn, NoCheckpoint, request, finals, history
  <2>10. CASE (Exhausted /\ ~verified) \/ (SummaryRejected /\ attempt = 0)
    BY <2>10 DEF Exhausted, SummaryRejected, saved, finals
  <2>11. QED
    BY <1>2, <2>1, <2>2, <2>3, <2>4, <2>5, <2>6, <2>7, <2>8, <2>9, <2>10 DEF Goes
<1>3. CASE TaskStarts \/ Abort
  BY <1>3 DEF TaskStarts, Abort, saved, request, finals, history
<1>4. CASE FailWaiting
  BY <1>4 DEF FailWaiting, End, NoCheckpoint, request, finals, history
<1>5. ASSUME NEW decision, Resume(decision) PROVE FlagsOK'
  <2>1. recovered' \in BOOLEAN
    BY <1>5 DEF Resume, HasRecoveryBeenUsed
  <2>2. forgot' \in BOOLEAN
    BY <1>5 DEF Resume
  <2>3. QED
    BY <1>5, <2>1, <2>2 DEF Resume
<1>6. CASE UNCHANGED loopVars
  BY <1>6 DEF loopVars, saved, request, finals, history
<1>7. QED
  BY <1>1, <1>2, <1>3, <1>4, <1>5, <1>6, LoopStepKinds DEF LoopNext, Decision

\* ... the ranges of the counters ...
LEMMA CountsStep == LoopTypeOK /\ [LoopNext]_loopVars => CountsOK'
<1> SUFFICES ASSUME CountsOK, [LoopNext]_loopVars PROVE CountsOK'
  BY DEF LoopTypeOK
<1> USE LoopAssumption DEF CountsOK
<1>1. CASE Ending
  BY <1>1, EndLeaves DEF Ending, request, finals, history
<1>2. CASE Goes
  <2>1. CASE Planned /\ pc' = "top" /\ UNCHANGED saved
    BY <2>1 DEF Planned, saved, request, finals, history
  <2>2. CASE NextIteration
    BY <2>2 DEF NextIteration, finals
  <2>3. CASE Overflow
    BY <2>3 DEF Overflow, AskAgain, finals
  <2>4. CASE Recover
    BY <2>4 DEF Recover, AskAgain, finals
  <2>5. CASE Continue
    BY <2>5 DEF Continue, saved, request, history
  <2>6. CASE Unpolished
    BY <2>6 DEF Unpolished, saved, finals
  <2>7. ASSUME NEW calls \in Turns, NEW done \in BOOLEAN, AnswerCalls(calls, done) PROVE CountsOK'
    BY <2>7 DEF AnswerCalls
  <2>8. ASSUME NEW ok \in BOOLEAN, ToolResult(ok) PROVE CountsOK'
    BY <2>8 DEF ToolResult, saved, request
  <2>9. CASE Pause
    BY <2>9 DEF Pause, request, finals
  <2>10. CASE EndTurn
    BY <2>10 DEF EndTurn, request, finals, history
  <2>11. CASE (Exhausted /\ ~verified) \/ (SummaryRejected /\ attempt = 0)
    BY <2>11 DEF Exhausted, SummaryRejected, saved, finals
  <2>12. QED
    BY <1>2, <2>1, <2>2, <2>3, <2>4, <2>5, <2>6, <2>7, <2>8, <2>9, <2>10, <2>11 DEF Goes
<1>3. CASE TaskStarts \/ Abort
  BY <1>3 DEF TaskStarts, Abort, saved, request, finals, history
<1>4. CASE FailWaiting
  BY <1>4 DEF FailWaiting, End, request, finals, history
<1>5. ASSUME NEW decision, Resume(decision) PROVE CountsOK'
  BY <1>5 DEF Resume
<1>6. CASE UNCHANGED loopVars
  BY <1>6 DEF loopVars, saved, request, finals, history
<1>7. QED
  BY <1>1, <1>2, <1>3, <1>4, <1>5, <1>6, LoopStepKinds DEF LoopNext, Decision

\* ... and the agreement of the row with the place of the loop.
LEMMA StatesStep == LoopTypeOK /\ [LoopNext]_loopVars => StatesOK'
<1> SUFFICES ASSUME StatesOK, [LoopNext]_loopVars PROVE StatesOK'
  BY DEF LoopTypeOK
<1> USE DEF StatesOK, Running
<1>1. CASE Ending
  BY <1>1, EndLeaves DEF Ending, Terminal
<1>2. CASE Goes
  <2>1. CASE Planned /\ pc' = "top" /\ UNCHANGED saved
    BY <2>1 DEF Planned, saved
  <2>2. CASE NextIteration
    BY <2>2 DEF NextIteration
  <2>3. CASE Overflow \/ Recover
    BY <2>3 DEF Overflow, Recover, AskAgain, Terminal
  <2>4. CASE Continue \/ Unpolished
    BY <2>4 DEF Continue, Unpolished, saved
  <2>5. ASSUME NEW calls \in Turns, NEW done \in BOOLEAN, AnswerCalls(calls, done) PROVE StatesOK'
    BY <2>5 DEF AnswerCalls
  <2>6. ASSUME NEW ok \in BOOLEAN, ToolResult(ok) PROVE StatesOK'
    BY <2>6 DEF ToolResult, saved
  <2>7. CASE Pause \/ EndTurn
    BY <2>7 DEF Pause, EndTurn
  <2>8. CASE (Exhausted /\ ~verified) \/ (SummaryRejected /\ attempt = 0)
    BY <2>8 DEF Exhausted, SummaryRejected, saved
  <2>9. QED
    BY <1>2, <2>1, <2>2, <2>3, <2>4, <2>5, <2>6, <2>7, <2>8 DEF Goes
<1>3. CASE TaskStarts \/ Abort
  BY <1>3 DEF TaskStarts, Abort, saved
<1>4. CASE FailWaiting
  BY <1>4 DEF FailWaiting, End, Terminal
<1>5. ASSUME NEW decision \in {"granted", "denied"}, Resume(decision) PROVE StatesOK'
  BY <1>5 DEF Resume
<1>6. CASE UNCHANGED loopVars
  BY <1>6 DEF loopVars, saved
<1>7. QED
  BY <1>1, <1>2, <1>3, <1>4, <1>5, <1>6, LoopStepKinds DEF LoopNext, Decision

\* Every step keeps the types.
LEMMA LoopTypeStep == LoopTypeOK /\ [LoopNext]_loopVars => LoopTypeOK'
BY LoopFlagsStep, CountsStep, StatesStep DEF LoopTypeOK

\* In every behaviour the variables keep their types, and the loop of a task runs
\* exactly while its row says so.
THEOREM LoopTypeCorrect == LoopSpec => []LoopTypeOK
BY InitLoopType, LoopTypeStep, PTL DEF LoopSpec

-----------------------------------------------------------------------------
(* The loop of a task: the checkpoint.                                     *)

\* A task that has not started is neither parked nor over.
LEMMA InitCheckpoint == LoopInit => CheckpointFitsStatus
BY DEF LoopInit, CheckpointFitsStatus, Terminal

\* A step of the loop is one of a task whose row says that it runs.
LEMMA LoopRuns == ASSUME StatesOK, LoopStep PROVE status \in Running
BY DEF StatesOK, LoopStep, Planned, Stop, NextIteration, Overflow, Recover, AskFails, Continue,
   Unpolished, Final, Summary, AnswerCalls, ToolResult, Pause, EndTurn, Exhausted, SummaryRejected,
   SummaryFails

\* Only an end writes a final status, and it deletes the checkpoint; only a pause
\* writes a status that waits, and it saves one.
LEMMA CheckpointStep == LoopTypeOK /\ CheckpointFitsStatus /\ [LoopNext]_loopVars => CheckpointFitsStatus'
<1> SUFFICES ASSUME StatesOK, CheckpointFitsStatus, [LoopNext]_loopVars PROVE CheckpointFitsStatus'
  BY DEF LoopTypeOK
<1> USE DEF CheckpointFitsStatus
<1>1. CASE Ends
  BY <1>1, EndLeaves DEF Terminal, NoCheckpoint
<1>2. CASE LoopStep /\ Goes
  <2>1. status \in Running
    BY <1>2, LoopRuns
  <2>2. CASE Overflow \/ Recover
    <3>1. CASE attempt = 0
      BY <2>1, <2>2, <3>1 DEF Overflow, Recover, AskAgain, Running, Terminal
    <3>2. CASE attempt # 0
      <4>1. status' = "failed"
        BY <2>2, <3>2 DEF Overflow, Recover, AskAgain
      <4>2. checkpoint' = NoCheckpoint
        BY <2>2, <3>2 DEF Overflow, Recover
      <4>3. ~checkpoint'.kept
        BY <4>2, NoCheckpointFields
      <4>4. QED
        BY <4>1, <4>3
    <3>3. QED
      BY <3>1, <3>2
  <2>3. CASE Pause
    BY <2>3 DEF Pause, Terminal
  <2>4. CASE status' \in Running
    BY <2>4 DEF Running, Terminal
  <2>5. QED
    BY <1>2, <2>1, <2>2, <2>3, <2>4 DEF Goes, Planned, NextIteration, Continue, Unpolished, AnswerCalls,
       ToolResult, EndTurn, Exhausted, SummaryRejected, saved, Running
<1>3. CASE TaskStarts
  BY <1>3 DEF TaskStarts, Terminal
<1>4. CASE Abort \/ UNCHANGED loopVars
  BY <1>4 DEF Abort, loopVars, saved
<1>5. CASE FailWaiting
  BY <1>1, <1>5 DEF FailWaiting, Ends, Terminal
<1>6. ASSUME NEW decision, Resume(decision) PROVE CheckpointFitsStatus'
  BY <1>6 DEF Resume, Terminal
<1>7. QED
  BY <1>1, <1>2, <1>3, <1>4, <1>5, <1>6, LoopStepKinds DEF LoopNext, Decision, Ending

\* A task that ended has no checkpoint, one that is parked has one that starts with
\* its call: on every way through the loop, for any number of pauses.
THEOREM CheckpointFits == LoopSpec => []CheckpointFitsStatus
BY InitLoopType, LoopTypeStep, InitCheckpoint, CheckpointStep, PTL DEF LoopSpec

-----------------------------------------------------------------------------
(* The loop of a task: the requests.                                       *)

\* How many requests were made, at each place of the loop; of the iteration that
\* goes on, the attempts so far.
RequestsAsked ==
  /\ pc \in {"new", "plan"} => asked = 0
  /\ pc \in {"top", "tools"} \/ status = "waiting" => asked <= 2 * iter
  /\ pc = "ask" => asked <= 2 * (iter - 1) + attempt + 1
  /\ pc = "summary" => asked <= 2 * iter + attempt + 1
  /\ asked <= 2 * iter + 2

\* A task that begins has made no request, and what is asked is counted with the
\* attempt it is asked in; a resumed task has the iteration it was parked in.
LEMMA RequestsAskedStep == LoopTypeOK /\ RequestsAsked /\ [LoopNext]_loopVars => RequestsAsked'
<1> SUFFICES ASSUME CountsOK, StatesOK, RequestsAsked, [LoopNext]_loopVars PROVE RequestsAsked'
  BY DEF LoopTypeOK
<1>0. asked \in Nat /\ iter \in Nat /\ attempt \in {0, 1}
  BY LoopAssumption DEF CountsOK
<1> USE <1>0 DEF RequestsAsked
<1>1. CASE Ending
  <2>1. pc' = "rest" /\ status' # "waiting" /\ iter' = iter /\ asked' = asked
    BY <1>1, EndLeaves DEF Ending, history, Terminal
  <2>2. QED
    BY <2>1
<1>2. CASE LoopStep /\ Goes
  <2>0. status # "waiting" /\ (pc' # "rest" => status' # "waiting" \/ status' = status)
    BY <1>2, LoopRuns DEF Running, Goes, Planned, NextIteration, Overflow, Recover, AskAgain, Continue,
       Unpolished, AnswerCalls, ToolResult, Pause, EndTurn, Exhausted, SummaryRejected, saved
  <2>1. CASE Planned /\ pc' = "top" /\ UNCHANGED saved
    BY <2>1, <2>0 DEF Planned, saved, request, history
  <2>2. CASE NextIteration
    BY <2>2, <2>0 DEF NextIteration
  <2>3. CASE Overflow \/ Recover
    <3>1. CASE attempt = 0
      <4>1. pc' = "ask" /\ asked' = asked + 1 /\ attempt' = 1 /\ iter' = iter /\ pc = "ask"
        BY <2>3, <3>1 DEF Overflow, Recover, AskAgain
      <4>2. QED
        BY <2>0, <3>1, <4>1
    <3>2. CASE attempt # 0
      <4>1. pc' = "rest" /\ asked' = asked /\ iter' = iter /\ status' = "failed"
        BY <2>3, <3>2 DEF Overflow, Recover, AskAgain
      <4>2. QED
        BY <4>1
    <3>3. QED
      BY <3>1, <3>2
  <2>4. CASE Continue
    BY <2>4, <2>0 DEF Continue, saved, request, history
  <2>5. CASE Unpolished
    BY <2>5, <2>0 DEF Unpolished, saved
  <2>6. ASSUME NEW calls \in Turns, NEW done \in BOOLEAN, AnswerCalls(calls, done) PROVE RequestsAsked'
    BY <2>6, <2>0 DEF AnswerCalls
  <2>7. ASSUME NEW ok \in BOOLEAN, ToolResult(ok) PROVE RequestsAsked'
    BY <2>7, <2>0 DEF ToolResult, saved, request
  <2>8. CASE Pause
    BY <2>8 DEF Pause, request
  <2>9. CASE EndTurn
    BY <2>9, <2>0 DEF EndTurn, request, history
  <2>10. CASE Exhausted /\ ~verified
    BY <2>10, <2>0 DEF Exhausted, saved
  <2>11. CASE SummaryRejected /\ attempt = 0
    BY <2>11, <2>0 DEF SummaryRejected, saved
  <2>12. QED
    BY <1>2, <2>1, <2>2, <2>3, <2>4, <2>5, <2>6, <2>7, <2>8, <2>9, <2>10, <2>11 DEF Goes
<1>3. CASE TaskStarts
  BY <1>3 DEF TaskStarts, request, history
<1>4. CASE Abort \/ UNCHANGED loopVars
  BY <1>4 DEF Abort, loopVars, saved, request, history
<1>5. CASE FailWaiting
  BY <1>5 DEF FailWaiting, End, request, history
<1>6. ASSUME NEW decision, Resume(decision) PROVE RequestsAsked'
  BY <1>6 DEF Resume
<1>7. QED
  BY <1>1, <1>2, <1>3, <1>4, <1>5, <1>6, LoopStepKinds DEF LoopNext, Decision

\* The process that runs the loop knows of a recovery that the trace holds.
Recovered ==
  /\ pc = "new" => recoveries = 0
  /\ status \in Running => (recoveries > 0 => recovered)
  /\ recoveries <= 1

\* Only Recover adds a recovery, to a trace that holds none; a resumed task looks
\* into its trace.
LEMMA RecoveredStep == LoopTypeOK /\ Recovered /\ [LoopNext]_loopVars => Recovered'
<1> SUFFICES ASSUME CountsOK, StatesOK, Recovered, [LoopNext]_loopVars PROVE Recovered'
  BY DEF LoopTypeOK
<1>0. recoveries \in Nat
  BY DEF CountsOK
<1> USE <1>0 DEF Recovered
<1>1. CASE Ending
  <2>1. pc' = "rest" /\ status' \notin Running /\ recoveries' = recoveries
    BY <1>1, EndLeaves DEF Ending, Terminal, Running
  <2>2. QED
    BY <2>1
<1>2. CASE LoopStep /\ Goes
  <2>1. status \in Running
    BY <1>2, LoopRuns
  <2>2. CASE Recover
    <3>1. recoveries = 0
      BY <2>1, <2>2 DEF Recover
    <3>2. recoveries' = 1
      BY <2>2, <3>1 DEF Recover
    <3>3. recovered' /\ pc' # "new"
      BY <2>2 DEF Recover, AskAgain
    <3>4. QED
      BY <3>2, <3>3
  <2>3. CASE ~Recover
    <3>1. recoveries' = recoveries /\ recovered' = recovered /\ pc' # "new"
      BY <1>2, <2>3, <2>1 DEF Goes, Planned, NextIteration, Overflow, AskAgain, Continue, Unpolished,
         AnswerCalls, ToolResult, Pause, EndTurn, Exhausted, SummaryRejected, saved, request, StatesOK,
         Running
    <3>2. QED
      BY <2>1, <3>1
  <2>4. QED
    BY <2>2, <2>3
<1>3. CASE TaskStarts
  BY <1>3 DEF TaskStarts
<1>4. CASE Abort \/ UNCHANGED loopVars
  BY <1>4 DEF Abort, loopVars, saved, request
<1>5. CASE FailWaiting
  BY <1>5 DEF FailWaiting, End, Running
<1>6. ASSUME NEW decision, Resume(decision) PROVE Recovered'
  <2>1. recoveries' = recoveries /\ pc' = "tools"
    BY <1>6 DEF Resume
  <2>2. recovered' = (recoveries > 0)
    BY <1>6 DEF Resume, HasRecoveryBeenUsed
  <2>3. QED
    BY <2>1, <2>2
<1>7. QED
  BY <1>1, <1>2, <1>3, <1>4, <1>5, <1>6, LoopStepKinds DEF LoopNext, Decision

\* A task that has not started has asked for nothing and recovered from nothing.
LEMMA InitRequests == LoopInit => RequestsAsked /\ Recovered
BY DEF LoopInit, RequestsAsked, Recovered

\* What a task may ask follows from what it asked in the iterations it had.
LEMMA RequestsFollow == LoopTypeOK /\ RequestsAsked /\ Recovered => RequestsBounded
BY LoopAssumption DEF LoopTypeOK, CountsOK, RequestsAsked, Recovered, RequestsBounded

\* However often a task is parked and resumed, its requests stay within two for
\* each iteration and two for the summary, and it recovers once.
THEOREM RequestsWithin == LoopSpec => []RequestsBounded
BY InitLoopType, LoopTypeStep, InitRequests, RequestsAskedStep, RecoveredStep, RequestsFollow, PTL DEF LoopSpec

-----------------------------------------------------------------------------
(* The loop of a task: the text of a success.                              *)

\* The process that runs the loop knows of a write that was not verified, unless
\* the task was resumed after its messages had lost it.
WriteKnown ==
  /\ pc = "new" => ~dirty
  /\ status \in Running /\ dirty /\ ~forgot => wrote /\ ~verified

\* A final text and a summary go through evaluateFinalVerification, the iteration
\* limit through verified.
LEMMA SuccessTells ==
  ASSUME StatesOK, WriteKnown, LoopStep, status' = "succeeded", dirty, ~forgot
  PROVE  output' = "marked"
<1>1. wrote /\ ~verified
  BY LoopRuns DEF WriteKnown
<1>2. ASSUME NEW says \in BOOLEAN, Finish(says) PROVE output' = "marked"
  BY <1>1, <1>2 DEF Finish, End, Verification
<1>3. CASE \E says \in BOOLEAN : Final(says) \/ Summary(says)
  BY <1>2, <1>3 DEF Final, Summary
<1>4. status # "succeeded"
  BY LoopRuns DEF Running
<1>5. ~Fail
  BY DEF Fail, End
<1>6. QED
  BY <1>1, <1>3, <1>4, <1>5 DEF LoopStep, Planned, Stop, NextIteration, Overflow, Recover, AskAgain,
     AskFails, Continue, Unpolished, AnswerCalls, ToolResult, Pause, EndTurn, Exhausted, SummaryRejected,
     SummaryFails, saved

\* Tools and resumptions keep what the loop knows of its writes.
LEMMA WriteKnownStep == LoopTypeOK /\ WriteKnown /\ [LoopNext]_loopVars => WriteKnown'
<1> SUFFICES ASSUME FlagsOK, StatesOK, WriteKnown, [LoopNext]_loopVars PROVE WriteKnown'
  BY DEF LoopTypeOK
<1> USE DEF WriteKnown
<1>1. CASE Ending
  <2>1. pc' = "rest" /\ status' \notin Running
    BY <1>1, EndLeaves DEF Ending, Terminal, Running
  <2>2. QED
    BY <2>1
<1>2. CASE LoopStep /\ Goes
  <2>1. status \in Running /\ pc # "new"
    BY <1>2, LoopRuns DEF StatesOK
  <2>2. ASSUME NEW ok \in BOOLEAN, ToolResult(ok) PROVE WriteKnown'
    BY <2>1, <2>2 DEF ToolResult, VerifiedAfter, saved, FlagsOK
  <2>3. CASE ~ \E ok \in BOOLEAN : ToolResult(ok)
    <3>1. wrote' = wrote /\ verified' = verified /\ dirty' = dirty /\ forgot' = forgot /\ pc' # "new"
      BY <1>2, <2>1, <2>3 DEF Goes, Planned, NextIteration, Overflow, Recover, AskAgain, Continue,
         Unpolished, AnswerCalls, Pause, EndTurn, Exhausted, SummaryRejected, finals, history
    <3>2. QED
      BY <2>1, <3>1
  <2>4. QED
    BY <2>2, <2>3
<1>3. CASE TaskStarts
  BY <1>3 DEF TaskStarts, history
<1>4. CASE Abort \/ UNCHANGED loopVars
  BY <1>4 DEF Abort, loopVars, saved, finals, history
<1>5. CASE FailWaiting
  BY <1>5 DEF FailWaiting, End, Running
<1>6. ASSUME NEW decision, Resume(decision) PROVE WriteKnown'
  BY <1>6 DEF Resume, FlagsOK
<1>7. QED
  BY <1>1, <1>2, <1>3, <1>4, <1>5, <1>6, LoopStepKinds DEF LoopNext, Decision

\* Nothing outside of the loop makes a task succeed, and what is forgotten stays so.
LEMMA MarkedStep == LoopTypeOK /\ WriteKnown /\ UnverifiedIsMarked /\ [LoopNext]_loopVars => UnverifiedIsMarked'
<1> SUFFICES ASSUME StatesOK, WriteKnown, UnverifiedIsMarked, [LoopNext]_loopVars,
                    status' = "succeeded", dirty', ~forgot'
             PROVE  output' = "marked"
  BY DEF LoopTypeOK, UnverifiedIsMarked
<1>1. CASE LoopStep
  <2>1. CASE \E ok \in BOOLEAN : ToolResult(ok)
    BY <1>1, <2>1, LoopRuns DEF ToolResult, saved, Running
  <2>2. CASE ~ \E ok \in BOOLEAN : ToolResult(ok)
    <3>1. dirty' = dirty /\ forgot' = forgot
      BY <1>1, <2>2 DEF LoopStep, Planned, Stop, NextIteration, Overflow, Recover, AskFails, Continue,
         Unpolished, Final, Summary, AnswerCalls, Pause, EndTurn, Exhausted, SummaryRejected, SummaryFails,
         history
    <3>2. QED
      BY <1>1, <3>1, SuccessTells
  <2>3. QED
    BY <2>1, <2>2
<1>2. CASE Abort \/ UNCHANGED loopVars
  BY <1>2 DEF Abort, loopVars, saved, history, UnverifiedIsMarked
<1>3. CASE TaskStarts
  BY <1>3 DEF TaskStarts
<1>4. CASE FailWaiting
  BY <1>4 DEF FailWaiting, End
<1>5. ASSUME NEW decision, Resume(decision) PROVE FALSE
  BY <1>5 DEF Resume
<1>6. QED
  BY <1>1, <1>2, <1>3, <1>4, <1>5 DEF LoopNext, Decision

\* A task that has not started has written nothing.
LEMMA InitMarked == LoopInit => WriteKnown /\ UnverifiedIsMarked
BY DEF LoopInit, WriteKnown, UnverifiedIsMarked, Running

\* On no way out of the loop does a task succeed with a text that hides that its
\* last write was not verified, unless it was resumed without that write.
THEOREM UnverifiedMarked == LoopSpec => []UnverifiedIsMarked
BY InitLoopType, LoopTypeStep, InitMarked, WriteKnownStep, MarkedStep, PTL DEF LoopSpec

-----------------------------------------------------------------------------
(* An MCP server: the steps, by what they do to the table and to children. *)

\* A request is written to a child that was started, by a caller.
Writes ==
  \E c \in Callers, stage \in Awaiting, k \in 1..started', table \in SUBSET waiting, lines \in SUBSET wire :
    Write(c, stage, k, table, lines)

\* A request is refused.
Refuses ==
  \E c \in Callers, table \in SUBSET waiting, lines \in SUBSET wire : Refuse(c, table, lines)

\* Entries are taken out of the table and their callers told, or not.
Settles ==
  /\ waiting' \subseteq waiting /\ wire' \subseteq wire /\ UNCHANGED <<nextId, sent>>
  /\ \A c \in Callers : \/ caller'[c] = caller[c] \/ caller'[c] = Failed
                        \/ \E p \in waiting, w \in wire :
                             /\ p.id = w.id
                             /\ caller'[c] = CallerAt("answered", p.serial, w.serial)
  /\ DOMAIN caller' = DOMAIN caller

\* Types of the table and of the callers.
TableOK ==
  /\ nextId = sent + 1 /\ sent \in 0..MaxRequests
  /\ \A p \in waiting : p.id \in 1..sent /\ p.serial = p.id /\ p.caller \in Callers
  /\ \A w \in wire : w.child \in 1..started /\ w.id \in 1..sent /\ w.serial = w.id
  /\ DOMAIN caller = Callers
  /\ \A c \in Callers : /\ caller[c].stage \in Awaiting \cup {"idle", "answered", "failed"}
                       /\ caller[c].serial \in 0..sent /\ caller[c].answer \in 0..sent

\* Types of the children.
ChildrenOK ==
  /\ child \in 0..started /\ started \in 0..MaxChildren /\ deaf \subseteq 0..started
  /\ process \in [Children -> {"none", "up", "gone", "over"}]
  /\ initialized \in BOOLEAN /\ closes \in 0..MaxCloses

\* The children only grow in number.
LEMMA StartedGrows == ChildrenOK /\ LinkNext => started' \in Nat /\ started <= started'
<1> SUFFICES ASSUME ChildrenOK, LinkNext PROVE started' \in Nat /\ started <= started'
  OBVIOUS
<1>1. started \in Nat
  BY LinkAssumption DEF ChildrenOK
<1>2. started' = started \/ started' = started + 1
  BY DEF LinkNext, LinkEvent, Unheard, Initialized, Answered, WriteFails, Malformed, Dies, ErrorEvent,
     CloseEvent, Close, Call, Start, AbortCall, Expires, TimesOut, children
<1>3. QED
  BY <1>1, <1>2

\* What is rejected settles.
LEMMA RejectSettles ==
  ASSUME TableOK, NEW entries, Reject(entries), wire' \subseteq wire, UNCHANGED <<nextId, sent>>
  PROVE  Settles
<1>1. DOMAIN caller' = DOMAIN caller
  BY DEF Reject, RejectedBy, TableOK
<1>2. \A c \in Callers : caller'[c] = caller[c] \/ caller'[c] = Failed
  BY DEF Reject, RejectedBy
<1>3. QED
  BY <1>1, <1>2 DEF Reject, Settles

\* A request of a caller is written or refused.
LEMMA PostKinds ==
  ASSUME ChildrenOK, NEW c \in Callers, NEW stage \in Awaiting, UNCHANGED started,
         NEW table \in SUBSET waiting, NEW lines \in SUBSET wire, Post(c, stage, table, lines)
  PROVE  Writes \/ Refuses
<1>1. CASE child # 0 /\ Write(c, stage, child, table, lines)
  <2>1. child \in 1..started'
    BY <1>1, LinkAssumption DEF ChildrenOK
  <2>2. QED
    BY <1>1, <2>1 DEF Writes
<1>2. CASE Refuse(c, table, lines)
  BY <1>2 DEF Refuses
<1>3. QED
  BY <1>1, <1>2 DEF Post

\* Every step writes, refuses or settles.
LEMMA LinkStepKinds == TableOK /\ ChildrenOK /\ LinkNext => Writes \/ Refuses \/ Settles
<1> SUFFICES ASSUME TableOK, ChildrenOK, LinkNext PROVE Writes \/ Refuses \/ Settles
  OBVIOUS
<1>1. ASSUME NEW w \in wire, Unheard(w) PROVE Settles
  BY <1>1 DEF Unheard, Settles, children
<1>2. ASSUME NEW w \in wire, Initialized(w) PROVE Writes \/ Refuses
  <2>1. PICK p \in Entries(w) : caller[p.caller].stage = "init" /\ Post(p.caller, "ask", waiting \ {p}, wire \ {w})
    BY <1>2 DEF Initialized
  <2>2. p.caller \in Callers
    BY <2>1 DEF Entries, TableOK
  <2>3. UNCHANGED started
    BY <1>2 DEF Initialized, children
  <2>4. QED
    BY <2>1, <2>2, <2>3, PostKinds DEF Awaiting
<1>3. ASSUME NEW w \in wire, Answered(w) PROVE Settles
  <2>1. PICK p \in Entries(w) :
          /\ waiting' = waiting \ {p} /\ wire' = wire \ {w}
          /\ \/ caller' = [caller EXCEPT ![p.caller] = CallerAt("answered", p.serial, w.serial)]
             \/ caller' = [caller EXCEPT ![p.caller] = Failed]
    BY <1>3 DEF Answered
  <2>2. p \in waiting /\ p.id = w.id /\ p.caller \in Callers
    BY <2>1 DEF Entries, TableOK
  <2>3. UNCHANGED <<nextId, sent>>
    BY <1>3 DEF Answered
  <2>4. DOMAIN caller' = DOMAIN caller
    BY <2>1
  <2>5. \A c \in Callers : \/ caller'[c] = caller[c] \/ caller'[c] = Failed
                           \/ caller'[c] = CallerAt("answered", p.serial, w.serial)
    BY <2>1, <2>2 DEF TableOK
  <2>6. QED
    BY <2>1, <2>2, <2>3, <2>4, <2>5 DEF Settles
<1>4. ASSUME NEW p \in waiting, WriteFails(p) PROVE Settles
  BY <1>4, RejectSettles DEF WriteFails
<1>5. ASSUME NEW k \in Children, Malformed(k) \/ ErrorEvent(k) \/ CloseEvent(k) PROVE Settles
  BY <1>5, RejectSettles DEF Malformed, ErrorEvent, CloseEvent
<1>6. ASSUME NEW k \in Children, Dies(k) PROVE Settles
  BY <1>6 DEF Dies, Settles
<1>7. CASE Close
  BY <1>7, RejectSettles DEF Close
<1>8. ASSUME NEW c \in Callers, Call(c) PROVE Writes \/ Refuses
  <2>1. CASE Start(c)
    <3>1. started + 1 \in 1..started'
      BY <2>1, LinkAssumption DEF Start, ChildrenOK
    <3>2. QED
      BY <2>1, <3>1 DEF Start, Writes, Awaiting
  <2>2. CASE ~Start(c)
    <3>1. PICK stage \in Awaiting : Post(c, stage, waiting, wire)
      BY <1>8, <2>2 DEF Call, Awaiting
    <3>2. UNCHANGED started
      BY <1>8, <2>2 DEF Call, children
    <3>3. QED
      BY <3>1, <3>2, PostKinds
  <2>3. QED
    BY <2>1, <2>2
<1>9. ASSUME NEW c \in Callers, AbortCall(c) PROVE Settles
  BY <1>9 DEF AbortCall, Settles, TableOK
<1>10. ASSUME NEW c \in Callers, Expires(c) PROVE Settles
  BY <1>10, RejectSettles DEF Expires, TimesOut
<1>11. QED
  BY <1>1, <1>2, <1>3, <1>4, <1>5, <1>6, <1>7, <1>8, <1>9, <1>10 DEF LinkNext, LinkEvent

-----------------------------------------------------------------------------
(* An MCP server: the table and the answers.                               *)

\* The record of a caller, field by field.
LEMMA CallerFields ==
  ASSUME NEW s, NEW n, NEW a
  PROVE  CallerAt(s, n, a).stage = s /\ CallerAt(s, n, a).serial = n /\ CallerAt(s, n, a).answer = a
BY DEF CallerAt

\* An empty table and callers that have not called.
LEMMA InitTable == LinkInit => TableOK /\ ChildrenOK /\ AnswerIsOwn
<1> SUFFICES ASSUME LinkInit PROVE TableOK /\ ChildrenOK /\ AnswerIsOwn
  OBVIOUS
<1>1. DOMAIN caller = Callers /\ \A c \in Callers : caller[c] = CallerAt("idle", 0, 0)
  BY DEF LinkInit
<1>2. \A c \in Callers : caller[c].stage = "idle" /\ caller[c].serial = 0 /\ caller[c].answer = 0
  <2>1. SUFFICES ASSUME NEW c \in Callers
                 PROVE  caller[c].stage = "idle" /\ caller[c].serial = 0 /\ caller[c].answer = 0
    OBVIOUS
  <2>2. caller[c] = CallerAt("idle", 0, 0)
    BY <1>1
  <2>3. QED
    BY <2>2, CallerFields
<1>3. sent = 0 /\ nextId = 1 /\ waiting = {} /\ wire = {}
  BY DEF LinkInit
<1>4. TableOK /\ AnswerIsOwn
  BY <1>1, <1>2, <1>3, LinkAssumption DEF TableOK, AnswerIsOwn
<1>5. process \in [Children -> {"none", "up", "gone", "over"}]
  BY DEF LinkInit
<1>6. child = 0 /\ started = 0 /\ deaf = {} /\ closes = 0
  BY DEF LinkInit
<1>7. child \in 0..started /\ started \in 0..MaxChildren /\ deaf \subseteq 0..started /\ closes \in 0..MaxCloses
  BY <1>6, LinkAssumption
<1>8. initialized \in BOOLEAN
  BY DEF LinkInit
<1>9. QED
  BY <1>4, <1>5, <1>7, <1>8 DEF ChildrenOK

\* A request takes the next number for its entry and for its line.
LEMMA WritesKeep ==
  ASSUME TableOK, ChildrenOK, AnswerIsOwn, Writes, started' \in Nat, started <= started'
  PROVE  TableOK' /\ AnswerIsOwn'
<1>1. PICK c \in Callers, stage \in Awaiting, k \in 1..started', table \in SUBSET waiting, lines \in SUBSET wire :
        Write(c, stage, k, table, lines)
  BY DEF Writes
<1>2. /\ sent \in Nat /\ sent < MaxRequests /\ sent' = sent + 1 /\ nextId' = nextId + 1 /\ nextId = sent + 1
      /\ MaxRequests \in Nat
  BY <1>1, LinkAssumption DEF Write, TableOK
<1>3. sent' \in 0..MaxRequests /\ nextId' = sent' + 1 /\ sent + 1 \in 1..sent' /\ 0..sent \subseteq 0..sent'
      /\ 1..sent \subseteq 1..sent'
  BY <1>2
<1>4. ASSUME NEW p \in waiting' PROVE p.id \in 1..sent' /\ p.serial = p.id /\ p.caller \in Callers
  <2>1. CASE p \in waiting
    BY <1>3, <2>1 DEF TableOK
  <2>2. CASE p = [id |-> nextId, serial |-> sent + 1, caller |-> c]
    BY <1>2, <1>3, <2>2
  <2>3. QED
    BY <1>1, <2>1, <2>2 DEF Write
<1>5. ASSUME NEW w \in wire' PROVE w.child \in 1..started' /\ w.id \in 1..sent' /\ w.serial = w.id
  <2>1. CASE w \in wire
    <3>1. w.child \in 1..started /\ w.id \in 1..sent /\ w.serial = w.id
      BY <2>1 DEF TableOK
    <3>2. started \in Nat
      BY LinkAssumption DEF ChildrenOK
    <3>3. w.child \in 1..started'
      BY <3>1, <3>2
    <3>4. QED
      BY <1>3, <3>1, <3>3
  <2>2. CASE w = [child |-> k, id |-> nextId, serial |-> sent + 1]
    BY <1>2, <1>3, <2>2
  <2>3. QED
    BY <1>1, <2>1, <2>2 DEF Write
<1>6. DOMAIN caller' = Callers
      /\ \A d \in Callers : caller'[d] = IF d = c THEN CallerAt(stage, sent + 1, 0) ELSE caller[d]
  BY <1>1 DEF Write, TableOK
<1>7. ASSUME NEW d \in Callers
      PROVE  /\ caller'[d].stage \in Awaiting \cup {"idle", "answered", "failed"}
             /\ caller'[d].serial \in 0..sent' /\ caller'[d].answer \in 0..sent'
             /\ caller'[d].stage = "answered" => caller'[d].answer = caller'[d].serial
  <2>1. CASE d = c
    <3>1. caller'[d] = CallerAt(stage, sent + 1, 0)
      BY <1>6, <2>1
    <3>2. caller'[d].stage = stage /\ caller'[d].serial = sent + 1 /\ caller'[d].answer = 0
      BY <3>1, CallerFields
    <3>3. stage # "answered"
      BY DEF Awaiting
    <3>4. QED
      BY <1>2, <1>3, <3>2, <3>3
  <2>2. CASE d # c
    BY <1>3, <1>6, <2>2 DEF TableOK, AnswerIsOwn
  <2>3. QED
    BY <2>1, <2>2
<1>8. QED
  BY <1>3, <1>4, <1>5, <1>6, <1>7 DEF TableOK, AnswerIsOwn

\* A caller that has failed is well-typed.
LEMMA FailedFields == Failed.stage = "failed" /\ Failed.serial = 0 /\ Failed.answer = 0
BY CallerFields DEF Failed

\* A refusal tells one caller.
LEMMA RefusesKeep ==
  ASSUME TableOK, ChildrenOK, AnswerIsOwn, Refuses, started' \in Nat, started <= started'
  PROVE  TableOK' /\ AnswerIsOwn'
<1>1. PICK c \in Callers : caller' = [caller EXCEPT ![c] = Failed] /\ UNCHANGED <<sent, nextId>>
  BY DEF Refuses, Refuse
<1>2. waiting' \subseteq waiting /\ wire' \subseteq wire
  BY DEF Refuses, Refuse
<1>3. started \in Nat /\ sent \in Nat
  BY LinkAssumption DEF ChildrenOK, TableOK
<1>4. \A w \in wire' : w.child \in 1..started'
  BY <1>2, <1>3 DEF TableOK
<1>5. DOMAIN caller' = Callers /\ \A d \in Callers : caller'[d] = caller[d] \/ caller'[d] = Failed
  BY <1>1 DEF TableOK
<1>6. \A d \in Callers : /\ caller'[d].stage \in Awaiting \cup {"idle", "answered", "failed"}
                         /\ caller'[d].serial \in 0..sent /\ caller'[d].answer \in 0..sent
                         /\ caller'[d].stage = "answered" => caller'[d].answer = caller'[d].serial
  BY <1>3, <1>5, FailedFields DEF TableOK, AnswerIsOwn
<1>7. QED
  BY <1>1, <1>2, <1>4, <1>5, <1>6 DEF TableOK, AnswerIsOwn

\* An answer carries the number of its request, and so does the entry it finds.
LEMMA SettlesKeep ==
  ASSUME TableOK, ChildrenOK, AnswerIsOwn, Settles, started' \in Nat, started <= started'
  PROVE  TableOK' /\ AnswerIsOwn'
<1>1. started \in Nat /\ sent \in Nat
  BY LinkAssumption DEF ChildrenOK, TableOK
<1>2. waiting' \subseteq waiting /\ wire' \subseteq wire /\ nextId' = nextId /\ sent' = sent
      /\ DOMAIN caller' = Callers
  BY DEF Settles, TableOK
<1>3. \A w \in wire' : w.child \in 1..started'
  BY <1>1, <1>2 DEF TableOK
<1>4. ASSUME NEW d \in Callers
      PROVE  /\ caller'[d].stage \in Awaiting \cup {"idle", "answered", "failed"}
             /\ caller'[d].serial \in 0..sent /\ caller'[d].answer \in 0..sent
             /\ caller'[d].stage = "answered" => caller'[d].answer = caller'[d].serial
  <2>1. CASE caller'[d] = caller[d] \/ caller'[d] = Failed
    BY <1>1, <2>1, FailedFields DEF TableOK, AnswerIsOwn
  <2>2. CASE \E p \in waiting, w \in wire :
               p.id = w.id /\ caller'[d] = CallerAt("answered", p.serial, w.serial)
    <3>1. PICK p \in waiting, w \in wire :
            p.id = w.id /\ caller'[d] = CallerAt("answered", p.serial, w.serial)
      BY <2>2
    <3>2. p.serial = p.id /\ w.serial = w.id /\ p.id \in 1..sent
      BY DEF TableOK
    <3>3. caller'[d].stage = "answered" /\ caller'[d].serial = p.serial /\ caller'[d].answer = w.serial
      BY <3>1, CallerFields
    <3>4. QED
      BY <1>1, <3>1, <3>2, <3>3
  <2>3. QED
    BY <2>1, <2>2 DEF Settles
<1>5. QED
  BY <1>2, <1>3, <1>4 DEF TableOK, AnswerIsOwn

\* Every step keeps the table and the answers right.
LEMMA TableStep == TableOK /\ ChildrenOK /\ AnswerIsOwn /\ [LinkNext]_linkVars => TableOK' /\ AnswerIsOwn'
<1>1. ASSUME TableOK, ChildrenOK, AnswerIsOwn, UNCHANGED linkVars PROVE TableOK' /\ AnswerIsOwn'
  BY <1>1 DEF linkVars, TableOK, AnswerIsOwn
<1>2. QED
  BY <1>1, LinkStepKinds, StartedGrows, WritesKeep, RefusesKeep, SettlesKeep

-----------------------------------------------------------------------------
(* An MCP server: the children.                                            *)

\* No child is there that was not started, and before the first close a child whose
\* close event is to come is the one in use.
OneChild ==
  /\ \A k \in Children : k > started => process[k] = "none"
  /\ closes = 0 => \A k \in Children : process[k] \in {"up", "gone"} => k = child

\* Only a start, an end, a close event and a close touch the children.
LEMMA ChildSteps ==
  LinkNext => \/ UNCHANGED <<children, closes>> /\ initialized' \in {initialized, TRUE}
              \/ \E c \in Callers : Start(c)
              \/ \E k \in Children : Dies(k) \/ CloseEvent(k)
              \/ Close
BY DEF LinkNext, LinkEvent, Unheard, Initialized, Answered, WriteFails, Malformed, ErrorEvent, Call,
   AbortCall, Expires, TimesOut

\* Every step keeps the types of the children and the one in use.
LEMMA ChildStep == ChildrenOK /\ OneChild /\ [LinkNext]_linkVars => ChildrenOK' /\ OneChild'
<1> SUFFICES ASSUME ChildrenOK, OneChild, [LinkNext]_linkVars PROVE ChildrenOK' /\ OneChild'
  OBVIOUS
<1>0. started \in Nat /\ child \in Nat /\ closes \in Nat /\ started <= MaxChildren
  BY LinkAssumption DEF ChildrenOK
<1> USE <1>0, LinkAssumption DEF Children
<1>1. CASE UNCHANGED <<children, closes>> /\ initialized' \in {initialized, TRUE}
  <2>1. initialized' \in BOOLEAN
    BY <1>1 DEF ChildrenOK
  <2>2. QED
    BY <1>1, <2>1 DEF ChildrenOK, OneChild, children
<1>2. ASSUME NEW c \in Callers, Start(c) PROVE ChildrenOK' /\ OneChild'
  <2>1. /\ child = 0 /\ started < MaxChildren /\ child' = started + 1 /\ started' = started + 1
        /\ process' = [process EXCEPT ![started + 1] = "up"]
        /\ UNCHANGED <<deaf, initialized, closes>>
    BY <1>2 DEF Start, CanStart
  <2>2. deaf' \subseteq 0..started'
    BY <2>1 DEF ChildrenOK
  <2>3. ChildrenOK'
    BY <2>1, <2>2 DEF ChildrenOK
  <2>4. \A k \in Children : process'[k] = IF k = started + 1 THEN "up" ELSE process[k]
    BY <2>1 DEF ChildrenOK
  <2>5. QED
    BY <2>1, <2>3, <2>4 DEF OneChild
<1>3. ASSUME NEW k \in Children, Dies(k) PROVE ChildrenOK' /\ OneChild'
  <2>1. /\ process[k] = "up" /\ process' = [process EXCEPT ![k] = "gone"]
        /\ UNCHANGED <<child, started, deaf, initialized, closes>>
    BY <1>3 DEF Dies
  <2>2. \A j \in Children : process'[j] = IF j = k THEN "gone" ELSE process[j]
    BY <2>1 DEF ChildrenOK
  <2>3. ChildrenOK'
    <3>1. process' \in [Children -> {"none", "up", "gone", "over"}]
      BY <2>1 DEF ChildrenOK
    <3>2. child' \in 0..started'
      BY <2>1 DEF ChildrenOK
    <3>3. QED
      BY <2>1, <3>1, <3>2 DEF ChildrenOK
  <2>4. QED
    BY <2>1, <2>2, <2>3 DEF OneChild
<1>4. ASSUME NEW k \in Children, CloseEvent(k) PROVE ChildrenOK' /\ OneChild'
  <2>1. /\ process[k] = "gone" /\ process' = [process EXCEPT ![k] = "over"]
        /\ child' = 0 /\ initialized' = FALSE /\ UNCHANGED <<started, deaf, closes>>
    BY <1>4 DEF CloseEvent
  <2>2. \A j \in Children : process'[j] = IF j = k THEN "over" ELSE process[j]
    BY <2>1 DEF ChildrenOK
  <2>3. ChildrenOK'
    <3>1. process' \in [Children -> {"none", "up", "gone", "over"}]
      BY <2>1 DEF ChildrenOK
    <3>2. child' \in 0..started'
      BY <2>1 DEF ChildrenOK
    <3>3. QED
      BY <2>1, <3>1, <3>2 DEF ChildrenOK
  <2>4. QED
    BY <2>1, <2>2, <2>3 DEF OneChild
<1>5. CASE Close
  <2>1. /\ closes < MaxCloses /\ closes' = closes + 1 /\ deaf' = deaf \cup {started} /\ child' = 0
        /\ initialized' = FALSE /\ UNCHANGED <<started, process>>
    BY <1>5 DEF Close
  <2>2. deaf' \subseteq 0..started' /\ child' \in 0..started' /\ closes' \in 0..MaxCloses /\ closes' # 0
    BY <2>1 DEF ChildrenOK
  <2>3. initialized' \in BOOLEAN
    BY <2>1
  <2>4. ChildrenOK'
    BY <2>1, <2>2, <2>3 DEF ChildrenOK
  <2>5. QED
    BY <2>1, <2>2, <2>4 DEF OneChild
<1>6. CASE UNCHANGED linkVars
  BY <1>6 DEF linkVars, ChildrenOK, OneChild
<1>7. QED
  BY <1>1, <1>2, <1>3, <1>4, <1>5, <1>6, ChildSteps

\* No child at first.
LEMMA InitChild == LinkInit => OneChild
BY DEF LinkInit, OneChild

\* A child that is up is one that is up or gone.
LEMMA ChildFollows == OneChild => OneServer
BY DEF OneChild, OneServer

-----------------------------------------------------------------------------
(* An MCP server: the theorems.                                            *)

\* The parts of the types, together with the numbering of the requests.
LEMMA TypesFollow == TableOK /\ ChildrenOK => LinkTypeOK
<1> SUFFICES ASSUME TableOK, ChildrenOK PROVE LinkTypeOK
  OBVIOUS
<1>1. nextId \in Nat /\ sent \in Nat /\ nextId = sent + 1
  BY DEF TableOK
<1>2. \A p \in waiting : p.id < nextId /\ p.serial \in 1..sent
  BY <1>1 DEF TableOK
<1>3. \A w \in wire : w.serial \in 1..sent
  BY DEF TableOK
<1>4. QED
  BY <1>1, <1>2, <1>3 DEF TableOK, ChildrenOK, LinkTypeOK

\* In every behaviour the variables keep their types.
THEOREM LinkTypeCorrect == LinkSpec => []LinkTypeOK
BY InitTable, InitChild, TableStep, ChildStep, TypesFollow, PTL DEF LinkSpec

\* Whatever timed out, was aborted, failed or is answered late: a call that is
\* answered is given the answer to its own request.
THEOREM AnswersOwn == LinkSpec => []AnswerIsOwn
BY InitTable, InitChild, TableStep, ChildStep, PTL DEF LinkSpec

\* For any number of children, one runs at most until the transport is closed.
THEOREM OneServerAtMost == LinkSpec => []OneServer
BY InitTable, InitChild, ChildStep, ChildFollows, PTL DEF LinkSpec
-----------------------------------------------------------------------------
(* Who waits can be told: the part of CallsSettle that needs no fairness.    *)

\* A call that awaits an answer has its own entry in the table, and with it the
\* timer that will settle it.
AwaitersListed ==
  \A c \in Callers : caller[c].stage \in Awaiting => \E p \in waiting : p.caller = c /\ Owner(p)

LEMMA CallerAtFields ==
  \A stage, n, a : CallerAt(stage, n, a).stage = stage /\ CallerAt(stage, n, a).serial = n
BY DEF CallerAt

\* A request is written or refused, and takes with it entries of its caller only,
\* or of nobody.
LEMMA PostListed ==
  ASSUME TableOK, AwaitersListed, NEW c \in Callers, NEW stage \in Awaiting, NEW table \in SUBSET waiting,
         NEW lines, \A p \in waiting \ table : ~Owner(p) \/ p.caller = c,
         NEW k, Write(c, stage, k, table, lines) \/ Refuse(c, table, lines)
  PROVE  AwaitersListed'
<1>1. DOMAIN caller = Callers  BY DEF TableOK
<1>2. \A d \in Callers : d # c => caller'[d] = caller[d]  BY <1>1 DEF Write, Refuse
<1>3. table \subseteq waiting'  BY DEF Write, Refuse
<1>4. ASSUME NEW d \in Callers, d # c, caller'[d].stage \in Awaiting
      PROVE  \E p \in waiting' : p.caller = d /\ Owner(p)'
  <2>1. PICK p \in waiting : p.caller = d /\ Owner(p)  BY <1>2, <1>4 DEF AwaitersListed
  <2>2. p \in table  BY <1>4, <2>1
  <2> QED BY <1>2, <1>3, <1>4, <2>1, <2>2 DEF Owner
<1>5. ASSUME caller'[c].stage \in Awaiting PROVE \E p \in waiting' : p.caller = c /\ Owner(p)'
  <2>1. CASE Write(c, stage, k, table, lines)
    <3>1. PICK p \in waiting' : p = [id |-> nextId, serial |-> sent + 1, caller |-> c]
      BY <2>1 DEF Write
    <3>2. caller'[c] = CallerAt(stage, sent + 1, 0)  BY <1>1, <2>1 DEF Write
    <3>3. p.caller = c /\ p.serial = caller'[c].serial  BY <3>1, <3>2, CallerAtFields
    <3> QED BY <1>5, <3>3 DEF Owner
  <2>2. CASE Refuse(c, table, lines)
    <3>1. caller'[c] = Failed  BY <1>1, <2>2 DEF Refuse
    <3> QED BY <1>5, <3>1, FailedFields DEF Awaiting
  <2> QED BY <2>1, <2>2
<1> QED BY <1>4, <1>5 DEF AwaitersListed

LEMMA RejectListed ==
  ASSUME TableOK, AwaitersListed, NEW entries, Reject(entries)
  PROVE  AwaitersListed'
<1> SUFFICES ASSUME NEW c \in Callers, caller'[c].stage \in Awaiting
             PROVE  \E p \in waiting' : p.caller = c /\ Owner(p)'
  BY DEF AwaitersListed
<1>1. caller'[c] = IF \E p \in entries : p.caller = c /\ Owner(p) THEN Failed ELSE caller[c]
  BY DEF Reject, RejectedBy
<1>2. caller'[c] = caller[c] /\ ~\E p \in entries : p.caller = c /\ Owner(p)
  BY <1>1, FailedFields DEF Awaiting
<1>3. PICK p \in waiting : p.caller = c /\ Owner(p)  BY <1>2 DEF AwaitersListed
<1>4. p \in waiting'  BY <1>2, <1>3 DEF Reject
<1> QED BY <1>2, <1>3, <1>4 DEF Owner

LEMMA ListedStep ==
  TableOK /\ ChildrenOK /\ AwaitersListed /\ [LinkNext]_linkVars => AwaitersListed'
<1> SUFFICES ASSUME TableOK, ChildrenOK, AwaitersListed, [LinkNext]_linkVars PROVE AwaitersListed'
  OBVIOUS
<1>1. DOMAIN caller = Callers /\ \A p \in waiting : p.caller \in Callers  BY DEF TableOK
<1>2. ASSUME NEW w \in wire, Unheard(w) PROVE AwaitersListed'
  BY <1>2 DEF Unheard, AwaitersListed, Owner
<1>3. ASSUME NEW w \in wire, Initialized(w) PROVE AwaitersListed'
  <2>1. PICK p \in Entries(w) : Owner(p) /\ Post(p.caller, "ask", waiting \ {p}, wire \ {w})
    BY <1>3 DEF Initialized
  <2>2. p.caller \in Callers /\ "ask" \in Awaiting  BY <1>1 DEF Entries, Awaiting
  <2>3. \A q \in waiting \ (waiting \ {p}) : ~Owner(q) \/ q.caller = p.caller  OBVIOUS
  <2>4. \/ Write(p.caller, "ask", child, waiting \ {p}, wire \ {w})
        \/ Refuse(p.caller, waiting \ {p}, wire \ {w})
    BY <2>1 DEF Post
  <2> QED BY <2>2, <2>3, <2>4, PostListed
<1>4. ASSUME NEW w \in wire, Answered(w) PROVE AwaitersListed'
  <2>1. PICK p \in Entries(w) :
          /\ Owner(p) /\ waiting' = waiting \ {p}
          /\ \/ caller' = [caller EXCEPT ![p.caller] = CallerAt("answered", p.serial, w.serial)]
             \/ caller' = [caller EXCEPT ![p.caller] = Failed]
    BY <1>4 DEF Answered
  <2>2. p.caller \in Callers  BY <1>1 DEF Entries
  <2>3. caller'[p.caller].stage \notin Awaiting
    BY <1>1, <2>1, <2>2, CallerAtFields, FailedFields DEF Awaiting
  <2>4. \A d \in Callers : d # p.caller => caller'[d] = caller[d]  BY <1>1, <2>1
  <2> QED BY <2>1, <2>3, <2>4 DEF AwaitersListed, Owner
<1>5. ASSUME NEW c \in Callers, Call(c) PROVE AwaitersListed'
  <2>1. "ask" \in Awaiting /\ "init" \in Awaiting  BY DEF Awaiting
  <2>2. \E stage \in Awaiting : \E k : Write(c, stage, k, waiting, wire) \/ Refuse(c, waiting, wire)
    BY <1>5, <2>1 DEF Call, Start, Post
  <2> QED BY <2>2, PostListed
<1>6. ASSUME NEW c \in Callers, AbortCall(c) PROVE AwaitersListed'
  <2>1. waiting' = waiting /\ caller' = [caller EXCEPT ![c] = Failed]  BY <1>6 DEF AbortCall
  <2>2. caller'[c].stage \notin Awaiting  BY <1>1, <2>1, FailedFields DEF Awaiting
  <2>3. \A d \in Callers : d # c => caller'[d] = caller[d]  BY <1>1, <2>1
  <2> QED BY <2>1, <2>2, <2>3 DEF AwaitersListed, Owner
<1>7. ASSUME NEW entries, Reject(entries) PROVE AwaitersListed'  BY <1>7, RejectListed
<1>8. ASSUME UNCHANGED <<waiting, caller>> PROVE AwaitersListed'  BY <1>8 DEF AwaitersListed, Owner
<1>9. CASE LinkEvent
  BY <1>2, <1>3, <1>4, <1>7, <1>8, <1>9
  DEF LinkEvent, WriteFails, Malformed, Dies, ErrorEvent, CloseEvent, Close
<1>10. ASSUME NEW c \in Callers, Expires(c) PROVE AwaitersListed'  BY <1>7, <1>10 DEF Expires, TimesOut
<1> QED BY <1>5, <1>6, <1>8, <1>9, <1>10 DEF LinkNext, linkVars

\* No call is ever forgotten: whatever answers, fails, dies or is closed, a call that
\* still awaits an answer is in the table, where its timer or the next failure of
\* the transport finds it.
THEOREM AwaitersAreListed == LinkSpec => []AwaitersListed
<1>1. LinkInit => AwaitersListed
  BY CallerAtFields DEF LinkInit, AwaitersListed, Awaiting
<1> QED BY <1>1, ListedStep, InitTable, TableStep, InitChild, ChildStep, PTL DEF LinkSpec
=============================================================================
