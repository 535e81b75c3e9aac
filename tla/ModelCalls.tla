----------------------------- MODULE ModelCalls -----------------------------
(***************************************************************************)
(* The requests that tasks make to models: ProviderRouter picks the main   *)
(* model, provider-failover walks from it through the other credentials    *)
(* and the fallback chain, BudgetService charges every answer to the task  *)
(* and to its session, and ProviderSwitchFacade changes the model in force *)
(* while all this goes on.                                                 *)
(*                                                                         *)
(* An endpoint is a model with one of its credentials.  A usage is one     *)
(* number: input tokens, output tokens and dollars are three such ledgers  *)
(* with the same rules.  Why a failed request may be tried a second time   *)
(* is the subject of module AgentLoop.                                     *)
(***************************************************************************)
EXTENDS TaskIds, Naturals, Sequences, FiniteSets

CONSTANTS
  Sessions,
  SessionOf,        \* the session of a task
  Models, NoModel,
  Config,           \* the scope of a switch that writes a configuration file
  Routing,          \* routing.providers: "cheap", "balanced", "quality" to a model or NoModel
  Mode,             \* routing mode: the tier that the main request prefers
  Credentials,      \* the available credentials of a model, by priority
  Fallbacks,        \* the fallback chain, a sequence of models
  TaskSoft, TaskHard, SessionSoft, SessionHard,   \* BudgetLimits; no soft limit is one above the hard
  MaxUse            \* bound: the largest usage of one answer

ASSUME CallAssumption ==
  /\ SessionOf \in [Tasks -> Sessions] /\ NoModel \notin Models /\ Config \notin Sessions
  /\ Routing \in [{"cheap", "balanced", "quality"} -> Models \cup {NoModel}]
  /\ Mode \in {"cheap", "balanced", "quality"} /\ TaskSoft \in Nat /\ TaskHard \in Nat /\ SessionSoft \in Nat
  /\ SessionHard \in Nat \ {0} /\ MaxUse \in Nat

VARIABLES
  call,          \* the request of each task: its model and what comes after it
  taskUsed, sessionUsed,      \* the ledgers, BudgetService.taskStates and sessionStates
  taskDown, sessionDown,      \* taskDowngrade and sessionDowngrade
  primary,       \* the provider of the kernel, setPrimaryProvider
  override,      \* mainProviderOverride of the router
  auxiliary,     \* mainProviderRef of the auxiliary resolver
  default,       \* currentProvider of the configuration files
  sessionModel,  \* the model selection in the metadata of a session
  switch,        \* switchProviderInFlight: at most one
  clearing,      \* the default that a clear of a session's selection is fetching
  spent          \* history: what the answers of a session's tasks really used

callVars == <<call, taskUsed, sessionUsed, taskDown, sessionDown, primary, override,
              auxiliary, default, sessionModel, switch, clearing, spent>>
ledgers  == <<taskUsed, sessionUsed, taskDown, sessionDown, spent>>
inForce  == <<primary, override, auxiliary>>

NoSwitch == [model |-> NoModel, scope |-> Config]
Stages   == {"idle", "ready", "asking", "tools", "done", "failed", "overspent"}
Outcomes == {"eligible", "other"}      \* isFailoverEligible of the error

Endpoint(m, i) == [model |-> m, credential |-> Credentials[m][i]]

\* A task outside a request.
Between(stage) == [stage |-> stage, model |-> NoModel, later |-> <<>>, at |-> 0, attempt |-> 0]

CallInit ==
  /\ call = [t \in Tasks |-> Between("idle")]
  /\ taskUsed = [t \in Tasks |-> 0] /\ sessionUsed = [s \in Sessions |-> 0]
  /\ taskDown = {} /\ sessionDown = {}
  /\ default \in Models /\ primary = default /\ auxiliary = default
  /\ override = NoModel
  /\ sessionModel = [s \in Sessions |-> NoModel]
  /\ switch = NoSwitch /\ clearing = [s \in Sessions |-> NoModel]
  /\ spent = [s \in Sessions |-> 0]

-----------------------------------------------------------------------------
(* Which model, and what comes after it.                                    *)

Downgraded(t) == t \in taskDown \/ SessionOf[t] \in sessionDown

\* resolveProviderName: a tier or the first of its substitutes that is configured.
Configured(tier, otherwise) == IF Routing[tier] # NoModel THEN Routing[tier] ELSE otherwise

TierModel(tier) ==
  CASE tier = "cheap"    -> Configured("cheap", Configured("balanced", primary))
    [] tier = "quality"  -> Configured("quality", Configured("balanced", primary))
    [] tier = "balanced" -> Configured("balanced", Configured("quality", Configured("cheap", primary)))

\* Seeded fault: an explicit switch goes before the budget.
MainModelAsSwitched(t) == IF override # NoModel THEN override
                          ELSE IF Downgraded(t) THEN TierModel("cheap") ELSE TierModel(Mode)

\* selectProvider for the kind "main", and resolveActiveMainProvider.
MainModel(t) == IF Downgraded(t) THEN TierModel("cheap")
                ELSE IF override # NoModel THEN override
                ELSE TierModel(Mode)

\* resolveFallbackCandidates: what is tried after the model itself is every
\* available credential of it, then the chain without what is already there.
Rotation(m) == [i \in 1..Len(Credentials[m]) |-> Endpoint(m, i)]
Chain(m) == SelectSeq([i \in 1..Len(Fallbacks) |-> Endpoint(Fallbacks[i], 1)],
                      LAMBDA e : \A i \in 1..Len(Credentials[m]) : e # Endpoint(m, i))
Candidates(m) == Rotation(m) \o Chain(m)

-----------------------------------------------------------------------------
(* A task and its requests.                                                 *)

SetCall(t, c) == call' = [call EXCEPT ![t] = c]
At(t, stage) == call[t].stage = stage

\* A request to a model, in its first or second attempt.
Asking(m, attempt) ==
  [stage |-> "asking", model |-> m, later |-> Candidates(m), at |-> 0, attempt |-> attempt]

StartTask(t) ==
  /\ At(t, "idle") /\ SetCall(t, Between("ready"))
  /\ UNCHANGED <<ledgers, inForce, default, sessionModel, switch, clearing>>

\* An iteration of the loop picks the model and asks it.
Request(t) ==
  /\ At(t, "ready")
  /\ SetCall(t, Asking(MainModel(t), 1))
  /\ UNCHANGED <<ledgers, inForce, default, sessionModel, switch, clearing>>

\* generateWithProviderFailover: an eligible error goes on to the next candidate.
NextCandidate(t) ==
  /\ At(t, "asking") /\ call[t].at < Len(call[t].later)
  /\ SetCall(t, [call[t] EXCEPT !.at = @ + 1])
  /\ UNCHANGED <<ledgers, inForce, default, sessionModel, switch, clearing>>

\* Any other error, or an eligible one of the last candidate, goes to the loop,
\* which asks the same model once more (a compaction, a recovery) or fails the task.
GiveUp(t, error) ==
  /\ At(t, "asking") /\ (error = "eligible" => call[t].at = Len(call[t].later))
  /\ \/ /\ call[t].attempt = 1 /\ SetCall(t, Asking(call[t].model, 2))
     \/ SetCall(t, Between("failed"))
  /\ UNCHANGED <<ledgers, inForce, default, sessionModel, switch, clearing>>

\* Seeded fault: a limit may be reached.
VerdictAbove(used, soft, hard) == IF used > hard THEN "hard"
                                  ELSE IF used > soft THEN "soft" ELSE "within"

\* classifyBudgetState
Verdict(used, soft, hard) == IF used >= hard THEN "hard"
                             ELSE IF used >= soft THEN "soft" ELSE "within"

\* BudgetRecorder.record on an answer: the task is charged and judged first, and
\* when its own limit ends it the session is not charged.
Answer(t, use) ==
  LET s    == SessionOf[t]
      mine == taskUsed[t] + use
      ours == sessionUsed[s] + use
      hardTask    == Verdict(mine, TaskSoft, TaskHard) = "hard"
      hardSession == ~hardTask /\ Verdict(ours, SessionSoft, SessionHard) = "hard"
  IN /\ At(t, "asking")
     /\ taskUsed' = [taskUsed EXCEPT ![t] = mine]
     /\ taskDown' = IF Verdict(mine, TaskSoft, TaskHard) = "soft" THEN taskDown \cup {t} ELSE taskDown
     /\ sessionUsed' = IF hardTask THEN sessionUsed ELSE [sessionUsed EXCEPT ![s] = ours]
     /\ sessionDown' = IF ~hardTask /\ Verdict(ours, SessionSoft, SessionHard) = "soft"
                         THEN sessionDown \cup {s} ELSE sessionDown
     /\ spent' = [spent EXCEPT ![s] = @ + use]
     /\ \E next \in IF hardTask \/ hardSession THEN {"overspent"} ELSE {"ready", "tools", "done"} :
          SetCall(t, Between(next))
     /\ UNCHANGED <<inForce, default, sessionModel, switch, clearing>>

ToolsDone(t) ==
  /\ At(t, "tools") /\ SetCall(t, Between("ready"))
  /\ UNCHANGED <<ledgers, inForce, default, sessionModel, switch, clearing>>

-----------------------------------------------------------------------------
(* Changing the model.  Each operation awaits the context window of the       *)
(* provider, whose failure is swallowed, between the two actions that stand   *)
(* for it.                                                                    *)

\* The guard of switchProvider asks for tasks whose status is "running"; a task
\* that waits for its tools is not one.  It asks for pending approvals and
\* clarifications, too: no task waits for a decision here.
Idle == \A t \in Tasks : ~At(t, "ready") /\ ~At(t, "asking")

SwitchBegin(m, scope) ==
  /\ switch = NoSwitch /\ Idle
  /\ switch' = [model |-> m, scope |-> scope]
  /\ default' = IF scope = Config THEN m ELSE default
  /\ UNCHANGED <<call, ledgers, inForce, sessionModel, clearing>>

\* Seeded fault: a clear leaves the override.
PutPrimaryInForce(m, chosen) ==
  /\ primary' = m /\ auxiliary' = m
  /\ override' = IF chosen THEN m ELSE override

\* applyProviderSwitchResult
PutInForce(m, chosen) ==
  /\ primary' = m /\ auxiliary' = m
  /\ override' = IF chosen THEN m ELSE NoModel

SwitchEnd ==
  /\ switch # NoSwitch /\ PutInForce(switch.model, TRUE)
  /\ sessionModel' = [s \in Sessions |-> IF s = switch.scope THEN switch.model ELSE sessionModel[s]]
  /\ switch' = NoSwitch
  /\ UNCHANGED <<call, ledgers, default, clearing>>

\* clearSessionModelSelection checks neither tasks nor a switch in flight.
ClearBegin(s) ==
  /\ clearing[s] = NoModel
  /\ sessionModel' = [sessionModel EXCEPT ![s] = NoModel]
  /\ clearing' = [clearing EXCEPT ![s] = default]
  /\ UNCHANGED <<call, ledgers, inForce, default, switch>>

ClearEnd(s) ==
  /\ clearing[s] # NoModel /\ PutInForce(clearing[s], FALSE)
  /\ clearing' = [clearing EXCEPT ![s] = NoModel]
  /\ UNCHANGED <<call, ledgers, default, sessionModel, switch>>

-----------------------------------------------------------------------------
TaskCalls(t) ==
  \/ StartTask(t) \/ Request(t) \/ NextCandidate(t) \/ ToolsDone(t)
  \/ \E error \in Outcomes : GiveUp(t, error)
  \/ \E use \in 0..MaxUse : Answer(t, use)

ModelChange ==
  \/ \E m \in Models, scope \in Sessions \cup {Config} : SwitchBegin(m, scope)
  \/ SwitchEnd
  \/ \E s \in Sessions : ClearBegin(s) \/ ClearEnd(s)

CallNext == ModelChange \/ \E t \in Tasks : TaskCalls(t)

CallSpec == CallInit /\ [][CallNext]_callVars

-----------------------------------------------------------------------------
(* Properties                                                               *)

\* Every variable has its type, and the tasks that ask are those with a model.
CallTypeOK ==
  /\ \A t \in Tasks : /\ call[t].stage \in Stages /\ call[t].attempt \in 0..2 /\ call[t].at \in Nat
                     /\ call[t].model \in IF At(t, "asking") THEN Models ELSE {NoModel}
  /\ taskUsed \in [Tasks -> Nat] /\ sessionUsed \in [Sessions -> Nat] /\ spent \in [Sessions -> Nat]
  /\ taskDown \subseteq Tasks /\ sessionDown \subseteq Sessions
  /\ primary \in Models /\ auxiliary \in Models /\ default \in Models
  /\ override \in Models \cup {NoModel}
  /\ sessionModel \in [Sessions -> Models \cup {NoModel}]
  /\ clearing \in [Sessions -> Models \cup {NoModel}]
  /\ switch \in [model : Models, scope : Sessions \cup {Config}] \cup {NoSwitch}

Overspent(s) == {t \in Tasks : SessionOf[t] = s /\ At(t, "overspent")}

\* What the tasks of a session really use stays below its hard limit, but for
\* one last answer of each task that the budget ended: recordUsage lets no task
\* go on after a hard verdict, whichever ledger gave it, although an answer that
\* ends its task is not charged to the session.
SpendBounded ==
  \A s \in Sessions : spent[s] < SessionHard + MaxUse * Cardinality(Overspent(s))

InBand(used, soft, hard) == 0 < used /\ soft <= used /\ used < hard

\* From the answer that brings a task or its session into the band between the
\* limits on, every request of every task of the session goes to the cheap tier:
\* isDowngradeActive, whichever task was charged and whatever model was switched to.
DowngradeHolds ==
  [][\A t \in Tasks :
       /\ At(t, "ready") /\ call'[t].stage = "asking"
       /\ \/ InBand(taskUsed[t], TaskSoft, TaskHard)
          \/ InBand(sessionUsed[SessionOf[t]], SessionSoft, SessionHard)
       => call'[t].model = TierModel("cheap")]_callVars

\* The kernel, the router and the auxiliary slots agree on the model, however
\* switches and clears overlap: an override is the primary of the kernel.
OneModelInForce == auxiliary = primary /\ override \in {NoModel, primary}
=============================================================================
