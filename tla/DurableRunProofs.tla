-------------------------- MODULE DurableRunProofs --------------------------
(***************************************************************************)
(* Proofs about DurableRun for every registry, plan, history, policy and   *)
(* provider: the workflow's input and the handle are well typed and within *)
(* the budgets, an effect is handed out again only where the caller opted  *)
(* in, what a handle observes never goes back, and the durable run keeps   *)
(* the contract of a run.                                                  *)
(***************************************************************************)
EXTENDS DurableRun, RunStateProofs

-----------------------------------------------------------------------------
(* The inductive invariant. *)

\* The canonical state between two tasks: within its budgets, with no call left
\* once it ended by itself, and with the calls its history leaves pending.
Canonical ==
    /\ Good(state)
    /\ NoCallLeft(state)
    /\ state.status = "failed" => state.pending_tools = << >>
    /\ Correlated(state.history) => Sound(state)

\* An activity exists only for an effect, and a workflow returns what is over.
Staged ==
    /\ stage \in Pending => Effect # NoEffect
    /\ stage = "returned" => state.status \in Terminal
    /\ snapshot = SnapshotOf(input)

Delivered == IF stage = "waiting" THEN activity.attempt - 1 ELSE activity.attempt

IsProvider == Effect.kind = "provider"

\* How often a provider effect was handed out: not at all before its round is
\* scheduled, then once for each attempt, within the attempts it may have.
Deliveries ==
    /\ \A round \in DOMAIN executed :
          executed[round] <= IF config.durable_idempotent_provider THEN 2 ELSE 1
    /\ state.status \in Live =>
          \A round \in DOMAIN executed :
             \/ round < state.model_calls
             \/ executed[round] = 0
             \/ stage \in Pending \cup Closed /\ round = state.model_calls /\ IsProvider
    /\ stage \in Pending => activity.attempt > 0
    /\ stage \in Pending /\ IsProvider =>
          /\ activity.attempt <= ActivityMaxAttempts(Effect)
          /\ \A round \in DOMAIN executed : round = state.model_calls => executed[round] = Delivered

\* The handle never ran ahead of the workflow.
Observed ==
    /\ handle.kept => stage = "returned"
    /\ handle.seen.terminal => handle.kept
    /\ ~handle.seen.terminal => handle.seen.cursor <= input.completed_effects
    /\ Grows(handle.seen.state.history, state.history)
    /\ handle.seen.state.status \in Terminal => handle.seen.state = state

Inv == TypeOK /\ Canonical /\ Staged /\ Deliveries /\ Observed

-----------------------------------------------------------------------------
(* What a step does to the canonical state. *)

LEMMA EffectKinds ==
    ASSUME Effect # NoEffect
    PROVE  /\ Expected(state, Effect)
           /\ state.status \in Live
           /\ Effect.kind \in {"provider", "tool", "tool-batch"}
           /\ IsProvider => Effect.key = state.model_calls
<1>1. /\ state.status \in Live
      /\ Effect.kind \in {"provider", "tool", "tool-batch"}
      /\ Effect.kind = "provider" => Effect.key = state.model_calls
  BY DEF Effect, NextEffect, NoEffect, ProviderEffect, ToolEffect, BatchEffect
<1>2. QED
  BY <1>1 DEF Expected, Effect, IsProvider

\* The executor's attempts are those it admitted before the first of them.
LEMMA AttemptsAreAdmitted ==
    ASSUME Good(state), NEW attempts \in InnerAttempts(state)
    PROVE  Admitted(state, attempts)
<1> DEFINE bound == NextModelTokenReservation(state)
<1>1. bound \in Nat \ {0}
  <2>1. Len(state.history) \in Nat
    BY DEF Good, AgentRunState
  <2>2. MessageTokens * Len(state.history) \in Nat
    BY <2>1, TokensAssumption
  <2>3. QED
    BY <2>2, TokensAssumption DEF NextModelTokenReservation
<1>2. Reservation(state, bound) = bound
  BY DEF Reservation
<1>3. state.plan.provider_max_attempts \in Nat \ {0}
  BY DEF Good, AgentRunState, Plan
<1> HIDE DEF bound
<1>4. /\ attempts.count \in 1..state.plan.provider_max_attempts
      /\ MayAttempt(state, bound, attempts.count)
      /\ attempts.reserved = bound /\ attempts.measured \in BOOLEAN
      /\ attempts = [count |-> attempts.count, reserved |-> bound, measured |-> attempts.measured]
  BY DEF InnerAttempts, bound
<1>5. attempts \in Attempts /\ attempts.count > 0
  BY <1>1, <1>3, <1>4 DEF Attempts
<1>6. QED
  BY <1>1, <1>2, <1>4, <1>5, MayAttemptAdmitted

LEMMA ChildUsageType ==
    ASSUME Good(state), NEW child \in ChildUsages(state)
    PROVE  child \in RunUsage
<1>1. DelegatedCalls(state) \in Nat
  BY RemainingType DEF Good
<1>2. EmptyUsage \in RunUsage
  BY DEF EmptyUsage, RunUsage
<1>3. QED
  BY <1>1, <1>2 DEF ChildUsages, RunUsage

\* What the commit of an outcome leaves, before its time is recorded.
Committed(s) ==
    /\ Good(s)
    /\ s.plan = state.plan
    /\ IsProvider => Turns(state, s)
    /\ ~IsProvider => /\ state.pending_tools # << >>
                      /\ \E n \in 1..Len(state.pending_tools) : AnswersFirst(state, s, n)
    /\ Sound(state) => Sound(s)

LEMMA ProviderCommits ==
    ASSUME Canonical, Effect # NoEffect, IsProvider, NEW s \in ProviderOutcomes(state)
    PROVE  Committed(s)
<1>1. /\ Good(state) /\ state \in AgentRunState
      /\ Expected(state, Effect) /\ Effect.kind = "provider"
  BY EffectKinds DEF Canonical, Good, IsProvider
<1>2. ASSUME NEW calls \in Responses \cup {<< >>}, ValidateModelResponse(calls, calls = << >>),
             NEW attempts \in InnerAttempts(state),
             s = CommitProviderResponse(state, Effect, calls, calls = << >>, attempts)
      PROVE  Committed(s)
  <2>1. /\ calls \in Seq(Call) /\ DistinctIds(calls) /\ (calls = << >>) \in BOOLEAN
        /\ Admitted(state, attempts)
    <3>1. calls \in Seq(Call)
      <4>1. \A c \in Responses : c \in Seq(Call)
        BY DurableAssumption
      <4>2. << >> \in Seq(Call)
        OBVIOUS
      <4>3. QED
        BY <4>1, <4>2
    <3>2. DistinctIds(calls)
      BY <1>2, Zenon DEF ValidateModelResponse
    <3>3. Admitted(state, attempts)
      BY <1>1, <1>2, AttemptsAreAdmitted
    <3>4. QED
      BY <3>1, <3>2, <3>3
  <2>2. Good(s)
    BY <1>1, <1>2, <2>1, ProviderResponseGood
  <2>3. Turns(state, s)
    BY <1>1, <1>2, <2>1, ResponseTurns
  <2>4. Sound(state) => Sound(s)
    BY <1>1, <1>2, <2>1, ProviderOutcomesSound
  <2>5. s.plan = state.plan
    BY <1>1, <1>2, PlanIsKept
  <2>6. QED
    BY <2>2, <2>3, <2>4, <2>5 DEF Committed
<1>3. ASSUME NEW attempts \in InnerAttempts(state),
             s = CommitProviderFailure(state, Effect, attempts)
      PROVE  Committed(s)
  <2>1. Admitted(state, attempts)
    BY <1>1, AttemptsAreAdmitted
  <2>2. Good(s)
    BY <1>1, <1>3, <2>1, ProviderFailureGood
  <2>3. Turns(state, s)
    BY <1>1, <1>3, ProviderEndsTurn
  <2>4. Sound(state) => Sound(s)
    BY <1>1, <1>3, <2>1, ProviderOutcomesSound
  <2>5. s.plan = state.plan
    BY <1>1, <1>3, PlanIsKept
  <2>6. QED
    BY <2>2, <2>3, <2>4, <2>5 DEF Committed
<1>4. CASE s = CommitBudgetExhausted(state, Effect)
  <2>1. Good(s)
    BY <1>1, <1>4, BudgetExhaustedGood
  <2>2. Turns(state, s)
    BY <1>1, <1>4, ProviderEndsTurn
  <2>3. Sound(state) => Sound(s)
    BY <1>1, <1>4, BudgetExhaustedSound
  <2>4. s.plan = state.plan
    BY <1>1, <1>4, PlanIsKept
  <2>5. QED
    BY <2>1, <2>2, <2>3, <2>4 DEF Committed
<1>5. QED
  BY <1>2, <1>3, <1>4 DEF ProviderOutcomes

LEMMA ToolCommits ==
    ASSUME Canonical, Effect # NoEffect, ~IsProvider, NEW s \in Outcomes(state)
    PROVE  Committed(s)
<1>1. /\ Good(state) /\ state \in AgentRunState
      /\ Expected(state, Effect) /\ Effect.kind \in {"tool", "tool-batch"}
      /\ state.pending_tools \in Seq(Call) /\ Len(state.pending_tools) \in Nat
  BY EffectKinds DEF Canonical, Good, IsProvider, AgentRunState
<1>2. ASSUME NEW child \in ChildUsages(state), Effect.kind = "tool",
             s = CommitTool(state, Effect, child)
      PROVE  Committed(s)
  <2>1. Good(s)
    BY <1>1, <1>2, ChildUsageType, ToolGood
  <2>2. state.pending_tools # << >> /\ AnswersFirst(state, s, 1)
    BY <1>1, <1>2, ToolAnswers
  <2>3. 1 \in 1..Len(state.pending_tools)
    BY <1>1, <2>2
  <2>4. Sound(state) => Sound(s)
    BY <1>1, <1>2, ToolSound
  <2>5. s.plan = state.plan
    BY <1>1, <1>2, PlanIsKept
  <2>6. QED
    BY <2>1, <2>2, <2>3, <2>4, <2>5 DEF Committed
<1>3. ASSUME NEW child \in ChildUsages(state), Effect.kind = "tool-batch",
             s = CommitBatch(state, Effect, Len(state.pending_tools), child)
      PROVE  Committed(s)
  <2>1. Good(s)
    BY <1>1, <1>3, ChildUsageType, BatchGood
  <2>2. state.pending_tools # << >> /\ AnswersFirst(state, s, Len(state.pending_tools))
    BY <1>1, <1>3, BatchAnswers
  <2>3. Len(state.pending_tools) \in 1..Len(state.pending_tools)
    BY <1>1, <2>2
  <2>4. Sound(state) => Sound(s)
    BY <1>1, <1>3, BatchSound
  <2>5. s.plan = state.plan
    BY <1>1, <1>3, PlanIsKept
  <2>6. QED
    BY <2>1, <2>2, <2>3, <2>4, <2>5 DEF Committed
<1>4. CASE Effect.kind = "tool"
  <2>1. s \in {CommitTool(state, Effect, child) : child \in ChildUsages(state)}
    BY <1>4 DEF Outcomes
  <2>2. QED
    BY <1>2, <1>4, <2>1
<1>5. CASE Effect.kind = "tool-batch"
  <2>1. s \in {CommitBatch(state, Effect, Len(state.pending_tools), child) :
                  child \in ChildUsages(state)}
    BY <1>5 DEF Outcomes
  <2>2. QED
    BY <1>3, <1>5, <2>1
<1>6. QED
  BY <1>1, <1>4, <1>5

LEMMA OutcomesCommit ==
    ASSUME Canonical, Effect # NoEffect, NEW s \in Outcomes(state)
    PROVE  Committed(s)
<1>1. CASE IsProvider
  <2>1. s \in ProviderOutcomes(state)
    BY <1>1 DEF Outcomes, IsProvider
  <2>2. QED
    BY <1>1, <2>1, ProviderCommits
<1>2. QED
  BY <1>1, ToolCommits

\* Time that passed and exhaustion end a run or leave it as it is.
Settles(s, t) ==
    /\ t.history = s.history
    /\ t.pending_tools = s.pending_tools
    /\ t.model_calls = s.model_calls
    /\ \/ t.status = s.status
       \/ s.status \in Live /\ t.status = "cancelled"
       \/ s.status \in Live /\ t.status = "incomplete" /\ s.pending_tools = << >>

LEMMA QuietSettles ==
    ASSUME NEW s \in AgentRunState
    PROVE  /\ Settles(s, Cancel(s))
           /\ Settles(s, FinishIfExhausted(s))
           /\ \A ms : Settles(s, RecordElapsed(s, ms))
<1>1. Settles(s, Cancel(s))
  BY DEF Settles, Cancel, AgentRunState
<1>2. Settles(s, FinishIfExhausted(s))
  BY <1>1 DEF Settles, FinishIfExhausted, Exhausted, AgentRunState
<1>3. \A ms : Settles(s, RecordElapsed(s, ms))
  BY DEF Settles, RecordElapsed, AgentRunState
<1>4. QED
  BY <1>1, <1>2, <1>3

LEMMA RecordedSettles ==
    ASSUME TypeOK, NEW s, Good(s)
    PROVE  /\ Good(Recorded(s)) /\ Recorded(s).plan = s.plan
           /\ Sound(s) => Sound(Recorded(s))
           /\ Settles(s, Recorded(s))
<1> DEFINE r == RecordElapsed(s, activity.spent)
<1>1. activity.spent \in Nat /\ s \in AgentRunState
  BY DEF TypeOK, Activity, Good
<1>2. Good(r) /\ r \in AgentRunState /\ r.plan = s.plan /\ Settles(s, r)
  BY <1>1, QuietStepsGood, QuietSettles, PlanIsKept DEF Good
<1>3. Sound(s) => Sound(r)
  BY <1>1, QuietStepsSound
<1>4. r.status = s.status
  BY <1>1 DEF RecordElapsed, AgentRunState
<1> HIDE DEF r
<1>5. Good(FinishIfExhausted(r)) /\ FinishIfExhausted(r).plan = r.plan
  BY <1>2, QuietStepsGood, PlanIsKept
<1>6. Settles(r, FinishIfExhausted(r)) /\ (Sound(r) => Sound(FinishIfExhausted(r)))
  BY <1>2, QuietSettles, QuietStepsSound
<1>7. Settles(s, FinishIfExhausted(r))
  BY <1>2, <1>4, <1>6 DEF Settles
<1>8. Recorded(s) = FinishIfExhausted(r)
  BY DEF Recorded, r
<1>9. QED
  BY <1>2, <1>3, <1>5, <1>6, <1>7, <1>8

LEMMA QuietMoves ==
    ASSUME Canonical, NEW t, Good(t), Settles(state, t), Sound(state) => Sound(t)
    PROVE  /\ NoCallLeft(t)
           /\ t.status = "failed" => t.pending_tools = << >>
           /\ Correlated(t.history) => Sound(t)
           /\ Grows(state.history, t.history)
<1>1. state \in AgentRunState /\ state.history \in Seq(Message)
  BY DEF Canonical, Good, AgentRunState
<1>2. NoCallLeft(t) /\ (t.status = "failed" => t.pending_tools = << >>)
  BY DEF Canonical, Settles, NoCallLeft
<1>3. Correlated(t.history) => Sound(t)
  BY DEF Canonical, Settles
<1>4. Grows(state.history, t.history)
  BY <1>1 DEF Settles, Grows
<1>5. QED
  BY <1>2, <1>3, <1>4

\* The state an answered effect leaves: the round of a provider call is over, and
\* a tool's answer is no round.
LEMMA CompletionMoves ==
    ASSUME TypeOK, Canonical, Staged, ActivityCompletes
    PROVE  /\ Good(state') /\ state'.plan = state.plan
           /\ Sound(state) /\ Sound(state')
           /\ NoCallLeft(state')
           /\ state'.status = "failed" => state'.pending_tools = << >>
           /\ Grows(state.history, state'.history)
           /\ state.status \in Live /\ state'.status # "pending"
           /\ state'.model_calls >= state.model_calls
           /\ IsProvider /\ state'.status \in Live => state'.model_calls > state.model_calls
<1>1. PICK s \in Outcomes(state) :
        input' = [state |-> Recorded(s),
                  completed_effects |-> input.completed_effects + 1,
                  effects_in_execution |-> input.effects_in_execution + 1]
  BY DEF ActivityCompletes
<1>2. state' = Recorded(s)
  BY <1>1 DEF state
<1>3. stage = "running" /\ ValidateEffectStateHistory(state)
  BY DEF ActivityCompletes
<1>4. Effect # NoEffect
  BY <1>3 DEF Staged, Pending
<1>5. state \in AgentRunState /\ state.model_calls \in Nat
  BY DEF Canonical, Good, AgentRunState
<1>6. state.status \in Live
  BY <1>4, EffectKinds
<1>7. Sound(state)
  BY <1>3, <1>6 DEF Sound, Resolved, Live
<1>8. Committed(s)
  BY <1>4, OutcomesCommit
<1>9. Good(s) /\ Sound(s) /\ s.plan = state.plan /\ s \in AgentRunState /\ s.model_calls \in Nat
  BY <1>7, <1>8 DEF Committed, Good, AgentRunState
<1>10. /\ Good(state') /\ state'.plan = state.plan /\ Sound(state')
       /\ Settles(s, state')
  BY <1>2, <1>9, RecordedSettles
<1>11. Grows(state.history, state'.history)
  <2>1. Grows(state.history, s.history)
    BY <1>5, <1>8, HistoryGrows DEF Committed
  <2>2. QED
    BY <1>10, <2>1 DEF Settles
<1>12. CASE IsProvider
  <2>1. Turns(state, s)
    BY <1>8, <1>12 DEF Committed
  <2>2. /\ state'.status # "pending"
        /\ state'.status \notin {"running", "cancelled"} => state'.pending_tools = << >>
    <3>1. s.status # "pending" /\ (s.status # "running" => s.pending_tools = << >>)
      BY <2>1 DEF Turns
    <3>2. state'.pending_tools = s.pending_tools
      BY <1>10 DEF Settles
    <3>3. state.pending_tools = << >>
      BY <2>1 DEF Turns
    <3>4. QED
      BY <1>10, <3>1, <3>2, <3>3 DEF Settles, Live
  <2>3. /\ state'.model_calls >= state.model_calls
        /\ state'.status \in Live => state'.model_calls > state.model_calls
    BY <1>5, <1>10, <2>1 DEF Turns, Settles, Terminal, Live
  <2>4. QED
    BY <1>6, <1>7, <1>10, <1>11, <2>2, <2>3 DEF NoCallLeft
<1>13. CASE ~IsProvider
  <2>1. state.pending_tools # << >> /\ s.status = state.status /\ s.model_calls = state.model_calls
    BY <1>8, <1>13 DEF Committed, AnswersFirst
  <2>2. state.status = "running"
    BY <1>6, <2>1 DEF Canonical, NoCallLeft, Live
  <2>3. /\ state'.status \in {"running", "cancelled"}
             \/ (state'.status = "incomplete" /\ state'.pending_tools = << >>)
        /\ state'.model_calls = state.model_calls
    BY <1>10, <2>1, <2>2 DEF Settles
  <2>4. QED
    BY <1>5, <1>6, <1>7, <1>10, <1>11, <1>13, <2>3 DEF NoCallLeft
<1>14. QED
  BY <1>12, <1>13

\* Only three steps change the canonical state.
LEMMA StateSteps ==
    ASSUME TypeOK, [Next]_vars
    PROVE  \/ UNCHANGED input
           \/ /\ ContinueAsNew
              /\ state' = state
              /\ input' = [input EXCEPT !.effects_in_execution = 0]
           \/ ActivityCompletes
           \/ /\ Finish
              /\ state' = FinishIfExhausted(state)
              /\ input' = [input EXCEPT !.state = FinishIfExhausted(state)]
           \/ /\ ActivityCancelled
              /\ state' = Cancel(state)
              /\ input' = [input EXCEPT !.state = Cancel(state)]
<1>0. /\ input \in TemporalWorkflowInput
      /\ DOMAIN input = {"state", "completed_effects", "effects_in_execution"}
  BY DEF TypeOK, TemporalWorkflowInput
<1>1. CASE Finish
  <2>1. input' = [input EXCEPT !.state = FinishIfExhausted(input.state)]
    BY <1>1 DEF Finish
  <2>2. QED
    BY <1>0, <1>1, <2>1 DEF state
<1>2. CASE ActivityCancelled
  <2>1. input' = [input EXCEPT !.state = Cancel(input.state)]
    BY <1>2 DEF ActivityCancelled
  <2>2. QED
    BY <1>0, <1>2, <2>1 DEF state
<1>3. CASE ContinueAsNew
  <2>1. input' = [input EXCEPT !.effects_in_execution = 0]
    BY <1>3 DEF ContinueAsNew
  <2>2. QED
    BY <1>0, <1>3, <2>1 DEF state
<1>4. CASE Begin \/ RejectUndeclaredTool \/ ScheduleActivity
  BY <1>4 DEF Begin, RejectUndeclaredTool, ScheduleActivity
<1>5. CASE Timer \/ StartAttempt \/ ActivityErrs \/ WorkerLost \/ HeartbeatFails
  BY <1>5 DEF Timer, Tick, ScheduleToClose, HeartbeatTimeout, HeartbeatFails, Redeliver,
              StartAttempt, ActivityErrs, WorkerLost
<1>6. CASE RequestCancel \/ Observe \/ AwaitResult \/ Over \/ UNCHANGED vars
  BY <1>6 DEF RequestCancel, Observe, AwaitResult, Over, vars
<1>7. QED
  BY <1>1, <1>2, <1>3, <1>4, <1>5, <1>6 DEF Next, WorkflowTask, Answer

\* Whatever step a run takes, its history grows, its rounds go on, and once it has
\* ended its state stays.
Moves ==
    /\ Good(state') /\ state'.plan = state.plan
    /\ NoCallLeft(state')
    /\ state'.status = "failed" => state'.pending_tools = << >>
    /\ Correlated(state'.history) => Sound(state')
    /\ Grows(state.history, state'.history)
    /\ state' = state \/ (state.status \in Live /\ state'.status # "pending")
    /\ state'.history = state.history \/ (Correlated(state.history) /\ Correlated(state'.history))
    /\ state' = state \/ state'.status \in Terminal \/ ActivityCompletes

LEMMA StateMoves ==
    ASSUME TypeOK, Canonical, Staged, [Next]_vars
    PROVE  Moves
<1>1. /\ state \in AgentRunState /\ state.history \in Seq(Message) /\ Good(state)
      /\ state.status \in Status
  BY DEF Canonical, Good, AgentRunState
<1>2. CASE state' = state
  <2>1. Grows(state.history, state'.history)
    BY <1>1, <1>2 DEF Grows
  <2>2. QED
    BY <1>2, <2>1 DEF Moves, Canonical
<1>3. CASE ActivityCompletes
  BY <1>3, CompletionMoves DEF Moves, Sound, ValidateEffectStateHistory
<1>4. ASSUME NEW t, state' = t, t \in {FinishIfExhausted(state), Cancel(state)}
      PROVE  Moves
  <2>1. Good(t) /\ t.plan = state.plan /\ Settles(state, t) /\ (Sound(state) => Sound(t))
    BY <1>1, <1>4, QuietStepsGood, PlanIsKept, QuietSettles, QuietStepsSound
  <2>2. t = state \/ (state.status \in Live /\ t.status \in {"cancelled", "incomplete"})
    BY <1>1, <1>4 DEF FinishIfExhausted, Cancel, Exhausted, AgentRunState
  <2>3. QED
    BY <1>4, <2>1, <2>2, QuietMoves DEF Moves, Settles, Terminal, Status, Live
<1>5. QED
  BY <1>2, <1>3, <1>4, StateSteps DEF state

-----------------------------------------------------------------------------
(* The types, the stages and the snapshot. *)

LEMMA InputType ==
    ASSUME TypeOK, Canonical, Staged, [Next]_vars
    PROVE  /\ input' \in TemporalWorkflowInput
           /\ input'.completed_effects >= input.completed_effects
<1>1. input \in TemporalWorkflowInput /\ Good(state')
  BY StateMoves DEF TypeOK, Moves
<1>2. input'.state \in AgentRunState
  BY <1>1 DEF Good, state
<1>3. CASE UNCHANGED input
  BY <1>1, <1>3 DEF TemporalWorkflowInput
<1>4. CASE ContinueAsNew /\ input' = [input EXCEPT !.effects_in_execution = 0]
  BY <1>1, <1>4 DEF TemporalWorkflowInput
<1>5. CASE ActivityCompletes
  <2>1. PICK s : input' = [state |-> s,
                           completed_effects |-> input.completed_effects + 1,
                           effects_in_execution |-> input.effects_in_execution + 1]
    BY <1>5 DEF ActivityCompletes
  <2>2. QED
    BY <1>1, <1>2, <2>1 DEF TemporalWorkflowInput
<1>6. ASSUME NEW t, input' = [input EXCEPT !.state = t]
      PROVE  /\ input' \in TemporalWorkflowInput
             /\ input'.completed_effects >= input.completed_effects
  BY <1>1, <1>2, <1>6 DEF TemporalWorkflowInput
<1>7. QED
  BY <1>3, <1>4, <1>5, <1>6, StateSteps

\* The workflow and the activity: what a step does to them.
LEMMA StagesMove ==
    ASSUME TypeOK, [Next]_vars
    PROVE  /\ config' = config
           /\ stage' \in {"start", "decide"} \cup Pending \cup Closed
           /\ activity' \in Activity
           /\ cancel' \in BOOLEAN
<1> USE DEF TypeOK, Pending, Closed
<1>0. NoActivity \in Activity /\ [NoActivity EXCEPT !.attempt = 1] \in Activity
  BY DEF NoActivity, Activity
<1>1. CASE Begin \/ Finish \/ ContinueAsNew \/ RejectUndeclaredTool \/ ScheduleActivity
  BY <1>0, <1>1
  DEF Begin, Finish, ContinueAsNew, RejectUndeclaredTool, ScheduleActivity, Close
<1>2. CASE Redeliver /\ UNCHANGED config
  <2>1. [activity EXCEPT !.attempt = activity.attempt + 1] \in Activity
    BY DEF Activity
  <2>2. activity' \in Activity
    BY <1>0, <1>2, <2>1 DEF Redeliver, Close
  <2>3. QED
    BY <1>2, <2>2 DEF Redeliver, Close
<1>3. CASE Tick
  <2> DEFINE ms == IF stage = "running" THEN 1 ELSE 0
  <2>1. ms \in Nat
    OBVIOUS
  <2>2. activity' = [activity EXCEPT !.clock = activity.clock + 1, !.spent = activity.spent + ms]
    BY <1>3 DEF Tick
  <2> HIDE DEF ms, TypeOK, Pending, Closed
  <2>3. activity \in [attempt : Nat, clock : Nat, spent : Nat]
    BY DEF TypeOK, Activity
  <2>4. activity.clock + 1 \in Nat /\ activity.spent + ms \in Nat
    BY <2>1, <2>3
  <2>5. activity' \in [attempt : Nat, clock : Nat, spent : Nat]
    BY <2>2, <2>3, <2>4
  <2>6. UNCHANGED <<config, stage, cancel>>
    BY <1>3 DEF Tick
  <2>7. QED
    BY <2>5, <2>6 DEF Activity, TypeOK, Pending, Closed
<1>4. CASE StartAttempt
  <2>1. [activity EXCEPT !.spent = 0] \in Activity
    BY DEF Activity
  <2>2. QED
    BY <1>4, <2>1 DEF StartAttempt
<1>5. CASE ScheduleToClose \/ ActivityErrs \/ WorkerLost \/ ActivityCancelled \/ ActivityCompletes
  BY <1>0, <1>5 DEF ScheduleToClose, ActivityErrs, WorkerLost, ActivityCancelled, ActivityCompletes,
                    Close
<1>6. CASE RequestCancel \/ Observe \/ AwaitResult \/ Over \/ UNCHANGED vars
  BY <1>6 DEF RequestCancel, Observe, AwaitResult, Over, vars
<1>7. QED
  BY <1>1, <1>2, <1>3, <1>4, <1>5, <1>6
  DEF Next, WorkflowTask, Timer, Answer, HeartbeatTimeout, HeartbeatFails, Redeliver

LEMMA SnapshotType ==
    ASSUME NEW i \in TemporalWorkflowInput
    PROVE  SnapshotOf(i) \in TemporalRunSnapshot
BY DEF SnapshotOf, TemporalWorkflowInput, TemporalRunSnapshot

\* The steps that leave the input, and what was stored of it, alone.
LEMMA OtherSteps ==
    ASSUME [Next]_vars
    PROVE  \/ Begin \/ Finish \/ ContinueAsNew \/ ActivityCompletes \/ ActivityCancelled
           \/ /\ UNCHANGED <<input, snapshot>>
              /\ \/ stage' = stage
                 \/ stage' = "failed"
                 \/ stage' \in Pending /\ stage \in Pending
                 \/ ScheduleActivity
<1>1. CASE RejectUndeclaredTool \/ ScheduleActivity
  BY <1>1 DEF RejectUndeclaredTool, ScheduleActivity, Close
<1>2. CASE Timer \/ StartAttempt \/ ActivityErrs \/ WorkerLost \/ HeartbeatFails
  BY <1>2 DEF Timer, Tick, ScheduleToClose, HeartbeatTimeout, HeartbeatFails, Redeliver,
              StartAttempt, ActivityErrs, WorkerLost, Close, Pending
<1>3. CASE RequestCancel \/ Observe \/ AwaitResult \/ Over \/ UNCHANGED vars
  BY <1>3 DEF RequestCancel, Observe, AwaitResult, Over, vars
<1>4. QED
  BY <1>1, <1>2, <1>3 DEF Next, WorkflowTask, Answer

\* Every write of the input is followed by one of the snapshot.
LEMMA StepKeepsSnapshot ==
    ASSUME TypeOK, snapshot = SnapshotOf(input), [Next]_vars
    PROVE  snapshot' = SnapshotOf(input')
<1>1. CASE Finish \/ ActivityCompletes \/ ActivityCancelled
  BY <1>1 DEF Finish, ActivityCompletes, ActivityCancelled
<1>2. CASE Begin
  BY <1>2 DEF Begin
<1>3. CASE ContinueAsNew
  <2>1. /\ input' = [input EXCEPT !.effects_in_execution = 0]
        /\ snapshot' = snapshot
        /\ DOMAIN input = {"state", "completed_effects", "effects_in_execution"}
    BY <1>3 DEF ContinueAsNew, TypeOK, TemporalWorkflowInput
  <2>2. input'.state = input.state /\ input'.completed_effects = input.completed_effects
    BY <2>1
  <2>3. QED
    BY <2>1, <2>2 DEF SnapshotOf
<1>4. CASE UNCHANGED <<input, snapshot>>
  BY <1>4
<1>5. QED
  BY <1>1, <1>2, <1>3, <1>4, OtherSteps

\* An activity is scheduled for an effect, and a workflow that returns its state
\* has nothing left to do.
LEMMA StepKeepsStaged ==
    ASSUME TypeOK, Canonical, Staged, [Next]_vars
    PROVE  Staged'
<1>1. snapshot' = SnapshotOf(input')
  BY StepKeepsSnapshot DEF Staged
<1>2. state \in AgentRunState /\ state.status \in Status
  BY DEF Canonical, Good, AgentRunState
<1>3. CASE Begin
  <2>1. stage' \in {"decide", "failed"}
    BY <1>3 DEF Begin
  <2>2. QED
    BY <1>1, <2>1 DEF Staged, Pending, SnapshotOf
<1>4. CASE Finish
  <2>1. stage' = "returned" /\ Idle
    BY <1>4 DEF Finish, Close
  <2>2. state' = FinishIfExhausted(state)
    BY <1>4 DEF Finish, state, TypeOK, TemporalWorkflowInput
  <2>3. state.status \in Live => Exhausted(state)
    BY <2>1 DEF Idle, Effect, NextEffect, NoEffect, ToolEffect, BatchEffect, ProviderEffect, Exhausted
  <2>4. FinishIfExhausted(state).status \in Terminal
    BY <1>2, <2>3 DEF FinishIfExhausted, Exhausted, Cancel, Terminal, Status, Live, AgentRunState
  <2>5. QED
    BY <1>1, <2>1, <2>2, <2>4 DEF Staged, Pending, SnapshotOf
<1>5. CASE ContinueAsNew \/ ActivityCompletes
  <2>1. stage' \in {"start", "decide"}
    BY <1>5 DEF ContinueAsNew, ActivityCompletes
  <2>2. QED
    BY <1>1, <2>1 DEF Staged, Pending, SnapshotOf
<1>6. CASE ActivityCancelled
  <2>1. stage' = "returned" /\ stage \in Pending
    BY <1>6 DEF ActivityCancelled, Close, Pending
  <2>2. state' = Cancel(state)
    BY <1>6 DEF ActivityCancelled, state, TypeOK, TemporalWorkflowInput
  <2>3. state.status \in Live
    BY <2>1, EffectKinds DEF Staged
  <2>4. Cancel(state).status \in Terminal
    BY <1>2, <2>3 DEF Cancel, Terminal, Status, Live, AgentRunState
  <2>5. QED
    BY <1>1, <2>1, <2>2, <2>4 DEF Staged, Pending, SnapshotOf
<1>7. CASE /\ UNCHANGED <<input, snapshot>>
           /\ \/ stage' = stage
              \/ stage' = "failed"
              \/ stage' \in Pending /\ stage \in Pending
              \/ ScheduleActivity
  <2>1. state' = state /\ Effect' = Effect /\ SnapshotOf(input)' = SnapshotOf(input)
    BY <1>7 DEF state, Effect, SnapshotOf
  <2>2. ScheduleActivity => stage' = "waiting" /\ Effect # NoEffect
    BY DEF ScheduleActivity, Idle
  <2>3. QED
    BY <1>7, <2>1, <2>2 DEF Staged, Pending
<1>8. QED
  BY <1>3, <1>4, <1>5, <1>6, <1>7, OtherSteps

-----------------------------------------------------------------------------
(* Deliveries of an effect. *)

\* Only a delivery is counted, and only that of a provider effect.
LEMMA DeliveriesCount ==
    ASSUME TypeOK, [Next]_vars
    PROVE  /\ executed' = executed \/ (StartAttempt /\ IsProvider)
           /\ DOMAIN executed' = DOMAIN executed
           /\ \A round \in DOMAIN executed : executed'[round] \in Nat
<1>1. CASE StartAttempt
  BY <1>1 DEF StartAttempt, IsProvider, TypeOK
<1>2. CASE WorkflowTask \/ Timer \/ Answer
  BY <1>2 DEF WorkflowTask, Timer, Answer, Begin, Finish, ContinueAsNew, RejectUndeclaredTool,
              ScheduleActivity, Tick, ScheduleToClose, HeartbeatTimeout, HeartbeatFails, Redeliver,
              ActivityErrs, WorkerLost, ActivityCompletes, TypeOK
<1>3. CASE ActivityCancelled \/ RequestCancel \/ Observe \/ AwaitResult \/ Over \/ UNCHANGED vars
  BY <1>3 DEF ActivityCancelled, RequestCancel, Observe, AwaitResult, Over, vars, TypeOK
<1>4. QED
  BY <1>1, <1>2, <1>3 DEF Next

LEMMA StartKeepsDeliveries ==
    ASSUME TypeOK, Canonical, Staged, Deliveries, StartAttempt
    PROVE  Deliveries'
<1>1. /\ stage = "waiting" /\ stage' = "running"
      /\ activity' = [activity EXCEPT !.spent = 0]
      /\ UNCHANGED <<config, input>>
      /\ executed' = IF IsProvider THEN [executed EXCEPT ![Effect.key] = executed[Effect.key] + 1]
                                   ELSE executed
  BY DEF StartAttempt, IsProvider
<1>2. state' = state /\ Effect' = Effect /\ (IsProvider' <=> IsProvider)
  BY <1>1 DEF state, Effect, IsProvider
<1>3. activity'.attempt = activity.attempt /\ activity.attempt \in Nat
  BY <1>1 DEF TypeOK, Activity
<1>4. Effect # NoEffect /\ (IsProvider => Effect.key = state.model_calls)
  BY <1>1, EffectKinds DEF Staged, Pending
<1>5. /\ ActivityMaxAttempts(Effect) \in {1, 2}
      /\ ActivityMaxAttempts(Effect)' = ActivityMaxAttempts(Effect)
      /\ IsProvider => ActivityMaxAttempts(Effect) = IF config.durable_idempotent_provider THEN 2 ELSE 1
  BY <1>1, <1>2 DEF ActivityMaxAttempts, IsProvider
<1>6. CASE ~IsProvider
  <2>1. executed' = executed
    BY <1>1, <1>6
  <2>2. QED
    BY <1>1, <1>2, <1>3, <1>6, <2>1 DEF Deliveries, Pending, Closed
<1>7. CASE IsProvider
  <2> DEFINE key == state.model_calls
  <2>1. executed' = [executed EXCEPT ![key] = executed[key] + 1]
    BY <1>1, <1>4, <1>7
  <2>2. /\ DOMAIN executed' = DOMAIN executed
        /\ \A round \in DOMAIN executed :
              executed'[round] = IF round = key THEN executed[round] + 1 ELSE executed[round]
    BY <2>1
  <2>3. key \in DOMAIN executed => executed[key] = activity.attempt - 1
    BY <1>1, <1>7 DEF Deliveries, Pending, Delivered
  <2>4. activity.attempt <= ActivityMaxAttempts(Effect) /\ activity.attempt > 0
    BY <1>1, <1>7 DEF Deliveries, Pending
  <2>5. \A round \in DOMAIN executed : round = key => executed'[round] = activity.attempt
    BY <1>3, <2>2, <2>3
  <2>6. \A round \in DOMAIN executed' :
           executed'[round] <= IF config'.durable_idempotent_provider THEN 2 ELSE 1
    BY <1>1, <1>3, <1>5, <1>7, <2>2, <2>4, <2>5 DEF Deliveries
  <2>7. \A round \in DOMAIN executed' :
           \/ round < state'.model_calls
           \/ executed'[round] = 0
           \/ stage' \in Pending \cup Closed /\ round = state'.model_calls /\ IsProvider'
    <3>1. SUFFICES ASSUME NEW round \in DOMAIN executed, round # key
                   PROVE  round < key \/ executed'[round] = 0
      BY <1>1, <1>2, <1>7, <2>2 DEF Pending
    <3>2. state.status \in Live
      BY <1>4, EffectKinds
    <3>3. QED
      BY <2>2, <3>1, <3>2 DEF Deliveries
  <2>8. Delivered' = activity.attempt
    BY <1>1, <1>3 DEF Delivered
  <2>9. QED
    BY <1>1, <1>2, <1>3, <1>5, <1>7, <2>2, <2>4, <2>5, <2>6, <2>7, <2>8 DEF Deliveries
<1>8. QED
  BY <1>6, <1>7

\* While the input and the counts stay, so do the deliveries of an attempt that
\* goes on, and those of an effect that is given up.
LEMMA SameDeliveries ==
    ASSUME Deliveries, config' = config, state' = state, executed' = executed,
           \/ stage' \in Closed
           \/ stage' \in {"start", "decide"} /\ stage \in {"start", "decide"}
           \/ stage' = stage /\ activity'.attempt = activity.attempt
           \/ stage = "running" /\ stage' = "lost" /\ activity'.attempt = activity.attempt
    PROVE  Deliveries'
<1>1. Effect' = Effect /\ (IsProvider' <=> IsProvider)
  BY DEF Effect, IsProvider
<1>2. ActivityMaxAttempts(Effect)' = ActivityMaxAttempts(Effect)
  BY <1>1 DEF ActivityMaxAttempts
<1>3. stage' \in Pending => activity'.attempt = activity.attempt /\ stage \in Pending
  BY DEF Pending, Closed
<1>4. stage' \in Pending => Delivered' = Delivered
  BY <1>3 DEF Delivered, Pending, Closed
<1>5. stage \in Pending \cup Closed => stage' \in Pending \cup Closed
  BY DEF Pending, Closed
<1>6. QED
  BY <1>1, <1>2, <1>3, <1>4, <1>5 DEF Deliveries

LEMMA RedeliverKeepsDeliveries ==
    ASSUME TypeOK, Deliveries, Redeliver, stage \in {"running", "lost"}
    PROVE  Deliveries'
<1>1. CASE stage' = "failed" /\ UNCHANGED <<config, input, executed>>
  BY <1>1, SameDeliveries DEF Closed, state
<1>2. CASE /\ activity.attempt < ActivityMaxAttempts(Effect)
           /\ stage' = "waiting"
           /\ activity' = [activity EXCEPT !.attempt = activity.attempt + 1]
           /\ UNCHANGED <<config, input, executed>>
  <2>1. state' = state /\ Effect' = Effect /\ (IsProvider' <=> IsProvider)
    BY <1>2 DEF state, Effect, IsProvider
  <2>2. ActivityMaxAttempts(Effect)' = ActivityMaxAttempts(Effect) /\ ActivityMaxAttempts(Effect) \in Nat
    BY <1>2, <2>1 DEF ActivityMaxAttempts
  <2>3. activity.attempt \in Nat /\ activity'.attempt = activity.attempt + 1
    BY <1>2 DEF TypeOK, Activity
  <2>4. Delivered' = Delivered
    BY <1>2, <2>3 DEF Delivered
  <2>5. stage \in Pending /\ stage' \in Pending
    BY <1>2 DEF Pending
  <2>6. activity'.attempt > 0 /\ activity'.attempt <= ActivityMaxAttempts(Effect)'
    BY <1>2, <2>2, <2>3
  <2>7. QED
    BY <1>2, <2>1, <2>4, <2>5, <2>6 DEF Deliveries
<1>3. QED
  BY <1>1, <1>2 DEF Redeliver, Close

LEMMA ScheduleKeepsDeliveries ==
    ASSUME TypeOK, Canonical, Deliveries, ScheduleActivity
    PROVE  Deliveries'
<1>1. /\ stage = "decide" /\ stage' = "waiting" /\ Effect # NoEffect
      /\ activity'.attempt = 1
      /\ UNCHANGED <<config, input, executed>>
  BY DEF ScheduleActivity, Idle, NoActivity
<1>2. state' = state /\ Effect' = Effect /\ (IsProvider' <=> IsProvider)
  BY <1>1 DEF state, Effect, IsProvider
<1>3. state.status \in Live /\ state.model_calls \in Nat
  BY <1>1, EffectKinds DEF Canonical, Good, AgentRunState
<1>4. \A round \in DOMAIN executed : round < state.model_calls \/ executed[round] = 0
  BY <1>1, <1>3 DEF Deliveries, Pending, Closed
<1>5. \A round \in DOMAIN executed : round = state.model_calls => executed[round] = 0
  BY <1>3, <1>4
<1>6. Delivered' = 0
  BY <1>1 DEF Delivered
<1>7. activity'.attempt <= ActivityMaxAttempts(Effect)'
  BY <1>1 DEF ActivityMaxAttempts
<1>8. QED
  BY <1>1, <1>2, <1>3, <1>4, <1>5, <1>6, <1>7 DEF Deliveries

LEMMA CompletionKeepsDeliveries ==
    ASSUME TypeOK, Canonical, Staged, Deliveries, ActivityCompletes
    PROVE  Deliveries'
<1>1. /\ stage = "running" /\ stage' = "decide" /\ UNCHANGED <<config, executed>>
  BY DEF ActivityCompletes
<1>2. /\ state.status \in Live
      /\ state'.model_calls >= state.model_calls
      /\ IsProvider /\ state'.status \in Live => state'.model_calls > state.model_calls
  BY CompletionMoves
<1>3. /\ state.model_calls \in Nat /\ state'.model_calls \in Nat
      /\ \A round \in DOMAIN executed : round \in Int
  BY CompletionMoves DEF Canonical, Good, AgentRunState, TypeOK
<1>4. ASSUME NEW round \in DOMAIN executed, state'.status \in Live
      PROVE  round < state'.model_calls \/ executed[round] = 0
  <2>1. \/ round < state.model_calls
        \/ executed[round] = 0
        \/ round = state.model_calls /\ IsProvider
    BY <1>2 DEF Deliveries
  <2>2. QED
    BY <1>2, <1>3, <1>4, <2>1
<1>5. QED
  BY <1>1, <1>4 DEF Deliveries, Pending

\* The rounds that may be handed out again are those the caller opted in for.
LEMMA StepKeepsDeliveries ==
    ASSUME TypeOK, Canonical, Staged, Deliveries, Staged', [Next]_vars
    PROVE  Deliveries'
<1>1. CASE stage' = "returned"
  <2>1. state'.status \notin Live /\ config' = config /\ stage' \notin Pending
    BY <1>1, StagesMove DEF Staged, Terminal, Pending
  <2>2. executed' = executed
    BY <1>1, DeliveriesCount DEF StartAttempt
  <2>3. QED
    BY <2>1, <2>2 DEF Deliveries
<1>2. CASE stage' # "returned"
  <2>1. CASE Begin \/ ContinueAsNew \/ RejectUndeclaredTool
    <3>1. state' = state
      BY <2>1 DEF Begin, ContinueAsNew, RejectUndeclaredTool, state, TypeOK, TemporalWorkflowInput
    <3>2. QED
      BY <2>1, <3>1, SameDeliveries DEF Begin, ContinueAsNew, RejectUndeclaredTool, Close, Closed
  <2>2. CASE Tick
    <3>1. activity'.attempt = activity.attempt
      BY <2>2 DEF Tick, TypeOK, Activity
    <3>2. QED
      BY <2>2, <3>1, SameDeliveries DEF Tick, state
  <2>3. CASE ScheduleToClose \/ ActivityErrs \/ WorkerLost
    BY <2>3, SameDeliveries DEF ScheduleToClose, ActivityErrs, WorkerLost, Close, Closed, state
  <2>4. CASE HeartbeatTimeout \/ HeartbeatFails
    BY <2>4, RedeliverKeepsDeliveries DEF HeartbeatTimeout, HeartbeatFails
  <2>5. CASE RequestCancel \/ Observe \/ AwaitResult \/ Over \/ UNCHANGED vars
    BY <2>5, SameDeliveries DEF RequestCancel, Observe, AwaitResult, Over, vars, state
  <2>6. QED
    BY <1>2, <2>1, <2>2, <2>3, <2>4, <2>5, StartKeepsDeliveries, ScheduleKeepsDeliveries,
       CompletionKeepsDeliveries
    DEF Next, WorkflowTask, Timer, Answer, Finish, ActivityCancelled, Close
<1>3. QED
  BY <1>1, <1>2

-----------------------------------------------------------------------------
(* What the handle saw. *)

\* The handle observes what the workflow stored, or the state it keeps.
LEMMA HandleSteps ==
    ASSUME TypeOK, Staged, [Next]_vars
    PROVE  \/ handle' = handle
           \/ /\ UNCHANGED <<input, stage>>
              /\ \/ /\ handle.kept /\ handle'.kept = handle.kept
                    /\ handle'.seen = [state |-> state, cursor |-> input.completed_effects,
                                       terminal |-> TRUE]
                 \/ ~handle.kept /\ handle'.kept = handle.kept /\ handle'.seen = SnapshotOf(input)
                 \/ stage = "returned" /\ handle'.kept /\ handle'.seen = handle.seen
<1>1. CASE Observe
  BY <1>1 DEF Observe, TypeOK, Staged
<1>2. CASE AwaitResult
  BY <1>2 DEF AwaitResult, TypeOK
<1>3. CASE WorkflowTask \/ Timer \/ Answer \/ StartAttempt
  BY <1>3 DEF WorkflowTask, Timer, Answer, Begin, Finish, ContinueAsNew, RejectUndeclaredTool,
              ScheduleActivity, Tick, ScheduleToClose, HeartbeatTimeout, HeartbeatFails, Redeliver,
              StartAttempt, ActivityErrs, WorkerLost, ActivityCompletes
<1>4. CASE ActivityCancelled \/ RequestCancel \/ Over \/ UNCHANGED vars
  BY <1>4 DEF ActivityCancelled, RequestCancel, Over, vars
<1>5. QED
  BY <1>1, <1>2, <1>3, <1>4 DEF Next

LEMMA HandleType ==
    ASSUME TypeOK, Staged, [Next]_vars
    PROVE  handle' \in [seen : TemporalRunSnapshot, kept : BOOLEAN]
<1>1. SnapshotOf(input) \in TemporalRunSnapshot
  BY SnapshotType DEF TypeOK
<1>2. [state |-> state, cursor |-> input.completed_effects, terminal |-> TRUE] \in TemporalRunSnapshot
  BY DEF TypeOK, TemporalRunSnapshot, TemporalWorkflowInput, state
<1>3. CASE Observe
  BY <1>1, <1>2, <1>3 DEF Observe, TypeOK, Staged
<1>4. CASE AwaitResult
  BY <1>4 DEF AwaitResult, TypeOK
<1>5. CASE handle' = handle
  BY <1>5 DEF TypeOK
<1>6. CASE WorkflowTask \/ Timer \/ Answer \/ StartAttempt
  BY <1>5, <1>6
  DEF WorkflowTask, Timer, Answer, Begin, Finish, ContinueAsNew, RejectUndeclaredTool,
      ScheduleActivity, Tick, ScheduleToClose, HeartbeatTimeout, HeartbeatFails, Redeliver,
      StartAttempt, ActivityErrs, WorkerLost, ActivityCompletes
<1>7. CASE ActivityCancelled \/ RequestCancel \/ Over \/ UNCHANGED vars
  BY <1>5, <1>7 DEF ActivityCancelled, RequestCancel, Over, vars
<1>8. QED
  BY <1>3, <1>4, <1>6, <1>7 DEF Next

\* Once a workflow is closed its input stays.
LEMMA ClosedStays ==
    ASSUME [Next]_vars, stage \in Closed
    PROVE  UNCHANGED <<input, stage>>
BY DEF Closed, Pending,
       Next, WorkflowTask, Timer, Answer, Begin, Finish, ContinueAsNew, RejectUndeclaredTool,
       ScheduleActivity, Tick, ScheduleToClose, HeartbeatTimeout, HeartbeatFails, Redeliver,
       StartAttempt, ActivityErrs, WorkerLost, ActivityCancelled, ActivityCompletes,
       RequestCancel, Observe, AwaitResult, Over, vars

\* What a handle saw stays behind the workflow, and what it keeps is the end.
LEMMA StepKeepsObserved ==
    ASSUME TypeOK, Canonical, Staged, Observed, [Next]_vars
    PROVE  Observed'
<1>1. /\ Grows(state.history, state'.history)
      /\ state' = state \/ state.status \in Live
  BY StateMoves DEF Moves
<1>2. handle.kept => stage' = "returned"
  BY ClosedStays DEF Observed, Closed
<1>3. Live \cap Terminal = {}
  BY DEF Terminal
<1>4. CASE handle' = handle
  <2>1. Grows(handle.seen.state.history, state'.history)
    BY <1>1, GrowsOn DEF Observed
  <2>2. ~handle.seen.terminal => handle.seen.cursor <= input'.completed_effects
    <3>1. /\ input'.completed_effects >= input.completed_effects
          /\ input'.completed_effects \in Nat /\ input.completed_effects \in Nat
          /\ handle.seen.cursor \in Nat
      BY InputType DEF TypeOK, TemporalWorkflowInput, TemporalRunSnapshot
    <3>2. QED
      BY <3>1 DEF Observed
  <2>3. handle.seen.state.status \in Terminal => handle.seen.state = state'
    BY <1>1, <1>3 DEF Observed
  <2>4. QED
    BY <1>2, <1>4, <2>1, <2>2, <2>3 DEF Observed
<1>5. CASE /\ UNCHANGED <<input, stage>>
           /\ \/ /\ handle.kept /\ handle'.kept = handle.kept
                 /\ handle'.seen = [state |-> state, cursor |-> input.completed_effects,
                                    terminal |-> TRUE]
              \/ ~handle.kept /\ handle'.kept = handle.kept /\ handle'.seen = SnapshotOf(input)
  <2>1. state' = state /\ state.history \in Seq(Message) /\ input.completed_effects \in Nat
    BY <1>5 DEF state, Canonical, Good, AgentRunState, TypeOK, TemporalWorkflowInput
  <2>2. Grows(state.history, state.history)
    BY <2>1 DEF Grows
  <2>3. /\ handle'.kept <=> handle.kept
        /\ handle'.seen.terminal <=> handle.kept
        /\ handle'.seen.state = state
        /\ handle'.seen.cursor = input.completed_effects
    BY <1>5 DEF SnapshotOf, state
  <2>4. handle'.seen.cursor <= input'.completed_effects
    BY <1>5, <2>1, <2>3
  <2>5. Grows(handle'.seen.state.history, state'.history)
    BY <2>1, <2>2, <2>3
  <2>6. QED
    BY <1>2, <2>1, <2>3, <2>4, <2>5 DEF Observed
<1>6. CASE UNCHANGED <<input, stage>> /\ stage = "returned" /\ handle'.kept /\ handle'.seen = handle.seen
  BY <1>6 DEF Observed, state
<1>7. QED
  BY <1>4, <1>5, <1>6, HandleSteps

-----------------------------------------------------------------------------
(* The invariant holds. *)

LEMMA InitInv == Init => Inv
<1> SUFFICES ASSUME Init PROVE Inv
  OBVIOUS
<1>1. PICK plan \in Plans, history \in Histories :
        input = [state |-> NewState(plan, Append(history, UserMessage)),
                 completed_effects |-> 0, effects_in_execution |-> 0]
  BY DEF Init
<1>2. /\ state = NewState(plan, Append(history, UserMessage))
      /\ input.completed_effects = 0 /\ input.effects_in_execution = 0
  BY <1>1 DEF state
<1>3. plan \in Plan /\ history \in Seq(Message) /\ Append(history, UserMessage) \in Seq(Message)
  <2>1. plan \in Plan /\ history \in Seq(Message)
    BY DurableAssumption
  <2>2. UserMessage \in Message
    BY DEF UserMessage, Message
  <2>3. QED
    BY <2>1, <2>2
<1>4. /\ state.history = Append(history, UserMessage) /\ state.status = "pending"
      /\ state.pending_tools = << >> /\ state.plan = plan
  BY <1>2 DEF NewState
<1>5. Good(state)
  BY <1>2, <1>3, NewStateGood
<1>6. /\ config \in Configs /\ stage = "start" /\ activity = NoActivity
      /\ snapshot = SnapshotOf(input) /\ cancel = FALSE
      /\ executed = [round \in 0..(state.plan.model_call_limit - 1) |-> 0]
      /\ handle = [seen |-> SnapshotOf(input), kept |-> FALSE]
  BY DEF Init
<1>7. TypeOK
  <2>1. config \in TemporalRunConfig
    BY <1>6, DurableAssumption
  <2>2. input \in TemporalWorkflowInput
    BY <1>1, <1>2, <1>5 DEF TemporalWorkflowInput, Good
  <2>3. SnapshotOf(input) \in TemporalRunSnapshot
    BY <2>2, SnapshotType
  <2>4. NoActivity \in Activity
    BY DEF NoActivity, Activity
  <2>5. QED
    BY <1>6, <2>1, <2>2, <2>3, <2>4 DEF TypeOK
<1>8. Canonical
  <2>1. Correlated(state.history) => Leaves(state.history, << >>)
    BY <1>3, <1>4, PromptResolves
  <2>2. QED
    BY <1>4, <1>5, <2>1 DEF Canonical, NoCallLeft, Sound, Resolved, ValidateEffectStateHistory
<1>9. Staged
  BY <1>6 DEF Staged, Pending
<1>10. Deliveries
  BY <1>6 DEF Deliveries, Pending
<1>11. Observed
  <2>1. /\ handle.seen.state = state /\ handle.seen.cursor = input.completed_effects
        /\ handle.seen.terminal = FALSE /\ handle.kept = FALSE
    BY <1>6 DEF SnapshotOf, state
  <2>2. Grows(state.history, state.history)
    BY <1>3, <1>4 DEF Grows
  <2>3. QED
    BY <1>2, <2>1, <2>2 DEF Observed
<1>12. QED
  BY <1>7, <1>8, <1>9, <1>10, <1>11 DEF Inv

LEMMA StepKeepsTypes ==
    ASSUME TypeOK, Canonical, Staged, [Next]_vars
    PROVE  TypeOK'
<1>1. input' \in TemporalWorkflowInput /\ Staged' /\ state'.plan = state.plan
  BY InputType, StepKeepsStaged, StateMoves DEF Moves
<1>2. snapshot' \in TemporalRunSnapshot
  BY <1>1, SnapshotType DEF Staged
<1>3. QED
  BY <1>1, <1>2, StagesMove, DeliveriesCount, HandleType DEF TypeOK

LEMMA StepKeepsInv == Inv /\ [Next]_vars => Inv'
<1> SUFFICES ASSUME Inv, [Next]_vars PROVE Inv'
  OBVIOUS
<1>1. TypeOK /\ Canonical /\ Staged /\ Deliveries /\ Observed
  BY DEF Inv
<1>2. TypeOK' /\ Staged'
  BY <1>1, StepKeepsTypes, StepKeepsStaged
<1>3. Canonical'
  BY <1>1, StateMoves DEF Moves, Canonical
<1>4. Deliveries' /\ Observed'
  BY <1>1, <1>2, StepKeepsDeliveries, StepKeepsObserved
<1>5. QED
  BY <1>2, <1>3, <1>4 DEF Inv

\* Over all steps of workflow, activities, service, caller and clock, the run stays
\* within its budgets, hands an effect out only as often as it may, and is never
\* behind what its handle saw.
THEOREM DurableRunStaysSound == Spec => []Inv
BY InitInv, StepKeepsInv, PTL DEF Spec

\* The workflow's input and the handle keep the shapes of the code.
THEOREM WorkflowIsTyped == Spec => []TypeOK
<1>1. Inv => TypeOK
  BY DEF Inv
<1>2. QED
  BY <1>1, DurableRunStaysSound, PTL

\* A provider effect is handed to a worker at most once, or twice where the caller
\* declared the provider idempotent: over lost workers, missed heartbeats and any
\* number of continued executions (activity options of runtime/workflow.rs).
THEOREM RedeliveryStaysOptIn == Spec => []RedeliveryIsOptIn
<1>1. Inv => RedeliveryIsOptIn
  BY DEF Inv, Deliveries, RedeliveryIsOptIn
<1>2. QED
  BY <1>1, DurableRunStaysSound, PTL

-----------------------------------------------------------------------------
(* What a handle observes never goes back. *)

LEMMA StepAdvances ==
    ASSUME Inv, [Next]_vars
    PROVE  \/ UNCHANGED vars
           \/ /\ CursorReaches(handle'.seen, handle.seen)
              /\ IsPrefix(handle.seen.state.history, handle'.seen.state.history)
              /\ handle.seen.state.status \in Terminal => handle'.seen.state = handle.seen.state
<1>1. TypeOK /\ Staged /\ Observed
  BY DEF Inv
<1>2. /\ handle.seen.cursor \in Nat /\ handle.seen.terminal \in BOOLEAN
      /\ handle.seen.state.history \in Seq(Message)
      /\ input.completed_effects \in Nat
  BY <1>1 DEF TypeOK, TemporalRunSnapshot, TemporalWorkflowInput, AgentRunState
<1>3. CASE handle'.seen = handle.seen
  <2>1. Grows(handle.seen.state.history, handle.seen.state.history)
    BY <1>2 DEF Grows
  <2>2. QED
    BY <1>2, <1>3, <2>1, PrefixOfGrown DEF CursorReaches
<1>4. CASE handle'.seen.state = state /\ handle'.seen.cursor = input.completed_effects
           /\ (handle'.seen.terminal <=> handle.kept)
  <2>1. CursorReaches(handle'.seen, handle.seen)
    BY <1>1, <1>2, <1>4 DEF Observed, CursorReaches
  <2>2. IsPrefix(handle.seen.state.history, handle'.seen.state.history)
    BY <1>1, <1>4, PrefixOfGrown DEF Observed
  <2>3. QED
    BY <1>1, <1>4, <2>1, <2>2 DEF Observed
<1>5. QED
  BY <1>1, <1>3, <1>4, HandleSteps DEF SnapshotOf, state

\* Over Continue-As-New, cancellation and a kept result, the cursor, the history
\* and a terminal state that a handle was shown never go back (runtime/handle.rs).
THEOREM ObservationsNeverGoBack == Spec => ObservationsAdvance
<1>1. Inv /\ [Next]_vars =>
        [/\ CursorReaches(handle'.seen, handle.seen)
         /\ IsPrefix(handle.seen.state.history, handle'.seen.state.history)
         /\ handle.seen.state.status \in Terminal => handle'.seen.state = handle.seen.state]_vars
  BY StepAdvances
<1>2. QED
  BY <1>1, DurableRunStaysSound, PTL DEF Spec, ObservationsAdvance

-----------------------------------------------------------------------------
(* The durable run keeps the contract of a run (RunContract). *)

LEMMA ContractRules ==
    /\ \A h : Contract!Correlated(h) <=> Correlated(h)
    /\ \A h : Contract!ValidateHistory(h) <=> ValidateHistory(h)
    /\ \A h, pending : Contract!Leaves(h, pending) <=> Leaves(h, pending)
    /\ Contract!TextMessage = TextMessage
    /\ Contract!Live = Live
    /\ Contract!Terminal = Terminal
BY DEF Contract!Correlated, Correlated, Contract!Leaves, Leaves, Contract!CallsOf, CallsOf,
       Contract!DistinctIds, DistinctIds, Contract!Answered, Answered,
       Contract!ResultMessage, ResultMessage, Contract!Answers, Answers,
       Contract!ValidateHistory, ValidateHistory,
       Contract!TextMessage, TextMessage, Contract!Live, Live,
       Contract!Terminal, Terminal, Contract!Status, Status

\* What the contract's result stands for.
Shown == CASE stage = "returned" -> "ok" [] stage = "failed" -> "error" [] OTHER -> "none"

LEMMA InitContract == Inv /\ Init => Contract!Init
<1> SUFFICES ASSUME Inv, Init PROVE Contract!Init
  OBVIOUS
<1>1. PICK plan \in Plans, history \in Histories :
        input.state = NewState(plan, Append(history, UserMessage))
  BY DEF Init
<1>2. state.status = "pending" /\ stage = "start"
  BY <1>1 DEF NewState, state, Init
<1>3. Contract!Message = Message
  BY DEF Contract!Message, Message, Contract!Call, Call
<1>4. state.history \in Seq(Contract!Message)
  BY <1>3 DEF Inv, Canonical, Good, AgentRunState
<1>5. QED
  BY <1>2, <1>4 DEF Contract!Init

LEMMA StepsOfTheContract ==
    ASSUME Inv, [Next]_vars
    PROVE  Contract!Advance \/ Contract!Stay
<1>1. Moves
  BY StateMoves DEF Inv
<1>2. CASE state' = state
  BY <1>2 DEF Contract!Stay
<1>3. CASE state' # state
  <2>1. state.status \in Live /\ state'.status # "pending"
    BY <1>1, <1>3 DEF Moves
  <2>2. Contract!IsPrefix(state.history, state'.history)
    BY <1>1, PrefixOfGrown DEF Moves, Contract!IsPrefix, IsPrefix
  <2>3. Correlated(state.history) => Correlated(state'.history)
    BY <1>1 DEF Moves
  <2>4. ASSUME ValidateHistory(state.history) \/ state.history # state'.history
        PROVE  /\ state'.status \in {"completed", "incomplete"} => Leaves(state'.history, << >>)
               /\ state'.status = "completed" => state'.history[Len(state'.history)] = TextMessage
    <3>1. Correlated(state'.history)
      BY <1>1, <2>4 DEF Moves, ValidateHistory
    <3>2. Sound(state') /\ NoCallLeft(state')
      BY <1>1, <3>1 DEF Moves
    <3>3. QED
      BY <3>2 DEF Sound, ValidateEffectStateHistory, Resolved, NoCallLeft
  <2>5. QED
    BY <2>1, <2>2, <2>3, <2>4, ContractRules DEF Contract!Advance, Contract!Resumable
<1>4. QED
  BY <1>2, <1>3

LEMMA StepKeepsContract == Inv /\ Inv' /\ [Next]_vars => [Contract!Next]_(Contract!vars)
<1> SUFFICES ASSUME Inv, Inv', [Next]_vars PROVE [Contract!Next]_(Contract!vars)
  OBVIOUS
<1>1. CASE stage \in Closed
  <2>1. UNCHANGED <<input, stage>>
    BY <1>1, ClosedStays
  <2>2. state' = state
    BY <2>1 DEF state
  <2>3. QED
    BY <2>1, <2>2 DEF Contract!vars
<1>2. CASE stage \notin Closed
  <2>1. Shown = "none"
    BY <1>2 DEF Shown, Closed
  <2>2. Shown' \in {"none", "ok", "error"} /\ (Shown' = "ok" => stage' = "returned")
    BY DEF Shown
  <2>3. ASSUME Shown' = "ok"
        PROVE  state'.status \in Terminal /\ Contract!Returnable(state'.status, state'.history)
    <3>1. state'.status \in Terminal
      BY <2>2, <2>3 DEF Inv, Staged
    <3>2. state'.status # "cancelled" => state'.pending_tools = << >>
      BY <3>1 DEF Inv, Canonical, NoCallLeft, Terminal, Status, Live
    <3>3. Correlated(state'.history) => Leaves(state'.history, state'.pending_tools)
      BY DEF Inv, Canonical, Sound, ValidateEffectStateHistory
    <3>4. QED
      BY <3>1, <3>2, <3>3, ContractRules DEF Contract!Returnable
  <2>4. Contract!Advance \/ Contract!Stay
    BY StepsOfTheContract
  <2>5. Contract!Next
    BY <2>1, <2>2, <2>3, <2>4, ContractRules DEF Contract!Next, Shown
  <2>6. QED
    BY <2>5
<1>3. QED
  BY <1>1, <1>2

\* The Temporal runtime keeps the same contract as the local one: over replays,
\* lost workers, continued executions and cancellation, its history only grows and
\* stays correlated, a terminal status is the last, what it returns is terminal
\* and starts the next run unless it was cancelled, and a closed run stays
\* (runtime/workflow.rs; docs/SPEC.md:190).
THEOREM DurableRunKeepsContract == Spec => ImplementsContract
<1>1. Inv /\ Init => Contract!Init
  BY InitContract
<1>2. Inv /\ Inv' /\ [Next]_vars => [Contract!Next]_(Contract!vars)
  BY StepKeepsContract
<1>3. QED
  BY <1>1, <1>2, InitInv, DurableRunStaysSound, PTL DEF Spec, Contract!Spec, ImplementsContract
=============================================================================
