------------------------------ MODULE DurableRun ------------------------------
(***************************************************************************)
(* One run of the Temporal runtime (crates/temporal/src/runtime): the      *)
(* workflow that drives the canonical state, the activity that executes    *)
(* one effect outside replay, and the handle that observes and cancels.    *)
(*                                                                         *)
(* The workflow is deterministic: its input changes only as a function of  *)
(* the events recorded for it, so a replay on another worker rebuilds the  *)
(* same input and is no step here.  What interleaves are the workers that  *)
(* execute an activity and may be lost, the timers of the server, the      *)
(* caller who cancels, and the caller who observes.                        *)
(*                                                                         *)
(* The service itself is external: it redelivers an activity up to its     *)
(* maximum attempts, times it out from the moment it was scheduled, starts *)
(* a continued execution without the cancellation of the one before, and   *)
(* answers a query once an execution has run its first task.               *)
(***************************************************************************)
EXTENDS HistoryRules

CONSTANTS
    Plans,       \* the plans a run may start with
    Histories,   \* the prior histories a caller may supply
    Configs,     \* the adapter policies a caller may choose
    Responses    \* the tool-call lists a provider may answer with

\* The opt-ins of TemporalRunConfig and its Continue-As-New threshold; a policy
\* read from the wire may hold the zero that the constructor refuses.
TemporalRunConfig ==
    [continue_as_new_after_effects : Nat,
     durable_idempotent_provider : BOOLEAN,
     durable_idempotent_tools : SUBSET ToolName]

ASSUME DurableAssumption ==
    /\ Plans \subseteq Plan
    /\ \A history \in Histories : history \in Seq(Message)
    /\ Configs \subseteq TemporalRunConfig
    /\ \A calls \in Responses : calls \in Seq(Call) /\ calls # << >>

VARIABLES
    config,     \* the policy the run was started with
    input,      \* the workflow's input: the canonical state and two counters
    stage,      \* where the workflow or its current activity is
    activity,   \* the attempt of the current activity and its times
    snapshot,   \* what the workflow last stored for queries
    cancel,     \* cancellation was requested of the current execution
    executed,   \* how often each provider effect was handed to a worker
    handle      \* the caller's handle: what it saw last and what it keeps

vars == <<config, input, stage, activity, snapshot, cancel, executed, handle>>

\* "returned" is a workflow that gave its state as its result, "failed" one
\* that ended with an application failure.
Closed == {"returned", "failed"}

Pending == {"waiting", "running", "lost"}

TemporalWorkflowInput ==
    [state : AgentRunState, completed_effects : Nat, effects_in_execution : Nat]

\* clock is the time since the activity was scheduled, spent the time of the
\* current attempt.
Activity == [attempt : Nat, clock : Nat, spent : Nat]

NoActivity == [attempt |-> 0, clock |-> 0, spent |-> 0]

\* The cursor of a handle that keeps the result is above every other.
TemporalRunSnapshot == [state : AgentRunState, cursor : Nat, terminal : BOOLEAN]

SnapshotOf(i) == [state |-> i.state, cursor |-> i.completed_effects, terminal |-> FALSE]

state == input.state

Init ==
    /\ config \in Configs
    /\ \E plan \in Plans, history \in Histories :
          input = [state |-> NewState(plan, Append(history, UserMessage)),
                   completed_effects |-> 0, effects_in_execution |-> 0]
    /\ stage = "start"
    /\ activity = NoActivity
    /\ snapshot = SnapshotOf(input)
    /\ cancel = FALSE
    /\ executed = [round \in 0..(state.plan.model_call_limit - 1) |-> 0]
    /\ handle = [seen |-> SnapshotOf(input), kept |-> FALSE]

-----------------------------------------------------------------------------
(* The workflow: what it does between two awaits. *)

Supported == config.continue_as_new_after_effects > 0

Close(how) ==
    /\ stage' = how
    /\ activity' = NoActivity

\* The first task of an execution.
Begin ==
    /\ stage = "start"
    /\ IF Supported
       THEN stage' = "decide" /\ snapshot' = SnapshotOf(input)
       ELSE stage' = "failed" /\ UNCHANGED snapshot
    /\ UNCHANGED <<config, input, activity, cancel, executed, handle>>

Effect == NextEffect(state)

Idle == Exhausted(state) \/ Effect = NoEffect

Finish ==
    /\ stage = "decide"
    /\ Idle
    /\ input' = [input EXCEPT !.state = FinishIfExhausted(@)]
    /\ snapshot' = SnapshotOf(input')
    /\ Close("returned")
    /\ UNCHANGED <<config, cancel, executed, handle>>

Full == input.effects_in_execution >= config.continue_as_new_after_effects

\* Faulty variants: a counter is carried over that must not be, or is lost.
ContinueStillFull ==
    /\ stage = "decide"
    /\ ~Idle
    /\ Full
    /\ stage' = "start"
    /\ cancel' = FALSE
    /\ UNCHANGED <<config, input, activity, snapshot, executed, handle>>

ContinueFromZero ==
    /\ stage = "decide"
    /\ ~Idle
    /\ Full
    /\ input' = [input EXCEPT !.effects_in_execution = 0, !.completed_effects = 0]
    /\ stage' = "start"
    /\ cancel' = FALSE
    /\ UNCHANGED <<config, activity, snapshot, executed, handle>>

ContinueAsNew ==
    /\ stage = "decide"
    /\ ~Idle
    /\ Full
    /\ input' = [input EXCEPT !.effects_in_execution = 0]
    /\ stage' = "start"
    /\ cancel' = FALSE
    /\ UNCHANGED <<config, activity, snapshot, executed, handle>>

\* The tools an effect calls.
ToolsOf(effect) ==
    CASE effect.kind = "tool" -> {state.pending_tools[1].tool}
      [] effect.kind = "tool-batch" -> {state.pending_tools[i].tool : i \in DOMAIN state.pending_tools}
      [] OTHER -> {}

ValidatesEffect(effect) == ToolsOf(effect) \subseteq config.durable_idempotent_tools

RejectUndeclaredTool ==
    /\ stage = "decide"
    /\ ~Idle
    /\ ~Full
    /\ ~ValidatesEffect(Effect)
    /\ Close("failed")
    /\ UNCHANGED <<config, input, snapshot, cancel, executed, handle>>

ScheduleActivity ==
    /\ stage = "decide"
    /\ ~Idle
    /\ ~Full
    /\ ValidatesEffect(Effect)
    /\ stage' = "waiting"
    /\ activity' = [NoActivity EXCEPT !.attempt = 1]
    /\ UNCHANGED <<config, input, snapshot, cancel, executed, handle>>

-----------------------------------------------------------------------------
(* The activity: attempts of the scheduled effect, on any worker. *)

Remaining ==
    IF state.plan.deadline_ms = Unset THEN Unset ELSE Minus(state.plan.deadline_ms, state.elapsed_ms)

\* Schedule-to-close: what was left of the run when the effect was scheduled.
Due == Remaining # Unset /\ activity.clock >= Remaining

\* Faulty variant: every activity is redelivered once.
ActivityMaxAttemptsTwo(effect) == 2

ActivityMaxAttempts(effect) ==
    IF effect.kind = "provider" /\ ~config.durable_idempotent_provider THEN 1 ELSE 2

StartAttempt ==
    /\ stage = "waiting"
    /\ ~Due
    /\ stage' = "running"
    /\ activity' = [activity EXCEPT !.spent = 0]
    /\ executed' = IF Effect.kind = "provider" THEN [executed EXCEPT ![Effect.key] = @ + 1]
                                               ELSE executed
    /\ UNCHANGED <<config, input, snapshot, cancel, handle>>

\* What the state machine can become with an outcome of the effect.  The inner
\* attempts of a provider effect, and the usage of a child, are the executor's;
\* a provider's own token bound is taken to be the size of the request.
InnerAttempts(s) ==
    [count : {n \in 1..s.plan.provider_max_attempts :
                 MayAttempt(s, NextModelTokenReservation(s), n)},
     reserved : {NextModelTokenReservation(s)},
     measured : BOOLEAN]

ProviderOutcomes(s) ==
    {CommitProviderResponse(s, Effect, calls, calls = << >>, attempts) :
        calls \in {c \in Responses \cup {<< >>} : ValidateModelResponse(c, c = << >>)},
        attempts \in InnerAttempts(s)}
    \cup {CommitProviderFailure(s, Effect, attempts) : attempts \in InnerAttempts(s)}
    \cup {CommitBudgetExhausted(s, Effect) :
            over \in {r \in {NextModelTokenReservation(s)} : OverTokenBudget(s, r)}}

ChildUsages(s) ==
    IF PendingDelegations(s) = {} THEN {EmptyUsage}
    ELSE [calls : 0..DelegatedCalls(s), complete : BOOLEAN]

Outcomes(s) ==
    CASE Effect.kind = "provider" -> ProviderOutcomes(s)
      [] Effect.kind = "tool" -> {CommitTool(s, Effect, child) : child \in ChildUsages(s)}
      [] Effect.kind = "tool-batch" ->
            {CommitBatch(s, Effect, Len(s.pending_tools), child) : child \in ChildUsages(s)}

\* The elapsed time that is recorded is that of the attempt that answered.
Recorded(s) == FinishIfExhausted(RecordElapsed(s, activity.spent))

\* The activity, which validates the snapshot it was given, completes, and the
\* workflow commits its outcome.
ActivityCompletes ==
    /\ stage = "running"
    /\ ValidateEffectStateHistory(state)
    /\ \E s \in Outcomes(state) :
          input' = [state |-> Recorded(s),
                    completed_effects |-> input.completed_effects + 1,
                    effects_in_execution |-> input.effects_in_execution + 1]
    /\ snapshot' = SnapshotOf(input')
    /\ stage' = "decide"
    /\ activity' = NoActivity
    /\ UNCHANGED <<config, cancel, executed, handle>>

\* A configuration or protocol error of the effect, or the deadline inside it:
\* the error is not retryable, and it is the workflow that fails.
ActivityErrs ==
    /\ stage = "running"
    /\ Close("failed")
    /\ UNCHANGED <<config, input, snapshot, cancel, executed, handle>>

\* The worker, or its acknowledgement of the completion, is lost.
WorkerLost ==
    /\ stage = "running"
    /\ stage' = "lost"
    /\ UNCHANGED <<config, input, activity, snapshot, cancel, executed, handle>>

\* The service delivers the activity again while it has attempts left and its
\* cancellation was not requested.
Redeliver ==
    /\ IF activity.attempt < ActivityMaxAttempts(Effect) /\ ~cancel
       THEN /\ stage' = "waiting"
            /\ activity' = [activity EXCEPT !.attempt = @ + 1]
       ELSE Close("failed")
    /\ UNCHANGED <<config, input, snapshot, cancel, executed, handle>>

HeartbeatTimeout == stage = "lost" /\ Redeliver

\* A heartbeat that cannot be recorded ends the attempt with a retryable error.
HeartbeatFails == stage = "running" /\ Redeliver

ScheduleToClose ==
    /\ stage \in Pending
    /\ Due
    /\ Close("failed")
    /\ UNCHANGED <<config, input, snapshot, cancel, executed, handle>>

\* The attempt, or the service for one that no worker holds, acknowledges the
\* cancellation; whatever the effect still returns is discarded.
ActivityCancelled ==
    /\ stage \in {"waiting", "running"}
    /\ cancel
    /\ input' = [input EXCEPT !.state = Cancel(@)]
    /\ snapshot' = SnapshotOf(input')
    /\ Close("returned")
    /\ UNCHANGED <<config, cancel, executed, handle>>

-----------------------------------------------------------------------------
(* The caller and the clock. *)

RequestCancel ==
    /\ stage \notin Closed
    /\ ~cancel
    /\ cancel' = TRUE
    /\ UNCHANGED <<config, input, stage, activity, snapshot, executed, handle>>

\* A handle that keeps a result answers with it; otherwise the workflow does.
Observe ==
    /\ IF handle.kept
       THEN handle' = [handle EXCEPT !.seen = [state |-> state,
                                               cursor |-> input.completed_effects,
                                               terminal |-> TRUE]]
       ELSE stage # "start" /\ handle' = [handle EXCEPT !.seen = snapshot]
    /\ handle' # handle
    /\ UNCHANGED <<config, input, stage, activity, snapshot, cancel, executed>>

AwaitResult ==
    /\ stage = "returned"
    /\ ~handle.kept
    /\ handle' = [handle EXCEPT !.kept = TRUE]
    /\ UNCHANGED <<config, input, stage, activity, snapshot, cancel, executed>>

\* Time matters to a run with a deadline, while an activity is pending; a timer
\* that is due fires first.
Tick ==
    /\ stage \in Pending
    /\ Remaining # Unset
    /\ ~Due
    /\ LET ms == IF stage = "running" THEN 1 ELSE 0
       IN  activity' = [activity EXCEPT !.clock = @ + 1, !.spent = @ + ms]
    /\ UNCHANGED <<config, input, stage, snapshot, cancel, executed, handle>>

\* A closed run stays as it is.
Over ==
    /\ stage \in Closed
    /\ UNCHANGED vars

-----------------------------------------------------------------------------

WorkflowTask == Begin \/ Finish \/ ContinueAsNew \/ RejectUndeclaredTool \/ ScheduleActivity

Timer == Tick \/ ScheduleToClose \/ HeartbeatTimeout

Answer == ActivityCompletes \/ ActivityErrs \/ WorkerLost \/ HeartbeatFails

Next ==
    \/ WorkflowTask \/ Timer \/ StartAttempt \/ Answer \/ ActivityCancelled
    \/ RequestCancel \/ Observe \/ AwaitResult \/ Over

Spec == Init /\ [][Next]_vars

\* A workflow worker is running, and the timers of the service fire.
LiveSpec == Spec /\ WF_vars(WorkflowTask) /\ WF_vars(Timer)

-----------------------------------------------------------------------------
(* Properties. *)

\* The workflow's input and what its handle holds have the shapes of the code.
TypeOK ==
    /\ config \in TemporalRunConfig
    /\ input \in TemporalWorkflowInput
    /\ stage \in {"start", "decide"} \cup Pending \cup Closed
    /\ activity \in Activity
    /\ snapshot \in TemporalRunSnapshot
    /\ cancel \in BOOLEAN
    /\ DOMAIN executed = 0..(state.plan.model_call_limit - 1)
    /\ \A round \in DOMAIN executed : executed[round] \in Nat
    /\ handle \in [seen : TemporalRunSnapshot, kept : BOOLEAN]

\* "Opaque monotonic observation cursor" (config.rs:224): over Continue-As-New,
\* cancellation and a kept result, what a handle is shown never goes back: not
\* in its cursor, not in its history, and not from a terminal status.
CursorReaches(a, b) == a.terminal \/ (~b.terminal /\ a.cursor >= b.cursor)

ObservationsAdvance ==
    [][/\ CursorReaches(handle'.seen, handle.seen)
       /\ IsPrefix(handle.seen.state.history, handle'.seen.state.history)
       /\ handle.seen.state.status \in Terminal => handle'.seen.state = handle.seen.state]_vars

\* Redelivery is opt-in: an undeclared provider gets each of its effects at most
\* once, over all executions of the run, and a declared one at most twice.
RedeliveryIsOptIn ==
    \A round \in DOMAIN executed :
        executed[round] <= IF config.durable_idempotent_provider THEN 2 ELSE 1

\* The durable run keeps the contract of a run (see RunContract).
Contract == INSTANCE RunContract WITH
    status <- state.status, history <- state.history,
    result <- CASE stage = "returned" -> "ok" [] stage = "failed" -> "error" [] OTHER -> "none"

ImplementsContract == Contract!Spec

\* A run closes when its effects are answered or it has a deadline, over any
\* number of continued executions and whatever worker is lost.  A cancellation
\* that workers acknowledge closes it too, unless it was requested between two
\* effects of an execution that continued as new: that request is gone with the
\* execution it was made of (the only await the workflow cancels is its activity).
RunCloses ==
    /\ (state.plan.deadline_ms # Unset \/ WF_vars(StartAttempt \/ Answer)) => <>(stage \in Closed)
    /\ WF_vars(ActivityCancelled) => (cancel ~> stage \in Closed \/ ~cancel)
=============================================================================
