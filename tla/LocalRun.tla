------------------------------ MODULE LocalRun ------------------------------
(***************************************************************************)
(* One run of the local runtime: the task that Agent::start spawns         *)
(* (crates/agentive/src/run/agent.rs), its loop (run/local.rs) and the     *)
(* execution of the effects the state machine asks for (run/effects.rs),   *)
(* together with what the holder of the RunHandle observes.                *)
(*                                                                         *)
(* The run task is sequential; what interleaves with it is the caller, who *)
(* may cancel at any instant, the clock, the provider, and the members of  *)
(* a tool batch, which run concurrently up to max_parallel_tool_calls.     *)
(* Every attempt races the cancellation token and its own deadline timer.  *)
(*                                                                         *)
(* The handle's usage is not a variable of its own: the loop copies the    *)
(* state's usage to it at every commit and at every exit.                  *)
(***************************************************************************)
EXTENDS HistoryRules

CONSTANTS
    Plans,         \* the plans a run may start with
    Histories,     \* the prior histories a caller may supply
    Responses,     \* the tool-call lists a provider may answer with
    TokenBounds,   \* the token bounds a provider may report for a request
    ToolAttempts,  \* attempts a registered tool's policy allows; 1 unless idempotent
    MaxParallel    \* plan.max_parallel_tool_calls

ASSUME LocalAssumption ==
    /\ Plans \subseteq Plan
    /\ \A history \in Histories : history \in Seq(Message)
    /\ \A calls \in Responses : calls \in Seq(Call) /\ calls # << >>
    /\ TokenBounds \subseteq Nat \ {0}
    /\ ToolAttempts \in [Registered -> Nat \ {0}]
    /\ MaxParallel \in Nat \ {0}

VARIABLES
    state,      \* the AgentRunState the task owns; its usage is the handle's
    phase,      \* where the task is
    work,       \* the workers of the executing effect: one attempt loop each
    reserved,   \* tokens reserved for each attempt of the executing provider effect
    outcome,    \* the outcome of an effect that has not been committed yet
    child,      \* usage reported by the delegations of the executing effect
    cancelled,  \* the cancellation token
    clock,      \* milliseconds since the run and since the executing effect started
    status,     \* the handle's status
    events,     \* the StatusChanged events emitted
    result,     \* what the task returned: nothing yet, a RunResult or an error
    transport,  \* provider calls made so far in the run tree, committed or not
    orphans,    \* children left running that nobody told to stop
    misled      \* a child ended in an error and its ledger hides calls it made

vars == <<state, phase, work, reserved, outcome, child, cancelled, clock,
          status, events, result, transport, orphans, misled>>

Phases == {"start", "top", "executing", "outcome", "settle", "returned", "published"}

\* A worker runs the attempts of one provider call or of one tool call.  left
\* is the remaining time its current attempt was given and wait the time since
\* the timer for it was armed; since is the time since the worker started.
Worker == [stage : {"queued", "armed", "called", "backoff", "done"},
           attempt : Nat, left : Nat \cup {Unset}, wait : Nat, since : Nat]

Queued == [stage |-> "queued", attempt |-> 1, left |-> Unset, wait |-> 0, since |-> 0]

NoOutcome == [kind |-> "none"]

Outcome ==
    [kind : {"none", "exhausted", "tool", "tool-batch"}]
        \cup [kind : {"response"}, calls : Seq(Call), attempts : Attempts]
        \cup [kind : {"failed"}, attempts : Attempts]

Init ==
    /\ \E plan \in Plans, history \in Histories :
          state = NewState(plan, Append(history, UserMessage))
    /\ phase = "start"
    /\ work = << >>
    /\ reserved = 0
    /\ outcome = NoOutcome
    /\ child = EmptyUsage
    /\ cancelled = FALSE
    /\ clock = [run |-> 0, effect |-> 0]
    /\ status = "pending"
    /\ events = << >>
    /\ result = "none"
    /\ transport = 0
    /\ orphans = 0
    /\ misled = FALSE

-----------------------------------------------------------------------------
(* Leaving the loop. *)

Announce(s) ==
    /\ status' = s
    /\ events' = Append(events, s)

Return(kind) ==
    /\ result' = kind
    /\ phase' = "returned"
    /\ work' = << >>
    /\ outcome' = NoOutcome
    /\ UNCHANGED <<reserved, child, clock>>

\* finish_cancelled: the state keeps a terminal status it already has, the
\* handle and the event stream say cancelled.
FinishCancelled ==
    /\ state' = Cancel(state)
    /\ Announce("cancelled")
    /\ Return("ok")

\* Any error but Cancelled from the execution of an effect.
FinishFailed ==
    /\ state' = Fail(state)
    /\ Announce("failed")
    /\ Return("error")

\* Faulty variant: the spawned task publishes an error and announces nothing.
PublishSilently ==
    /\ phase = "returned"
    /\ phase' = "published"
    /\ UNCHANGED <<state, work, reserved, outcome, child, cancelled, clock,
                   status, events, result, transport, orphans, misled>>

\* The spawned task: a run that failed before it announced anything fails here,
\* the event bus closes, and the result becomes visible to waiters.
Publish ==
    /\ phase = "returned"
    /\ phase' = "published"
    /\ IF result = "error" /\ status \in Live
       THEN Announce("failed")
       ELSE UNCHANGED <<status, events>>
    /\ UNCHANGED <<state, work, reserved, outcome, child, cancelled, clock,
                   result, transport, orphans, misled>>

-----------------------------------------------------------------------------
(* The loop. *)

StartRun ==
    /\ phase = "start"
    /\ IF ValidateHistory(state.history)
       THEN /\ Announce("running")
            /\ phase' = "top"
            /\ UNCHANGED <<work, reserved, outcome, child, clock, result>>
       ELSE /\ Return("error")
            /\ UNCHANGED <<status, events>>
    /\ UNCHANGED <<state, cancelled, transport, orphans, misled>>

StopCancelled ==
    /\ phase = "top"
    /\ cancelled
    /\ FinishCancelled
    /\ UNCHANGED <<cancelled, transport, orphans, misled>>

StopExhausted ==
    /\ phase = "top"
    /\ ~cancelled
    /\ Exhausted(state)
    /\ state' = FinishIfExhausted(state)
    /\ Announce(state'.status)
    /\ Return("ok")
    /\ UNCHANGED <<cancelled, transport, orphans, misled>>

Effect == NextEffect(state)

\* No effect is left: the run returns without a word to the handle.
StopIdle ==
    /\ phase = "top"
    /\ ~cancelled
    /\ ~Exhausted(state)
    /\ Effect = NoEffect
    /\ Return("ok")
    /\ UNCHANGED <<state, status, events, cancelled, transport, orphans, misled>>

StartEffect ==
    /\ phase = "top"
    /\ ~cancelled
    /\ ~Exhausted(state)
    /\ Effect # NoEffect
    /\ ValidateEffectStateHistory(state)
    /\ phase' = "executing"
    /\ work' = [i \in 1..(IF Effect.kind = "tool-batch" THEN Len(state.pending_tools) ELSE 1)
                    |-> Queued]
    /\ clock' = [clock EXCEPT !.effect = 0]
    /\ child' = EmptyUsage
    /\ UNCHANGED <<state, reserved, outcome, cancelled, status, events, result,
                   transport, orphans, misled>>

\* record_elapsed, then commit_effect with the outcome of the effect.
Committed ==
    LET s == RecordElapsed(state, clock.effect) IN
    CASE outcome.kind = "response" ->
            CommitProviderResponse(s, Effect, outcome.calls, outcome.calls = << >>,
                                   outcome.attempts)
      [] outcome.kind = "failed" -> CommitProviderFailure(s, Effect, outcome.attempts)
      [] outcome.kind = "exhausted" -> CommitBudgetExhausted(s, Effect)
      [] outcome.kind = "tool" -> CommitTool(s, Effect, child)
      [] outcome.kind = "tool-batch" -> CommitBatch(s, Effect, Len(work), child)

CommitOutcome ==
    /\ phase = "outcome"
    /\ state' = Committed
    /\ IF outcome.kind = "failed"
       THEN Announce("failed") /\ Return("ok")
       ELSE /\ phase' = "settle"
            /\ work' = << >>
            /\ outcome' = NoOutcome
            /\ UNCHANGED <<reserved, child, clock, status, events, result>>
    /\ UNCHANGED <<cancelled, transport, orphans, misled>>

Late == state.plan.deadline_ms # Unset /\ clock.run >= state.plan.deadline_ms

\* After a commit the loop looks at the wall clock before it looks at the answer.
SettleLate ==
    /\ phase = "settle"
    /\ Late
    /\ FinishCancelled
    /\ UNCHANGED <<cancelled, transport, orphans, misled>>

SettleCompleted ==
    /\ phase = "settle"
    /\ ~Late
    /\ state.text
    /\ Announce("completed")
    /\ Return("ok")
    /\ UNCHANGED <<state, cancelled, transport, orphans, misled>>

SettleContinues ==
    /\ phase = "settle"
    /\ ~Late
    /\ ~state.text
    /\ phase' = "top"
    /\ UNCHANGED <<state, work, reserved, outcome, child, cancelled, clock,
                   status, events, result, transport, orphans, misled>>

-----------------------------------------------------------------------------
(* Deadlines and cancellation of the work in flight. *)

RemainingTime(s) ==
    IF s.plan.deadline_ms = Unset THEN Unset ELSE Minus(s.plan.deadline_ms, s.elapsed_ms)

\* The remaining time of an attempt that starts now.
LeftFor(w) ==
    IF RemainingTime(state) = Unset THEN Unset ELSE Minus(RemainingTime(state), w.since)

\* Faulty variant: a timer fires only after more than its time has passed.
DueLate(w) ==
    w.stage \in {"armed", "called", "backoff"} /\ w.left # Unset /\ w.wait > w.left

Due(w) == w.stage \in {"armed", "called", "backoff"} /\ w.left # Unset /\ w.wait >= w.left

IsProvider == Effect.kind = "provider"

ToolOf(i) == state.pending_tools[i].tool

\* A delegation holds no timer and ignores Cancelled: its child run does both.
IsChild(i) == ~IsProvider /\ ToolOf(i) \in Delegating

InFlight(i) == work[i].stage \in {"armed", "called", "backoff"} /\ ~IsChild(i)

Running(i) == work[i].stage = "called" /\ IsChild(i)

\* Members of a batch run in chunks; a chunk starts when the last one is done,
\* and polls its members for the first time in order.
Chunk(i) == (i - 1) \div MaxParallel

Startable(i) ==
    /\ work[i].stage = "queued"
    /\ \A j \in 1..(i - 1) :
          IF Chunk(j) < Chunk(i) THEN work[j].stage = "done" ELSE work[j].stage # "queued"

\* An attempt that is cancelled before its provider was ever polled is still
\* polled once, in the grace period of its transport.
GracePoll == IF IsProvider /\ work[1].stage = "armed" THEN 1 ELSE 0

Abroad == {j \in DOMAIN work : Running(j)}

\* The children of an effect that is abandoned report nothing any more: what each
\* of them called, before and after, is within its share.
CallsOfChildren == 0..(Cardinality(Abroad) * DelegatedCalls(state))

\* The join of a batch polls its members in order and returns at the first one
\* that was cancelled: a delegation before it has told its child to stop, one
\* after it is dropped with its child running.
WorkCancelled ==
    /\ phase = "executing"
    /\ cancelled
    /\ \E i \in DOMAIN work :
          /\ InFlight(i) \/ (Startable(i) /\ ~IsProvider /\ ToolOf(i) \in Registered /\ ~IsChild(i))
          /\ \A j \in 1..(i - 1) : ~InFlight(j)
          /\ orphans' = orphans + Cardinality({j \in Abroad : j > i})
    /\ \E made \in CallsOfChildren : transport' = transport + GracePoll + made
    /\ FinishCancelled
    /\ UNCHANGED <<cancelled, misled>>

WorkTimesOut ==
    /\ phase = "executing"
    /\ ~cancelled
    /\ \E i \in DOMAIN work : InFlight(i) /\ Due(work[i])
    /\ cancelled' = TRUE
    /\ orphans' = orphans + Cardinality(Abroad)
    /\ \E made \in CallsOfChildren : transport' = transport + GracePoll + made
    /\ FinishCancelled
    /\ UNCHANGED misled

-----------------------------------------------------------------------------
(* Provider effects. *)

InEffect ==
    UNCHANGED <<state, clock, status, events, result, orphans, misled>>

\* validate_context fails, or a hard token limit has no bound to count with.
ContextRejected ==
    /\ phase = "executing"
    /\ IsProvider
    /\ work[1].stage = "queued"
    /\ FinishFailed
    /\ UNCHANGED <<cancelled, transport, orphans, misled>>

AdmitProvider ==
    /\ phase = "executing"
    /\ IsProvider
    /\ work[1].stage = "queued"
    /\ \E bound \in TokenBounds :
          IF OverTokenBudget(state, Reservation(state, bound))
          THEN /\ outcome' = [kind |-> "exhausted"]
               /\ phase' = "outcome"
               /\ UNCHANGED <<work, reserved>>
          ELSE /\ reserved' = Reservation(state, bound)
               /\ work' = [work EXCEPT ![1].stage = "armed", ![1].left = LeftFor(work[1])]
               /\ UNCHANGED <<outcome, phase>>
    /\ UNCHANGED <<child, cancelled, transport>>
    /\ InEffect

CallProvider ==
    /\ phase = "executing"
    /\ IsProvider
    /\ work[1].stage = "armed"
    /\ ~cancelled
    /\ ~Due(work[1])
    /\ work' = [work EXCEPT ![1].stage = "called"]
    /\ transport' = transport + 1
    /\ UNCHANGED <<phase, reserved, outcome, child, cancelled>>
    /\ InEffect

Polled(i) ==
    /\ phase = "executing"
    /\ work[i].stage = "called"
    /\ ~cancelled
    /\ ~Due(work[i])

Spent(measured) == [count |-> work[1].attempt, reserved |-> reserved, measured |-> measured]

ProviderAnswers ==
    /\ IsProvider
    /\ Polled(1)
    /\ \E calls \in Responses \cup {<< >>}, measured \in BOOLEAN :
          /\ ValidateModelResponse(calls, calls = << >>)
          /\ outcome' = [kind |-> "response", calls |-> calls, attempts |-> Spent(measured)]
    /\ phase' = "outcome"
    /\ UNCHANGED <<work, reserved, child, cancelled, transport>>
    /\ InEffect

\* A response that validate_model_response rejects.
ProviderMisbehaves ==
    /\ IsProvider
    /\ Polled(1)
    /\ FinishFailed
    /\ UNCHANGED <<cancelled, transport, orphans, misled>>

\* A terminal error, output that was already visible, or no attempt left.
ProviderFails ==
    /\ IsProvider
    /\ Polled(1)
    /\ \E measured \in BOOLEAN :
          outcome' = [kind |-> "failed", attempts |-> Spent(measured)]
    /\ phase' = "outcome"
    /\ UNCHANGED <<work, reserved, child, cancelled, transport>>
    /\ InEffect

\* The attempts an effect may make are fixed before the first of them.
ProviderRetries ==
    /\ IsProvider
    /\ Polled(1)
    /\ MayAttempt(state, reserved, work[1].attempt + 1)
    /\ work' = [work EXCEPT ![1].stage = "backoff", ![1].wait = 0]
    /\ UNCHANGED <<phase, reserved, outcome, child, cancelled, transport>>
    /\ InEffect

\* wait_for_retry returns; the loop makes the next attempt, or the next call
\* of a tool, with what remains of the time its worker was given.
BackoffEnds ==
    /\ phase = "executing"
    /\ ~cancelled
    /\ \E i \in DOMAIN work :
          /\ work[i].stage = "backoff"
          /\ ~Due(work[i])
          /\ work' = [work EXCEPT ![i] =
                         [work[i] EXCEPT !.stage = IF IsProvider THEN "armed" ELSE "called",
                                         !.attempt = @ + 1, !.left = LeftFor(work[i]), !.wait = 0]]
    /\ UNCHANGED <<phase, reserved, outcome, child, cancelled, transport>>
    /\ InEffect

-----------------------------------------------------------------------------
(* Tool effects. *)

InTools ==
    /\ UNCHANGED <<phase, reserved, outcome, cancelled>>
    /\ InEffect

EndsUnstarted(i) ==
    /\ phase = "executing"
    /\ ~IsProvider
    /\ Startable(i)
    /\ work' = [work EXCEPT ![i].stage = "done"]
    /\ UNCHANGED <<child, transport>>
    /\ InTools

CanDelegate ==
    /\ DelegatedCalls(state) > 0
    /\ state.plan.token_limit # Unset => DelegatedTokens(state) > 0

\* An unknown tool, and a delegation whose share of a budget is nothing.
ToolUnavailable ==
    \E i \in DOMAIN work :
        /\ EndsUnstarted(i)
        /\ ToolOf(i) \notin Registered \/ (IsChild(i) /\ ~CanDelegate)

\* Arguments that the schema rejects; a delegation that is blank or too deep.
ToolRefused ==
    \E i \in DOMAIN work :
        /\ EndsUnstarted(i)
        /\ ToolOf(i) \in Registered

ToolStarts ==
    /\ phase = "executing"
    /\ ~IsProvider
    /\ ~cancelled
    /\ \E i \in DOMAIN work :
          /\ Startable(i)
          /\ ToolOf(i) \in Registered \ Delegating
          /\ work' = [work EXCEPT ![i].stage = "called", ![i].left = LeftFor(work[i])]
    /\ UNCHANGED <<child, transport>>
    /\ InTools

\* A success, a terminal error and a panic all end the call.
ToolEnds ==
    /\ ~IsProvider
    /\ \E i \in DOMAIN work :
          /\ Polled(i)
          /\ ~IsChild(i)
          /\ work' = [work EXCEPT ![i].stage = "done"]
    /\ UNCHANGED <<child, transport>>
    /\ InTools

ToolRetries ==
    /\ ~IsProvider
    /\ \E i \in DOMAIN work :
          /\ Polled(i)
          /\ ~IsChild(i)
          /\ work[i].attempt < ToolAttempts[ToolOf(i)]
          /\ work' = [work EXCEPT ![i].stage = "backoff", ![i].wait = 0]
    /\ UNCHANGED <<child, transport>>
    /\ InTools

\* A child run starts with its share of the budget; it is told to stop when
\* this run is cancelled, and its own deadline is what remains of this one's.
ChildStarts ==
    /\ phase = "executing"
    /\ ~IsProvider
    /\ CanDelegate
    /\ \E i \in DOMAIN work :
          /\ Startable(i)
          /\ IsChild(i)
          /\ work' = [work EXCEPT ![i].stage = "called", ![i].left = RemainingTime(state)]
    /\ UNCHANGED <<child, transport>>
    /\ InTools

\* The child ends, in any way, within its share (see DelegationTree).  A child
\* that returns its result reports every call it made or an incomplete ledger;
\* one that ends in an error reports what it had committed, which may look
\* complete without the calls of the effect that failed.
ChildReports(i) ==
    /\ phase = "executing"
    /\ Running(i)
    /\ work' = [work EXCEPT ![i].stage = "done"]
    /\ \E made \in 0..DelegatedCalls(state), complete \in BOOLEAN : \E reported \in 0..made :
          /\ transport' = transport + made
          /\ child' = MergeChild(child, [calls |-> reported, complete |-> complete])
          /\ misled' = (misled \/ (complete /\ reported < made))
    /\ UNCHANGED <<phase, reserved, outcome, cancelled, state, clock, status, events,
                   result, orphans>>

ChildEnds == \E i \in DOMAIN work : ChildReports(i)

\* Faulty variant: nobody tells the child.
ChildStopsAlone == \E i \in DOMAIN work : ChildReports(i) /\ Due(work[i])

\* A child that was told to stop, or whose deadline has come.
ChildStops == \E i \in DOMAIN work : ChildReports(i) /\ (cancelled \/ Due(work[i]))

ToolsDone ==
    /\ phase = "executing"
    /\ ~IsProvider
    /\ \A i \in DOMAIN work : work[i].stage = "done"
    /\ outcome' = [kind |-> Effect.kind]
    /\ phase' = "outcome"
    /\ UNCHANGED <<work, reserved, child, cancelled, transport>>
    /\ InEffect

-----------------------------------------------------------------------------
(* The caller and the clock. *)

UserCancels ==
    /\ ~cancelled
    /\ phase # "published"
    /\ cancelled' = TRUE
    /\ UNCHANGED <<state, phase, work, reserved, outcome, child, clock,
                   status, events, result, transport, orphans, misled>>

Advance(n, cap) == IF n < cap THEN n + 1 ELSE n

\* Past every bound of DeadlineBoundsEffects: no chunk is later than the last member.
PastEveryBound == 2 * Len(work) * state.plan.deadline_ms + 1

\* A millisecond.  Clocks stop where they cannot matter any more: at the deadline,
\* or past every bound for the time of an effect.  A timer that is due fires, a
\* chunk that may start starts, and a batch that is done is joined before time
\* passes: none of them waits for anything.

Tick ==
    LET cap == state.plan.deadline_ms
        run == Advance(clock.run, cap)
        effect == IF phase = "executing" \/ phase = "outcome"
                  THEN Advance(clock.effect, PastEveryBound) ELSE clock.effect
    IN  /\ cap # Unset
        /\ phase \in {"top", "executing", "outcome", "settle"}
        /\ phase = "executing" =>
              /\ \E i \in DOMAIN work : work[i].stage # "done"
              /\ \A i \in DOMAIN work : ~Startable(i) /\ (InFlight(i) => ~Due(work[i]))
        /\ clock' = [run |-> run, effect |-> effect]
        /\ work' = [i \in DOMAIN work |->
                      IF work[i].stage \in {"queued", "done"}
                      THEN work[i]
                      ELSE [work[i] EXCEPT !.wait = Advance(@, cap), !.since = Advance(@, cap)]]
        /\ <<clock', work'>> # <<clock, work>>
        /\ UNCHANGED <<state, phase, reserved, outcome, child, cancelled, status, events,
                       result, transport, orphans, misled>>

\* A run that has published its result stays as it is.
Over ==
    /\ phase = "published"
    /\ UNCHANGED vars

-----------------------------------------------------------------------------

\* What the run task does by itself, whoever answers or does not.
TaskStep ==
    \/ StartRun \/ StopCancelled \/ StopExhausted \/ StopIdle \/ StartEffect
    \/ WorkCancelled \/ WorkTimesOut \/ AdmitProvider \/ CallProvider \/ BackoffEnds
    \/ ToolUnavailable \/ ToolStarts \/ ChildStarts \/ ToolsDone
    \/ CommitOutcome \/ SettleLate \/ SettleCompleted \/ SettleContinues \/ Publish

\* What providers, tools and child runs do.
Answer ==
    \/ ProviderAnswers \/ ProviderMisbehaves \/ ProviderFails \/ ProviderRetries
    \/ ToolEnds \/ ToolRetries \/ ToolRefused \/ ChildEnds \/ ContextRejected

Next == TaskStep \/ Answer \/ UserCancels \/ Tick \/ Over

Spec == Init /\ [][Next]_vars

\* The task is spawned on a runtime that polls every woken task and fires every
\* timer; a child run is such a task too.  Nothing is assumed of providers,
\* tools and children that are left alone.
LiveSpec ==
    /\ Spec
    /\ WF_vars(TaskStep)
    /\ WF_vars(Tick)
    /\ WF_vars(ChildStops)

-----------------------------------------------------------------------------
(* Properties. *)

\* The task's locals and the handle have the shapes the code gives them.
TypeOK ==
    /\ state \in AgentRunState
    /\ phase \in Phases
    /\ work \in Seq(Worker)
    /\ reserved \in Nat
    /\ outcome \in Outcome
    /\ child \in RunUsage
    /\ cancelled \in BOOLEAN
    /\ clock \in [run : Nat, effect : Nat]
    /\ status \in Status
    /\ events \in Seq(Status)
    /\ result \in {"none", "ok", "error"}
    /\ {transport, orphans} \subseteq Nat
    /\ misled \in BOOLEAN

\* Provider calls actually made in the run tree never exceed model_call_limit,
\* the ones included whose outcome is never committed: retries, calls cut off
\* by a cancellation or a deadline, and the calls of delegated children
\* (allowed_attempts in run/effects.rs against the shares of state/effects.rs).
TransportBudget == transport <= state.plan.model_call_limit

\* A run announces running once and at most one terminal status, last; the
\* handle shows what was announced, at any time; a waiter that gets an error
\* finds the handle failed, and a handle that says completed, failed or
\* incomplete agrees with the result.
AnnouncedOnce ==
    /\ \A i \in 1..Len(events) :
          \/ i = 1 /\ events[i] = "running"
          \/ i = Len(events) /\ events[i] \in Terminal
    /\ status = IF events = << >> THEN "pending" ELSE events[Len(events)]
    /\ phase = "published" /\ result = "error" => status = "failed"
    /\ phase = "published" /\ result = "ok" /\ status \in {"completed", "failed", "incomplete"} =>
         state.status = status

\* A returned ledger that calls itself complete has attributed every provider
\* call of the tree, whatever was retried, delegated, cancelled or timed out; the
\* exception is a child that ended in an error (see DelegationTree).
LedgerHonest ==
    result = "ok" /\ state.usage.complete /\ ~misled => state.usage.calls = transport

\* A cancelled run ends although its providers and tools may never answer, so
\* does a run with a deadline, and a run whose calls are all answered, in some
\* way, ends: the budgets bound its rounds, and the policies the attempts of each
\* of them (the biased selects of run/effects.rs, and the loop of run/local.rs).
RunEnds ==
    /\ cancelled ~> phase = "published"
    /\ state.plan.deadline_ms # Unset ~> phase = "published"
    /\ WF_vars(Answer) => <>(phase = "published")

\* The time an effect may take when the run has a deadline.  Every chunk of a
\* batch is given the whole time the run had left when the effect began, and a
\* backoff the whole time its attempt had left (deadline_sleep and wait_for_retry
\* in run/effects.rs): the work of the n-th chunk stops after n times that time,
\* or after twice as much when something was retried.  A child run stops by
\* itself, so a chunk that follows one is not bounded here.
Retried == \E i \in DOMAIN work : work[i].attempt > 1 \/ work[i].stage = "backoff"

DeadlineBoundsEffects ==
    phase = "executing" /\ state.plan.deadline_ms # Unset =>
        \A i \in DOMAIN work :
            InFlight(i) /\ (\A j \in DOMAIN work : Chunk(j) < Chunk(i) => ~IsChild(j)) =>
                clock.effect <= (IF Retried THEN 2 ELSE 1) * (Chunk(i) + 1) * RemainingTime(state)

\* The local run keeps the contract of a run (see RunContract): SPEC.md:190 has
\* local and Temporal executors drive the same transitions.
Contract == INSTANCE RunContract WITH
    status <- state.status, history <- state.history,
    result <- IF phase = "published" THEN result ELSE "none"

ImplementsContract == Contract!Spec

-----------------------------------------------------------------------------
(* What the documents say and the code does not keep. *)

\* "Status is pending, running, completed, failed, or cancelled. One
\* runtime-owned terminal transition wins races", and "exhaustion is Incomplete":
\* when a run has returned its result, the handle agrees with it.
HandleAgrees == phase = "published" /\ result = "ok" => status = state.status

\* "Cancellation is explicit and propagates to children and active tools."
ChildrenStop == phase = "published" => orphans = 0
=============================================================================
