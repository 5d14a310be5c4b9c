--------------------------- MODULE LocalRunProofs ---------------------------
(***************************************************************************)
(* Proofs about LocalRun for every registry, plan, history and provider:   *)
(* the task and its handle are well typed, the provider calls of the run   *)
(* tree stay within the budget, a ledger that calls itself complete is     *)
(* exact, the handle announces each status once and in order, the loop     *)
(* keeps the contract of a run, and a deadline bounds what is in flight.   *)
(***************************************************************************)
EXTENDS LocalRun, RunStateProofs

-----------------------------------------------------------------------------
(* The inductive invariant, by the place the task is at. *)

Looping == {"top", "executing", "outcome", "settle"}

AtEnd == phase \in {"returned", "published"}

Members == IF Effect.kind = "tool-batch" THEN Len(state.pending_tools) ELSE 1

\* The calls a provider worker has made.
MadeBy(w) == IF w.stage \in {"queued", "armed"} THEN w.attempt - 1 ELSE w.attempt

\* The attempt that a worker makes or, between two of them, is about to make.
NextAttempt(w) == IF w.stage = "backoff" THEN w.attempt + 1 ELSE w.attempt

\* An attempt is queued with nothing reserved, or within allowed_attempts.
ProviderWorker(w) ==
    /\ w.stage \in {"queued", "armed", "called", "backoff"}
    /\ w.attempt > 0
    /\ w.stage = "queued" => w.attempt = 1
    /\ w.stage # "queued" => \E bound \in TokenBounds :
          /\ reserved = Reservation(state, bound)
          /\ MayAttempt(state, reserved, NextAttempt(w))

\* A complete ledger lacks n of the calls made.
Attributed(n) == state.usage.complete /\ ~misled => state.usage.calls + n = transport

\* The delegations of the executing effect that have ended.
Ended == {i \in DOMAIN work : IsChild(i) /\ work[i].stage = "done"}

\* Between two effects everything is charged and attributed.
Settled ==
    phase \in {"start", "top", "settle"} =>
        transport <= ChargedCalls(state) /\ Attributed(0)

EffectKnown ==
    phase \in {"executing", "outcome"} => Effect # NoEffect /\ DOMAIN work = 1..Members

InProvider ==
    phase = "executing" /\ IsProvider =>
        /\ ProviderWorker(work[1])
        /\ transport <= ChargedCalls(state) + MadeBy(work[1])
        /\ Attributed(MadeBy(work[1]))

ProviderOver ==
    phase = "outcome" /\ IsProvider =>
        \/ /\ outcome.kind = "exhausted"
           /\ transport <= ChargedCalls(state)
        \/ /\ outcome.kind \in {"response", "failed"}
           /\ outcome.kind = "response" => DistinctIds(outcome.calls)
           /\ Admitted(state, outcome.attempts)
           /\ outcome.attempts.count > 0
           /\ transport <= ChargedCalls(state) + outcome.attempts.count
           /\ Attributed(outcome.attempts.count)

InToolEffect ==
    phase \in {"executing", "outcome"} /\ ~IsProvider =>
        /\ phase = "outcome" => outcome.kind = Effect.kind
        /\ transport <= ChargedCalls(state) + Cardinality(Ended) * DelegatedCalls(state)
        /\ child.complete => Attributed(child.calls)

Closed ==
    AtEnd => /\ transport <= state.plan.model_call_limit
             /\ result = "ok" => Attributed(0)

Accounts ==
    /\ Good(state)
    /\ Settled /\ EffectKnown /\ InProvider /\ ProviderOver /\ InToolEffect /\ Closed

\* The history of a run in its loop resumes, and so does that of a run that
\* returned its result; only the way out makes it failed or cancelled.
Healthy ==
    /\ NoCallLeft(state)
    /\ state.text => state.status = "completed"
    /\ phase = "start" => state.status = "pending"
    /\ phase \in Looping => Sound(state) /\ state.status \notin {"failed", "cancelled"}
    /\ result = "none" <=> ~AtEnd
    /\ result = "ok" =>
          /\ Sound(state)
          /\ state.status \in Terminal
          /\ state.status # "cancelled" => state.pending_tools = << >>

\* What was announced when the task is at each place.
Announced ==
    /\ phase = "start" => events = << >> /\ status = "pending"
    /\ phase \in Looping => events = <<"running">> /\ status = "running"
    /\ AtEnd =>
          \/ events = << >> /\ status = "pending" /\ result = "error" /\ phase = "returned"
          \/ events = <<"failed">> /\ status = "failed" /\ result = "error"
          \/ events = <<"running">> /\ status = "running" /\ result = "ok"
          \/ /\ events = <<"running", status>>
             /\ status \in Terminal
             /\ result = "error" => status = "failed"
             /\ result = "ok" /\ status \in {"completed", "failed", "incomplete"} =>
                  state.status = status

Inv == TypeOK /\ Accounts /\ Healthy /\ Announced

-----------------------------------------------------------------------------
(* Types. *)

LEMMA EndTypes ==
    ASSUME TypeOK, NEW kind \in {"ok", "error"}, Return(kind)
    PROVE  /\ phase' \in Phases /\ result' \in {"none", "ok", "error"}
           /\ work' \in Seq(Worker) /\ outcome' \in Outcome
           /\ reserved' \in Nat /\ child' \in RunUsage
           /\ clock' \in [run : Nat, effect : Nat]
<1>1. << >> \in Seq(Worker) /\ NoOutcome \in Outcome
  BY DEF NoOutcome, Outcome
<1>2. QED
  BY <1>1 DEF TypeOK, Return, Phases

LEMMA AnnounceTypes ==
    ASSUME TypeOK, NEW s \in Status, Announce(s)
    PROVE  status' \in Status /\ events' \in Seq(Status)
BY DEF TypeOK, Announce

LEMMA FinishTypes ==
    ASSUME TypeOK, Good(state), FinishCancelled \/ FinishFailed
    PROVE  /\ state' \in AgentRunState /\ phase' \in Phases
           /\ work' \in Seq(Worker) /\ reserved' \in Nat /\ outcome' \in Outcome
           /\ child' \in RunUsage /\ clock' \in [run : Nat, effect : Nat]
           /\ status' \in Status /\ events' \in Seq(Status)
           /\ result' \in {"none", "ok", "error"}
<1>1. Cancel(state) \in AgentRunState /\ Fail(state) \in AgentRunState
  BY QuietStepsGood DEF Good
<1>2. {"cancelled", "failed"} \subseteq Status
  BY DEF Status
<1>3. QED
  BY <1>1, <1>2, EndTypes, AnnounceTypes DEF FinishCancelled, FinishFailed

\* The remaining time of a run, and what an attempt gets of it.
LEMMA TimeTypes ==
    ASSUME TypeOK, NEW w \in Worker
    PROVE  /\ RemainingTime(state) \in Nat \cup {Unset}
           /\ LeftFor(w) \in Nat \cup {Unset}
<1>1. /\ state.plan.deadline_ms \in Nat \cup {Unset} /\ state.elapsed_ms \in Nat
      /\ w.since \in Nat
  BY DEF TypeOK, AgentRunState, Plan, Worker
<1>2. RemainingTime(state) \in Nat \cup {Unset}
  BY <1>1 DEF RemainingTime, Minus, Unset
<1>3. QED
  BY <1>1, <1>2 DEF LeftFor, Minus, Unset

\* A step of one worker leaves the others and the number of them alone.
LEMMA WorkerStep ==
    ASSUME NEW w \in Seq(Worker), NEW i \in DOMAIN w, NEW v \in Worker
    PROVE  /\ [w EXCEPT ![i] = v] \in Seq(Worker)
           /\ DOMAIN [w EXCEPT ![i] = v] = DOMAIN w
BY DEF Worker

LEMMA EffectKinds ==
    ASSUME TypeOK, EffectKnown, phase \in {"executing", "outcome"}
    PROVE  /\ Effect.kind \in {"provider", "tool", "tool-batch"}
           /\ IsProvider => state.pending_tools = << >> /\ DOMAIN work = {1}
           /\ ~IsProvider => state.pending_tools # << >>
           /\ Expected(state, Effect)
<1>1. Effect # NoEffect /\ DOMAIN work = 1..Members
  BY DEF EffectKnown
<1>2. /\ Effect.kind \in {"provider", "tool", "tool-batch"}
      /\ Effect.kind = "provider" <=> state.pending_tools = << >>
  BY <1>1 DEF Effect, NextEffect, NoEffect, ProviderEffect, ToolEffect, BatchEffect
<1>3. Expected(state, Effect)
  BY <1>1 DEF Expected, Effect
<1>4. IsProvider => DOMAIN work = {1}
  <2>1. 1..1 = {1}
    OBVIOUS
  <2>2. QED
    BY <1>1, <2>1 DEF IsProvider, Members
<1>5. QED
  BY <1>2, <1>3, <1>4 DEF IsProvider

\* One worker, which had not ended, takes a step.
Moves ==
    \E i \in DOMAIN work, v \in Worker :
        /\ work[i].stage # "done"
        /\ work' = [work EXCEPT ![i] = v]

LEMMA WorkMoves ==
    ASSUME TypeOK, EffectKnown,
           \/ CallProvider \/ ProviderRetries \/ BackoffEnds
           \/ ToolUnavailable \/ ToolRefused \/ ToolStarts \/ ToolEnds \/ ToolRetries
           \/ ChildStarts \/ ChildEnds
    PROVE  Moves
<1>1. \A i \in DOMAIN work : work[i] \in Worker
  BY DEF TypeOK
<1>2. phase = "executing" /\ IsProvider => 1 \in DOMAIN work
  BY EffectKinds
<1>3. \A i \in DOMAIN work : RemainingTime(state) \in Nat \cup {Unset}
                             /\ LeftFor(work[i]) \in Nat \cup {Unset}
  BY <1>1, TimeTypes
<1>4. ASSUME NEW i \in DOMAIN work, work[i].stage # "done",
             NEW v \in Worker, work' = [work EXCEPT ![i] = v]
      PROVE  Moves
  BY <1>4 DEF Moves
<1>5. CASE CallProvider
  <2>1. [work[1] EXCEPT !.stage = "called"] \in Worker
    BY <1>1, <1>2, <1>5 DEF CallProvider, Worker
  <2>2. QED
    BY <1>2, <1>4, <1>5, <2>1 DEF CallProvider
<1>6. CASE ProviderRetries
  <2>1. [work[1] EXCEPT !.stage = "backoff", !.wait = 0] \in Worker
    BY <1>1, <1>2, <1>6 DEF ProviderRetries, Polled, Worker
  <2>2. QED
    BY <1>2, <1>4, <1>6, <2>1 DEF ProviderRetries, Polled
<1>7. CASE BackoffEnds
  <2> DEFINE stage == IF IsProvider THEN "armed" ELSE "called"
  <2>1. PICK i \in DOMAIN work :
          /\ work[i].stage = "backoff"
          /\ work' = [work EXCEPT ![i] =
                         [work[i] EXCEPT !.stage = stage, !.attempt = work[i].attempt + 1,
                                         !.left = LeftFor(work[i]), !.wait = 0]]
    BY <1>7 DEF BackoffEnds
  <2>2. stage \in {"armed", "called"}
    OBVIOUS
  <2>3. work[i] \in Worker /\ LeftFor(work[i]) \in Nat \cup {Unset}
    BY <1>1, <1>3
  <2>4. work[i].attempt + 1 \in Nat
    BY <2>3 DEF Worker
  <2> HIDE DEF stage
  <2>5. [work[i] EXCEPT !.stage = stage, !.attempt = work[i].attempt + 1,
                        !.left = LeftFor(work[i]), !.wait = 0] \in Worker
    BY <2>2, <2>3, <2>4 DEF Worker
  <2>6. QED
    BY <1>4, <2>1, <2>5
<1>8. ASSUME NEW i \in DOMAIN work, EndsUnstarted(i) \/ ChildReports(i)
      PROVE  Moves
  <2>1. [work[i] EXCEPT !.stage = "done"] \in Worker
    BY <1>1 DEF Worker
  <2>2. QED
    BY <1>4, <1>8, <2>1 DEF EndsUnstarted, Startable, ChildReports, Running
<1>9. CASE ToolStarts
  <2>1. PICK i \in DOMAIN work :
          /\ work[i].stage = "queued"
          /\ work' = [work EXCEPT ![i].stage = "called", ![i].left = LeftFor(work[i])]
    BY <1>9 DEF ToolStarts, Startable
  <2>2. [work[i] EXCEPT !.stage = "called", !.left = LeftFor(work[i])] \in Worker
    BY <1>1, <1>3 DEF Worker
  <2>3. QED
    BY <1>4, <2>1, <2>2
<1>10. CASE ToolEnds
  <2>1. PICK i \in DOMAIN work :
          work[i].stage = "called" /\ work' = [work EXCEPT ![i].stage = "done"]
    BY <1>10 DEF ToolEnds, Polled
  <2>2. [work[i] EXCEPT !.stage = "done"] \in Worker
    BY <1>1 DEF Worker
  <2>3. QED
    BY <1>4, <2>1, <2>2
<1>11. CASE ToolRetries
  <2>1. PICK i \in DOMAIN work :
          /\ work[i].stage = "called"
          /\ work' = [work EXCEPT ![i].stage = "backoff", ![i].wait = 0]
    BY <1>11 DEF ToolRetries, Polled
  <2>2. [work[i] EXCEPT !.stage = "backoff", !.wait = 0] \in Worker
    BY <1>1 DEF Worker
  <2>3. QED
    BY <1>4, <2>1, <2>2
<1>12. CASE ChildStarts
  <2>1. PICK i \in DOMAIN work :
          /\ work[i].stage = "queued"
          /\ work' = [work EXCEPT ![i].stage = "called", ![i].left = RemainingTime(state)]
    BY <1>12 DEF ChildStarts, Startable
  <2>2. [work[i] EXCEPT !.stage = "called", !.left = RemainingTime(state)] \in Worker
    BY <1>1, <1>3 DEF Worker
  <2>3. QED
    BY <1>4, <2>1, <2>2
<1>13. QED
  BY <1>5, <1>6, <1>7, <1>8, <1>9, <1>10, <1>11, <1>12
  DEF ToolUnavailable, ToolRefused, ChildEnds

-----------------------------------------------------------------------------
(* What a step does to the state and to the handle. *)

\* They change where a run leaves its loop, where an outcome is committed, and
\* where the task starts and publishes.
LoopSteps ==
    \/ UNCHANGED <<state, result, status, events>> /\ (phase' = phase \/ {phase, phase'} \subseteq Looping)
    \/ StartRun \/ StopExhausted \/ StopIdle \/ SettleCompleted \/ CommitOutcome \/ Publish
    \/ phase \in Looping /\ FinishCancelled
    \/ phase = "executing" /\ FinishFailed

LEMMA StepKinds == Next => LoopSteps
<1> DEFINE Inside == /\ UNCHANGED <<state, result, status, events>>
                     /\ phase' = phase \/ {phase, phase'} \subseteq Looping
<1>1. StartEffect \/ SettleContinues => Inside
  BY DEF StartEffect, SettleContinues, Looping
<1>2. StopCancelled \/ WorkCancelled \/ WorkTimesOut \/ SettleLate
        => phase \in Looping /\ FinishCancelled
  BY DEF StopCancelled, WorkCancelled, WorkTimesOut, SettleLate, Looping
<1>3. ProviderMisbehaves \/ ContextRejected => phase = "executing" /\ FinishFailed
  BY DEF ProviderMisbehaves, Polled, ContextRejected
<1>4. CallProvider \/ BackoffEnds \/ ProviderRetries => Inside
  BY DEF CallProvider, BackoffEnds, ProviderRetries, InEffect
<1>5. ProviderAnswers \/ ProviderFails \/ ToolsDone => Inside
  BY DEF ProviderAnswers, ProviderFails, Polled, ToolsDone, InEffect, Looping
<1>6. AdmitProvider => Inside
  BY DEF AdmitProvider, InEffect, Looping
<1>7. ToolUnavailable \/ ToolRefused \/ ToolStarts \/ ToolEnds \/ ToolRetries \/ ChildStarts
        => Inside
  BY DEF ToolUnavailable, ToolRefused, EndsUnstarted, ToolStarts, ToolEnds, ToolRetries,
         ChildStarts, InTools, InEffect
<1>8. ChildEnds \/ UserCancels \/ Tick \/ Over => Inside
  BY DEF ChildEnds, ChildReports, UserCancels, Tick, Over, vars
<1>9. QED
  BY <1>1, <1>2, <1>3, <1>4, <1>5, <1>6, <1>7, <1>8 DEF Next, TaskStep, Answer, LoopSteps

\* The time an effect took does not change which effect is expected.
LEMMA ElapsedKeeps ==
    ASSUME NEW s \in AgentRunState, NEW ms \in Nat
    PROVE  LET t == RecordElapsed(s, ms) IN
           /\ t \in AgentRunState
           /\ t.plan = s.plan /\ t.usage = s.usage /\ t.history = s.history
           /\ t.pending_tools = s.pending_tools /\ t.status = s.status /\ t.text = s.text
           /\ t.model_calls = s.model_calls
           /\ t.reserved_tokens = s.reserved_tokens
           /\ ChargedCalls(t) = ChargedCalls(s)
           /\ \A effect : Expected(t, effect) <=> Expected(s, effect)
           /\ \A attempts : Admitted(t, attempts) <=> Admitted(s, attempts)
           /\ DelegatedCalls(t) = DelegatedCalls(s)
           /\ PendingDelegations(t) = PendingDelegations(s)
<1> DEFINE t == RecordElapsed(s, ms)
<1>1. /\ t.plan = s.plan /\ t.usage = s.usage /\ t.history = s.history
      /\ t.pending_tools = s.pending_tools /\ t.status = s.status /\ t.text = s.text
      /\ t.model_calls = s.model_calls
      /\ t.provider_calls_started = s.provider_calls_started
      /\ t.reserved_tokens = s.reserved_tokens
      /\ t.reserved_child_model_calls = s.reserved_child_model_calls
  BY DEF RecordElapsed, AgentRunState
<1>2. t \in AgentRunState
  <2>1. s.elapsed_ms + ms \in Nat
    BY DEF AgentRunState
  <2>2. t = [s EXCEPT !.elapsed_ms = s.elapsed_ms + ms]
    BY DEF RecordElapsed
  <2> HIDE DEF t
  <2>3. QED
    BY <2>1, <2>2 DEF AgentRunState
<1> HIDE DEF t
<1>3. ChargedCalls(t) = ChargedCalls(s)
  BY <1>1 DEF ChargedCalls
<1>4. NextEffect(t) = NextEffect(s)
  BY <1>1, <1>3 DEF NextEffect, NoProviderBudget, Batchable
<1>5. RemainingCalls(t) = RemainingCalls(s) /\ RemainingTokens(t) = RemainingTokens(s)
  BY <1>1, <1>3 DEF RemainingCalls, RemainingTokens
<1>6. \A attempts : Admitted(t, attempts) <=> Admitted(s, attempts)
  <2>1. \A attempts : ReservationFor(t, attempts) = ReservationFor(s, attempts)
    BY <1>1 DEF ReservationFor, NextModelTokenReservation
  <2>2. QED
    BY <1>1, <1>5, <2>1 DEF Admitted
<1>7. PendingDelegations(t) = PendingDelegations(s)
  BY <1>1 DEF PendingDelegations
<1>8. DelegatedCalls(t) = DelegatedCalls(s)
  BY <1>5, <1>7 DEF DelegatedCalls, Shares
<1>9. \A effect : Expected(t, effect) <=> Expected(s, effect)
  BY <1>4 DEF Expected
<1>10. QED
  BY <1>1, <1>2, <1>3, <1>6, <1>7, <1>8, <1>9 DEF t

LEMMA ElapsedTurns ==
    ASSUME NEW s \in AgentRunState, NEW ms \in Nat, NEW t
    PROVE  /\ Turns(RecordElapsed(s, ms), t) => Turns(s, t)
           /\ \A n : AnswersFirst(RecordElapsed(s, ms), t, n) => AnswersFirst(s, t, n)
<1> DEFINE e == RecordElapsed(s, ms)
<1>1. /\ e.history = s.history /\ e.pending_tools = s.pending_tools
      /\ e.status = s.status /\ e.model_calls = s.model_calls
  BY ElapsedKeeps
<1> HIDE DEF e
<1>2. Turns(e, t) => Turns(s, t)
  BY <1>1 DEF Turns
<1>3. \A n : AnswersFirst(e, t, n) => AnswersFirst(s, t, n)
  BY <1>1, Zenon DEF AnswersFirst
<1>4. QED
  BY <1>2, <1>3 DEF e

\* Time has been charged, and the effect is still the expected one.
LEMMA CommitReady ==
    ASSUME TypeOK, Accounts, phase = "outcome"
    PROVE  LET s == RecordElapsed(state, clock.effect) IN
           /\ clock.effect \in Nat
           /\ Good(s) /\ Expected(s, Effect) /\ Effect.kind \in {"provider", "tool", "tool-batch"}
           /\ Sound(state) => Sound(s)
           /\ Effect.kind # "tool-batch" \/ Len(work) = Len(s.pending_tools)
<1>1. clock.effect \in Nat /\ state \in AgentRunState
  BY DEF TypeOK
<1>2. EffectKnown /\ Good(state)
  BY DEF Accounts
<1>3. Effect.kind \in {"provider", "tool", "tool-batch"} /\ Expected(state, Effect)
  BY <1>2, EffectKinds
<1>4. CASE Effect.kind = "tool-batch"
  <2>1. DOMAIN work = 1..Len(state.pending_tools) /\ DOMAIN work = 1..Len(work)
    BY <1>2, <1>4 DEF EffectKnown, Members, TypeOK
  <2>2. Len(work) \in Nat /\ Len(state.pending_tools) \in Nat
    BY <1>1 DEF TypeOK, AgentRunState
  <2>3. Len(work) = Len(state.pending_tools)
    BY <2>1, <2>2
  <2>4. QED
    BY <1>1, <1>2, <1>3, <2>3, ElapsedKeeps, QuietStepsGood, QuietStepsSound
<1>5. CASE Effect.kind # "tool-batch"
  BY <1>1, <1>2, <1>3, <1>5, ElapsedKeeps, QuietStepsGood, QuietStepsSound
<1>6. QED
  BY <1>4, <1>5

\* A committed provider outcome charges the attempts it took.
LEMMA CommitProvider ==
    ASSUME TypeOK, Accounts, phase = "outcome", IsProvider
    PROVE  /\ Good(Committed) /\ Turns(state, Committed)
           /\ Sound(state) => Sound(Committed)
<1> DEFINE s == RecordElapsed(state, clock.effect)
<1>1. /\ clock.effect \in Nat /\ state \in AgentRunState
      /\ Good(s) /\ Expected(s, Effect) /\ Effect.kind = "provider"
      /\ Sound(state) => Sound(s)
  BY CommitReady DEF IsProvider, TypeOK
<1>2. \A attempts : Admitted(s, attempts) <=> Admitted(state, attempts)
  BY <1>1, ElapsedKeeps
<1>3. s \in AgentRunState
  BY <1>1 DEF Good
<1>4. ProviderOver
  BY DEF Accounts
<1>5. CASE outcome.kind = "response"
  <2>1. /\ outcome.calls \in Seq(Call) /\ DistinctIds(outcome.calls)
        /\ Admitted(s, outcome.attempts)
        /\ (outcome.calls = << >>) \in BOOLEAN
    BY <1>2, <1>4, <1>5 DEF ProviderOver, TypeOK, Outcome
  <2>2. Committed = CommitProviderResponse(s, Effect, outcome.calls, outcome.calls = << >>,
                                           outcome.attempts)
    BY <1>5 DEF Committed
  <2> HIDE DEF s
  <2>3. Good(Committed)
    BY <1>1, <2>1, <2>2, ProviderResponseGood
  <2>4. Turns(s, Committed)
    BY <1>1, <2>1, <2>2, ResponseTurns
  <2>5. Sound(s) => Sound(Committed)
    BY <1>1, <2>1, <2>2, ProviderOutcomesSound
  <2>6. QED
    BY <1>1, <2>3, <2>4, <2>5, ElapsedTurns DEF s
<1>6. CASE outcome.kind = "failed"
  <2>1. Admitted(s, outcome.attempts)
    BY <1>2, <1>4, <1>6 DEF ProviderOver
  <2>2. Committed = CommitProviderFailure(s, Effect, outcome.attempts)
    BY <1>6 DEF Committed
  <2> HIDE DEF s
  <2>3. Good(Committed)
    BY <1>1, <2>1, <2>2, ProviderFailureGood
  <2>4. Turns(s, Committed)
    BY <1>1, <2>2, ProviderEndsTurn
  <2>5. Sound(s) => Sound(Committed)
    BY <1>1, <2>1, <2>2, ProviderOutcomesSound
  <2>6. QED
    BY <1>1, <2>3, <2>4, <2>5, ElapsedTurns DEF s
<1>7. CASE outcome.kind = "exhausted"
  <2>1. Committed = CommitBudgetExhausted(s, Effect)
    BY <1>7 DEF Committed
  <2> HIDE DEF s
  <2>2. Good(Committed)
    BY <1>1, <2>1, BudgetExhaustedGood
  <2>3. Turns(s, Committed)
    BY <1>1, <2>1, ProviderEndsTurn
  <2>4. Sound(s) => Sound(Committed)
    BY <1>1, <1>3, <2>1, BudgetExhaustedSound
  <2>5. QED
    BY <1>1, <2>2, <2>3, <2>4, ElapsedTurns DEF s
<1>8. QED
  BY <1>4, <1>5, <1>6, <1>7 DEF ProviderOver

LEMMA CommitTools ==
    ASSUME TypeOK, Accounts, phase = "outcome", ~IsProvider
    PROVE  /\ Good(Committed)
           /\ state.status \in Live /\ state.pending_tools # << >>
           /\ \E n \in 1..Len(state.pending_tools) : AnswersFirst(state, Committed, n)
           /\ Sound(state) => Sound(Committed)
<1> DEFINE s == RecordElapsed(state, clock.effect)
<1>1. /\ clock.effect \in Nat /\ state \in AgentRunState /\ child \in RunUsage
      /\ Good(s) /\ Expected(s, Effect) /\ Effect.kind \in {"tool", "tool-batch"}
      /\ Sound(state) => Sound(s)
      /\ Effect.kind # "tool-batch" \/ Len(work) = Len(s.pending_tools)
  BY CommitReady DEF IsProvider, TypeOK
<1>2. s \in AgentRunState /\ s.pending_tools = state.pending_tools /\ s.status = state.status
  BY <1>1, ElapsedKeeps
<1>3. outcome.kind = Effect.kind
  BY DEF Accounts, InToolEffect
<1>4. Len(state.pending_tools) \in Nat
  BY <1>1 DEF AgentRunState
<1>5. s.status \in Live
  BY <1>1, <1>2, ExpectedLive
<1> HIDE DEF s
<1>6. CASE Effect.kind = "tool"
  <2>1. Committed = CommitTool(s, Effect, child)
    BY <1>3, <1>6 DEF Committed, s
  <2>2. Good(Committed)
    BY <1>1, <2>1, ToolGood
  <2>3. s.pending_tools # << >> /\ AnswersFirst(s, Committed, 1)
    BY <1>1, <1>2, <1>6, <2>1, ToolAnswers
  <2>4. Sound(s) => Sound(Committed)
    BY <1>2, <2>1, ToolSound
  <2>5. 1 \in 1..Len(state.pending_tools)
    BY <1>1, <1>2, <1>4, <2>3 DEF AgentRunState
  <2>6. QED
    BY <1>1, <1>2, <1>5, <2>2, <2>3, <2>4, <2>5, ElapsedTurns DEF s
<1>7. CASE Effect.kind = "tool-batch"
  <2>1. Committed = CommitBatch(s, Effect, Len(work), child)
    BY <1>3, <1>7 DEF Committed, s
  <2>2. Good(Committed)
    BY <1>1, <2>1, BatchGood
  <2>3. s.pending_tools # << >> /\ AnswersFirst(s, Committed, Len(s.pending_tools))
    BY <1>1, <1>2, <1>7, <2>1, BatchAnswers
  <2>4. Sound(s) => Sound(Committed)
    BY <1>2, <2>1, BatchSound
  <2>5. Len(state.pending_tools) \in 1..Len(state.pending_tools)
    BY <1>1, <1>2, <1>4, <2>3 DEF AgentRunState
  <2>6. QED
    BY <1>1, <1>2, <1>5, <2>2, <2>3, <2>4, <2>5, ElapsedTurns DEF s
<1>8. QED
  BY <1>1, <1>6, <1>7

LEMMA StepKeepsGood ==
    ASSUME TypeOK, Accounts, Next
    PROVE  Good(state')
<1>1. Good(state)
  BY DEF Accounts
<1>2. CASE CommitOutcome
  <2>1. phase = "outcome" /\ state' = Committed
    BY <1>2 DEF CommitOutcome
  <2>2. QED
    BY <2>1, CommitProvider, CommitTools
<1>3. CASE ~CommitOutcome
  BY <1>1, <1>3, StepKinds, QuietStepsGood
  DEF LoopSteps, StartRun, StopIdle, SettleCompleted, Publish, FinishCancelled, FinishFailed,
      StopExhausted
<1>4. QED
  BY <1>2, <1>3

-----------------------------------------------------------------------------
(* The types of the task's locals and of the handle. *)

LEMMA GraceType == GracePoll \in {0, 1}
BY DEF GracePoll

\* The workers, and any selection of them, are finitely many.
LEMMA WorkersFinite ==
    ASSUME TypeOK, NEW S \in SUBSET DOMAIN work
    PROVE  IsFiniteSet(S) /\ Cardinality(S) \in Nat
<1>1. Len(work) \in Nat /\ DOMAIN work = 1..Len(work)
  BY DEF TypeOK
<1>2. IsFiniteSet(DOMAIN work)
  BY <1>1, FS_Interval
<1>3. QED
  BY <1>2, FS_Subset, FS_CardinalityType

\* The children of an effect that is abandoned call nothing, or something.
LEMMA ChildrenCall ==
    ASSUME TypeOK
    PROVE  Cardinality(Abroad) * DelegatedCalls(state) \in Nat /\ CallsOfChildren \subseteq Nat
<1>1. Cardinality(Abroad) \in Nat
  BY WorkersFinite DEF Abroad
<1>2. DelegatedCalls(state) \in Nat
  BY RemainingType DEF TypeOK
<1>3. Cardinality(Abroad) * DelegatedCalls(state) \in Nat
  BY <1>1, <1>2
<1>4. QED
  BY <1>3 DEF CallsOfChildren

LEMMA StepKeepsTypes ==
    ASSUME TypeOK, Accounts, Next
    PROVE  TypeOK'
<1> DEFINE Task == /\ phase' \in Phases /\ work' \in Seq(Worker) /\ reserved' \in Nat
                   /\ outcome' \in Outcome /\ child' \in RunUsage
                   /\ clock' \in [run : Nat, effect : Nat]
           Handle == /\ status' \in Status /\ events' \in Seq(Status)
                     /\ result' \in {"none", "ok", "error"}
           Counts == cancelled' \in BOOLEAN /\ {transport', orphans'} \subseteq Nat
                     /\ misled' \in BOOLEAN
<1>0. state' \in AgentRunState
  BY StepKeepsGood DEF Good
<1>1. Good(state) /\ EffectKnown
  BY DEF Accounts
<1>2. << >> \in Seq(Worker) /\ NoOutcome \in Outcome
  BY DEF NoOutcome, Outcome
<1>3. {"pending", "running", "completed", "cancelled", "failed"} \subseteq Status
  BY DEF Status
<1>4. /\ work \in Seq(Worker) /\ child \in RunUsage /\ phase \in Phases /\ outcome \in Outcome
      /\ clock \in [run : Nat, effect : Nat] /\ reserved \in Nat
      /\ status \in Status /\ events \in Seq(Status) /\ result \in {"none", "ok", "error"}
      /\ cancelled \in BOOLEAN /\ transport \in Nat /\ orphans \in Nat /\ misled \in BOOLEAN
      /\ state \in AgentRunState
  BY DEF TypeOK
<1>5. /\ {"top", "executing", "outcome", "settle", "returned", "published"} \subseteq Phases
  BY DEF Phases
<1>6. \A kind \in {"ok", "error"} : Return(kind) => Task /\ result' \in {"none", "ok", "error"}
  BY EndTypes
<1>7. \A s \in Status : Announce(s) => status' \in Status /\ events' \in Seq(Status)
  BY AnnounceTypes
<1>8. FinishCancelled \/ FinishFailed => Task /\ Handle
  BY <1>1, FinishTypes
<1>9. \A S \in SUBSET DOMAIN work : Cardinality(S) \in Nat
  BY WorkersFinite
<1>10. Moves => work' \in Seq(Worker)
  BY <1>4, WorkerStep DEF Moves
<1>11. GracePoll \in Nat
  BY GraceType
<1> SUFFICES Task /\ Handle /\ Counts
  BY <1>0 DEF TypeOK
<1> HIDE DEF Task, Handle, Counts
<1>12. CASE StartRun
  BY <1>3, <1>4, <1>5, <1>6, <1>7, <1>12 DEF StartRun, Task, Handle, Counts
<1>13. CASE StopCancelled \/ SettleLate
  BY <1>4, <1>8, <1>13 DEF StopCancelled, SettleLate, Counts
<1>14. CASE StopExhausted
  <2>1. state'.status \in Status
    BY <1>0 DEF AgentRunState
  <2>2. QED
    BY <1>4, <1>6, <1>7, <1>14, <2>1 DEF StopExhausted, Handle, Counts
<1>15. CASE StopIdle \/ SettleCompleted
  BY <1>3, <1>4, <1>6, <1>7, <1>15 DEF StopIdle, SettleCompleted, Handle, Counts
<1>16. CASE StartEffect
  <2>1. Queued \in Worker
    BY DEF Queued, Worker, Unset
  <2>2. Len(state.pending_tools) \in Nat
    BY <1>4 DEF AgentRunState
  <2>3. work' \in Seq(Worker)
    BY <1>16, <2>1, <2>2 DEF StartEffect
  <2>4. EmptyUsage \in RunUsage
    BY DEF EmptyUsage, RunUsage
  <2>5. clock' \in [run : Nat, effect : Nat]
    BY <1>4, <1>16 DEF StartEffect
  <2>6. QED
    BY <1>4, <1>5, <1>16, <2>3, <2>4, <2>5 DEF StartEffect, Task, Handle, Counts
<1>17. CASE WorkCancelled
  <2>1. PICK i \in DOMAIN work : orphans' = orphans + Cardinality({j \in Abroad : j > i})
    BY <1>17 DEF WorkCancelled
  <2>2. Cardinality({j \in Abroad : j > i}) \in Nat
    BY <1>9 DEF Abroad
  <2>3. PICK made \in Nat : transport' = transport + GracePoll + made
    BY <1>17, ChildrenCall DEF WorkCancelled
  <2>4. QED
    BY <1>4, <1>8, <1>11, <1>17, <2>1, <2>2, <2>3 DEF WorkCancelled, Counts
<1>18. CASE WorkTimesOut
  <2>1. Cardinality(Abroad) \in Nat
    BY <1>9 DEF Abroad
  <2>2. PICK made \in Nat : transport' = transport + GracePoll + made
    BY <1>18, ChildrenCall DEF WorkTimesOut
  <2>3. QED
    BY <1>4, <1>8, <1>11, <1>18, <2>1, <2>2 DEF WorkTimesOut, Counts
<1>19. CASE ContextRejected \/ ProviderMisbehaves
  BY <1>4, <1>8, <1>19 DEF ContextRejected, ProviderMisbehaves, Polled, Counts
<1>20. CASE AdmitProvider
  <2>1. phase = "executing" /\ IsProvider
    BY <1>20 DEF AdmitProvider
  <2>2. work[1] \in Worker /\ 1 \in DOMAIN work
    <3>1. 1 \in DOMAIN work
      BY <1>1, <2>1, EffectKinds
    <3>2. QED
      BY <1>4, <3>1
  <2>3. LeftFor(work[1]) \in Nat \cup {Unset}
    BY <2>2, TimeTypes
  <2> DEFINE v == [work[1] EXCEPT !.stage = "armed", !.left = LeftFor(work[1])]
  <2>4. v \in Worker
    BY <2>2, <2>3 DEF Worker
  <2>5. PICK bound \in TokenBounds :
          \/ outcome' = [kind |-> "exhausted"] /\ phase' = "outcome" /\ UNCHANGED <<work, reserved>>
          \/ /\ reserved' = Reservation(state, bound)
             /\ work' = [work EXCEPT ![1].stage = "armed", ![1].left = LeftFor(work[1])]
             /\ UNCHANGED <<outcome, phase>>
    BY <1>20 DEF AdmitProvider
  <2>6. Reservation(state, bound) \in Nat
    BY <1>4, LocalAssumption, AdmittedReservation
  <2>7. [kind |-> "exhausted"] \in Outcome
    BY DEF Outcome
  <2>8. [work EXCEPT ![1].stage = "armed", ![1].left = LeftFor(work[1])]
          = [work EXCEPT ![1] = v]
    BY <1>4, <2>2
  <2> HIDE DEF v
  <2>9. work' \in Seq(Worker) /\ reserved' \in Nat /\ outcome' \in Outcome /\ phase' \in Phases
    <3>1. [work EXCEPT ![1] = v] \in Seq(Worker)
      BY <1>4, <2>2, <2>4, WorkerStep
    <3>2. QED
      BY <1>4, <1>5, <2>5, <2>6, <2>7, <2>8, <3>1
  <2>10. QED
    BY <1>4, <1>20, <2>9 DEF AdmitProvider, InEffect, Task, Handle, Counts
<1>21. CASE CallProvider \/ ProviderRetries \/ BackoffEnds
  <2>1. work' \in Seq(Worker)
    BY <1>1, <1>10, <1>21, WorkMoves
  <2>2. /\ UNCHANGED <<phase, reserved, outcome, child, clock, status, events, result,
                       cancelled, orphans, misled>>
        /\ transport' \in {transport, transport + 1}
    BY <1>21 DEF CallProvider, ProviderRetries, BackoffEnds, InEffect
  <2>3. QED
    BY <1>4, <2>1, <2>2 DEF Task, Handle, Counts
<1>22. CASE ProviderAnswers \/ ProviderFails
  <2>1. work[1].attempt \in Nat
    <3>1. phase = "executing" /\ IsProvider
      BY <1>22 DEF ProviderAnswers, ProviderFails, Polled
    <3>2. 1 \in DOMAIN work
      BY <1>1, <3>1, EffectKinds
    <3>3. work[1] \in Worker
      BY <1>4, <3>2
    <3>4. QED
      BY <3>3 DEF Worker
  <2>2. \A measured \in BOOLEAN : Spent(measured) \in Attempts
    BY <1>4, <2>1 DEF Spent, Attempts
  <2>3. outcome' \in Outcome
    <3>1. CASE ProviderAnswers
      <4>1. PICK calls \in Responses \cup {<< >>}, measured \in BOOLEAN :
              outcome' = [kind |-> "response", calls |-> calls, attempts |-> Spent(measured)]
        BY <3>1 DEF ProviderAnswers
      <4>2. calls \in Seq(Call)
        <5>1. << >> \in Seq(Call)
          OBVIOUS
        <5>2. QED
          BY <5>1, LocalAssumption
      <4>3. QED
        BY <2>2, <4>1, <4>2 DEF Outcome
    <3>2. CASE ProviderFails
      BY <2>2, <3>2 DEF ProviderFails, Outcome
    <3>3. QED
      BY <1>22, <3>1, <3>2
  <2>4. QED
    BY <1>4, <1>5, <1>22, <2>3
    DEF ProviderAnswers, ProviderFails, InEffect, Task, Handle, Counts
<1>23. CASE ToolUnavailable \/ ToolRefused \/ ToolStarts \/ ToolEnds \/ ToolRetries \/ ChildStarts
  <2>1. work' \in Seq(Worker)
    BY <1>1, <1>10, <1>23, WorkMoves
  <2>2. UNCHANGED <<phase, reserved, outcome, child, clock, status, events, result,
                    cancelled, transport, orphans, misled>>
    BY <1>23 DEF ToolUnavailable, ToolRefused, EndsUnstarted, ToolStarts, ToolEnds, ToolRetries,
                 ChildStarts, InTools, InEffect
  <2>3. QED
    BY <1>4, <2>1, <2>2 DEF Task, Handle, Counts
<1>24. CASE ChildEnds
  <2>1. work' \in Seq(Worker)
    BY <1>1, <1>10, <1>24, WorkMoves
  <2>2. PICK i \in DOMAIN work : ChildReports(i)
    BY <1>24 DEF ChildEnds
  <2>3. PICK made \in 0..DelegatedCalls(state), complete \in BOOLEAN : \E reported \in 0..made :
          /\ transport' = transport + made
          /\ child' = MergeChild(child, [calls |-> reported, complete |-> complete])
          /\ misled' = (misled \/ (complete /\ reported < made))
    BY <2>2 DEF ChildReports
  <2>4. PICK reported \in 0..made :
          /\ transport' = transport + made
          /\ child' = MergeChild(child, [calls |-> reported, complete |-> complete])
          /\ misled' = (misled \/ (complete /\ reported < made))
    BY <2>3
  <2>5. DelegatedCalls(state) \in Nat
    BY <1>4, RemainingType
  <2>6. made \in Nat /\ reported \in Nat
    BY <2>5
  <2>7. [calls |-> reported, complete |-> complete] \in RunUsage
    BY <2>6 DEF RunUsage
  <2>8. child' \in RunUsage /\ transport' \in Nat /\ misled' \in BOOLEAN
    BY <1>4, <2>4, <2>6, <2>7, MergeChildType
  <2>9. QED
    BY <1>4, <2>1, <2>2, <2>8 DEF ChildReports, Task, Handle, Counts
<1>25. CASE ToolsDone
  <2>1. [kind |-> Effect.kind] \in Outcome
    BY <1>1, <1>25, EffectKinds DEF ToolsDone, IsProvider, Outcome
  <2>2. QED
    BY <1>4, <1>5, <1>25, <2>1 DEF ToolsDone, InEffect, Task, Handle, Counts
<1>26. CASE CommitOutcome
  BY <1>2, <1>3, <1>4, <1>5, <1>6, <1>7, <1>26 DEF CommitOutcome, Task, Handle, Counts
<1>27. CASE SettleContinues \/ UserCancels \/ Over
  BY <1>4, <1>5, <1>27 DEF SettleContinues, UserCancels, Over, vars, Task, Handle, Counts
<1>28. CASE Publish
  BY <1>3, <1>4, <1>5, <1>7, <1>28 DEF Publish, Task, Handle, Counts
<1>29. CASE Tick
  <2> DEFINE cap == state.plan.deadline_ms
  <2>1. cap \in Nat
    BY <1>4, <1>29 DEF Tick, AgentRunState, Plan
  <2> HIDE DEF cap
  <2>2. \A n \in Nat, c \in Nat : Advance(n, c) \in Nat
    BY DEF Advance
  <2>3. clock' \in [run : Nat, effect : Nat]
    <3>1. /\ clock'.run = Advance(clock.run, cap)
          /\ clock'.effect = Advance(clock.effect, PastEveryBound) \/ clock'.effect = clock.effect
          /\ clock' = [run |-> clock'.run, effect |-> clock'.effect]
      BY <1>29 DEF Tick, cap
    <3>2. \A n \in Nat : Advance(n, PastEveryBound) \in Nat
      BY DEF Advance
    <3>3. QED
      BY <1>4, <2>1, <2>2, <3>1, <3>2
  <2>4. work' \in Seq(Worker)
    <3> DEFINE moved(i) == IF work[i].stage \in {"queued", "done"}
                           THEN work[i]
                           ELSE [work[i] EXCEPT !.wait = Advance(@, cap),
                                                !.since = Advance(@, cap)]
    <3>0. Len(work) \in Nat /\ DOMAIN work = 1..Len(work)
      BY <1>4
    <3>1. work' = [i \in DOMAIN work |-> moved(i)]
      BY <1>29, Zenon DEF Tick, cap
    <3>2. ASSUME NEW i \in DOMAIN work PROVE moved(i) \in Worker
      <4>1. work[i] \in Worker
        BY <1>4
      <4>2. work[i].wait \in Nat /\ work[i].since \in Nat
        BY <4>1 DEF Worker
      <4>3. Advance(work[i].wait, cap) \in Nat /\ Advance(work[i].since, cap) \in Nat
        BY <2>1, <2>2, <4>2
      <4>4. QED
        BY <4>1, <4>3 DEF Worker
    <3> HIDE DEF moved
    <3>3. work' = [i \in 1..Len(work) |-> moved(i)] /\ \A i \in 1..Len(work) : moved(i) \in Worker
      BY <3>0, <3>1, <3>2
    <3>4. QED
      BY <3>0, <3>3
  <2>5. QED
    BY <1>4, <1>29, <2>3, <2>4 DEF Tick, Task, Handle, Counts
<1>30. QED
  BY <1>12, <1>13, <1>14, <1>15, <1>16, <1>17, <1>18, <1>19, <1>20, <1>21, <1>22, <1>23,
     <1>24, <1>25, <1>26, <1>27, <1>28, <1>29
  DEF Next, TaskStep, Answer

-----------------------------------------------------------------------------
(* The state of a run in its loop, and of one that returned. *)

\* Terminal transitions keep the answer, and the pending calls unless they finish.
LEMMA QuietText ==
    ASSUME NEW s \in AgentRunState, s.text => s.status = "completed"
    PROVE  /\ Cancel(s).text => Cancel(s).status = "completed"
           /\ Fail(s).text => Fail(s).status = "completed"
           /\ FinishIfExhausted(s).text => FinishIfExhausted(s).status = "completed"
<1>1. {"status", "text", "error", "usage"} \subseteq DOMAIN s /\ (s.status \in Live => ~s.text)
  BY DEF AgentRunState, Live
<1>2. Cancel(s).text => Cancel(s).status = "completed"
  BY <1>1 DEF Cancel
<1>3. Fail(s).text => Fail(s).status = "completed"
  BY <1>1 DEF Fail
<1>4. FinishIfExhausted(s).text => FinishIfExhausted(s).status = "completed"
  <2>1. CASE Exhausted(s)
    BY <1>1, <1>2, <2>1 DEF FinishIfExhausted, Exhausted
  <2>2. CASE ~Exhausted(s)
    BY <2>2 DEF FinishIfExhausted
  <2>3. QED
    BY <2>1, <2>2
<1>5. QED
  BY <1>2, <1>3, <1>4

\* Only an answer that carries text completes a run.
LEMMA CommitText ==
    ASSUME TypeOK, Accounts, phase = "outcome", state.text => state.status = "completed"
    PROVE  /\ Committed.text => Committed.status = "completed"
           /\ outcome.kind # "failed" => Committed.status \notin {"failed", "cancelled"}
           /\ outcome.kind = "failed" => Committed.status = "failed"
<1> DEFINE s == RecordElapsed(state, clock.effect)
<1>1. /\ s \in AgentRunState /\ Expected(s, Effect) /\ s.status \in Live /\ ~s.text
      /\ Effect.kind \in {"provider", "tool", "tool-batch"}
  <2>1. clock.effect \in Nat /\ state \in AgentRunState
    BY DEF TypeOK
  <2>2. Expected(s, Effect) /\ Effect.kind \in {"provider", "tool", "tool-batch"}
    BY CommitReady
  <2>3. s \in AgentRunState /\ s.status = state.status /\ s.text = state.text
    BY <2>1, ElapsedKeeps
  <2> HIDE DEF s
  <2>4. QED
    BY <2>2, <2>3, ExpectedLive DEF Live
<1> HIDE DEF s
<1>2. CASE IsProvider
  <2>1. ProviderOver /\ Effect.kind = "provider"
    BY <1>2 DEF Accounts, IsProvider
  <2>2. CASE outcome.kind = "response"
    <3> DEFINE c == ChargeProvider(s, outcome.attempts)
    <3>1. Committed = AcceptResponse(c, outcome.calls, outcome.calls = << >>)
      BY <1>1, <2>1, <2>2 DEF Committed, CommitProviderResponse, s
    <3>2. /\ DOMAIN c = DOMAIN s /\ ~c.text
          /\ {"history", "status", "text", "pending_tools", "usage"} \subseteq DOMAIN s
      BY <1>1 DEF ChargeProvider, AgentRunState
    <3> HIDE DEF c
    <3>3. QED
      BY <2>2, <3>1, <3>2 DEF AcceptResponse
  <2>3. CASE outcome.kind = "failed"
    <3> DEFINE c == ChargeProvider(s, outcome.attempts)
    <3>1. Committed = Fail(c)
      BY <1>1, <2>1, <2>3 DEF Committed, CommitProviderFailure, s
    <3>2. /\ DOMAIN c = DOMAIN s /\ ~c.text /\ c.status \in Live
          /\ {"status", "text", "error"} \subseteq DOMAIN s
      BY <1>1 DEF ChargeProvider, AgentRunState
    <3> HIDE DEF c
    <3>3. QED
      BY <2>3, <3>1, <3>2 DEF Fail
  <2>4. CASE outcome.kind = "exhausted"
    <3>1. Committed = [s EXCEPT !.status = "incomplete", !.usage.complete = FALSE]
      BY <1>1, <2>1, <2>4 DEF Committed, CommitBudgetExhausted, s
    <3>2. QED
      BY <1>1, <2>4, <3>1 DEF AgentRunState
  <2>5. QED
    BY <2>1, <2>2, <2>3, <2>4, <1>2 DEF ProviderOver
<1>3. CASE ~IsProvider
  <2>1. outcome.kind = Effect.kind
    BY <1>3 DEF Accounts, InToolEffect
  <2>2. Committed.status \in Live
    BY <1>3, CommitTools DEF AnswersFirst
  <2>3. Committed.text = s.text
    <3>1. \/ Committed = CommitTool(s, Effect, child)
          \/ Committed = CommitBatch(s, Effect, Len(work), child)
      BY <1>1, <1>3, <2>1 DEF Committed, IsProvider, s
    <3>2. CommitTool(s, Effect, child).text = s.text
      BY <1>1 DEF CommitTool, ReserveChildren, AgentRunState
    <3>3. CommitBatch(s, Effect, Len(work), child).text = s.text
      BY <1>1 DEF CommitBatch, ReserveChildren, AgentRunState
    <3>4. QED
      BY <3>1, <3>2, <3>3
  <2>4. QED
    BY <1>1, <1>3, <2>1, <2>2, <2>3 DEF Live, IsProvider
<1>4. QED
  BY <1>2, <1>3

\* However the state changes, its history and its pending calls change as the
\* state machine lets them.
LEMMA StateTurns ==
    ASSUME TypeOK, Accounts, Next
    PROVE  \/ Holds(state, state')
           \/ Turns(state, state')
           \/ /\ state.status \in Live
              /\ state.pending_tools # << >>
              /\ \E n \in 1..Len(state.pending_tools) : AnswersFirst(state, state', n)
<1>1. state \in AgentRunState
  BY DEF TypeOK
<1>2. CASE CommitOutcome
  <2>1. phase = "outcome" /\ state' = Committed
    BY <1>2 DEF CommitOutcome
  <2>2. QED
    BY <2>1, CommitProvider, CommitTools
<1>3. CASE ~CommitOutcome
  <2>1. state' \in {state, Cancel(state), Fail(state), FinishIfExhausted(state)}
    BY <1>3, StepKinds
    DEF LoopSteps, StartRun, StopIdle, SettleCompleted, Publish, FinishCancelled, FinishFailed,
        StopExhausted
  <2>2. QED
    BY <1>1, <2>1, QuietStepsHold
<1>4. QED
  BY <1>2, <1>3

LEMMA StepKeepsText ==
    ASSUME TypeOK, Accounts, state.text => state.status = "completed", Next
    PROVE  state'.text => state'.status = "completed"
<1>1. CASE CommitOutcome
  <2>1. phase = "outcome" /\ state' = Committed
    BY <1>1 DEF CommitOutcome
  <2>2. QED
    BY <2>1, CommitText
<1>2. CASE ~CommitOutcome
  <2>1. state' \in {state, Cancel(state), Fail(state), FinishIfExhausted(state)}
    BY <1>2, StepKinds
    DEF LoopSteps, StartRun, StopIdle, SettleCompleted, Publish, FinishCancelled, FinishFailed,
        StopExhausted
  <2>2. QED
    BY <2>1, QuietText DEF TypeOK
<1>3. QED
  BY <1>1, <1>2

\* A run that leaves its loop with a result is over, and resumes unless it was
\* cancelled.
LEMMA EndsWell ==
    ASSUME TypeOK, Accounts, Healthy, Next, phase \in Looping, result' = "ok"
    PROVE  /\ Sound(state') /\ state'.status \in Terminal
           /\ state'.status # "cancelled" => state'.pending_tools = << >>
<1>1. /\ state \in AgentRunState /\ Sound(state) /\ NoCallLeft(state) /\ Good(state)
      /\ state.status \in {"pending", "running", "completed", "incomplete"}
      /\ result = "none"
  BY DEF TypeOK, Accounts, Healthy, AgentRunState, Status, Looping, AtEnd
<1>2. Cancel(state).pending_tools = state.pending_tools
  BY <1>1 DEF Cancel, AgentRunState
<1>3. CASE FinishCancelled
  <2>1. state' = Cancel(state) /\ Sound(state')
    BY <1>1, <1>3, QuietStepsSound DEF FinishCancelled
  <2>2. state'.status \in {"cancelled", "completed", "incomplete"}
    BY <1>1, <2>1 DEF Cancel, AgentRunState, Live
  <2>3. state'.status # "cancelled" => state' = state /\ state.status \in {"completed", "incomplete"}
    BY <1>1, <2>1, <2>2 DEF Cancel, AgentRunState, Live
  <2>4. QED
    BY <1>1, <2>1, <2>2, <2>3 DEF Terminal, Status, Live, NoCallLeft
<1>4. CASE StopExhausted
  <2>1. state' = FinishIfExhausted(state) /\ Sound(state') /\ Exhausted(state) /\ state.status \in Live
    BY <1>1, <1>4, QuietStepsSound DEF StopExhausted, Exhausted
  <2>2. CASE DeadlineReached(state)
    BY <1>1, <2>1, <2>2 DEF FinishIfExhausted, Cancel, AgentRunState, Terminal, Status, Live
  <2>3. CASE ~DeadlineReached(state)
    <3>1. state.pending_tools = << >>
      BY <2>1, <2>3 DEF Exhausted
    <3>2. state'.status = "incomplete" /\ state'.pending_tools = state.pending_tools
      BY <1>1, <2>1, <2>3 DEF FinishIfExhausted, AgentRunState
    <3>3. QED
      BY <2>1, <3>1, <3>2 DEF Terminal, Status, Live
  <2>4. QED
    BY <2>2, <2>3
<1>5. CASE StopIdle
  <2>1. state' = state /\ ~Exhausted(state) /\ NextEffect(state) = NoEffect
    BY <1>5 DEF StopIdle, Effect
  <2>2. state.status \notin Live
    BY <2>1 DEF NextEffect, Exhausted, NoEffect, ProviderEffect, ToolEffect, BatchEffect
  <2>3. QED
    BY <1>1, <2>1, <2>2 DEF Terminal, Status, Live, NoCallLeft
<1>6. CASE SettleCompleted
  <2>1. state' = state /\ state.status = "completed"
    BY <1>6 DEF SettleCompleted, Healthy
  <2>2. QED
    BY <1>1, <2>1 DEF Terminal, Status, Live, NoCallLeft
<1>7. CASE CommitOutcome
  <2>1. phase = "outcome" /\ state' = Committed /\ outcome.kind = "failed"
    BY <1>1, <1>7 DEF CommitOutcome
  <2>2. IsProvider
    BY <2>1, CommitReady DEF Accounts, InToolEffect
  <2>3. Sound(state') /\ Turns(state, state')
    BY <1>1, <2>1, <2>2, CommitProvider
  <2>4. state'.status = "failed"
    BY <2>1, CommitText DEF Healthy
  <2>5. QED
    BY <2>3, <2>4 DEF Turns, Terminal, Status, Live
<1>8. QED
  BY <1>1, <1>3, <1>4, <1>5, <1>6, <1>7, StepKinds
  DEF LoopSteps, StartRun, Publish, FinishFailed, Return, Looping

LEMMA StepKeepsHealthy ==
    ASSUME TypeOK, Accounts, Healthy, Next
    PROVE  Healthy'
<1>1. NoCallLeft(state')
  BY StateTurns, StaysIdle DEF Healthy
<1>2. state'.text => state'.status = "completed"
  BY StepKeepsText DEF Healthy
<1>3. state \in AgentRunState
  BY DEF TypeOK
<1>4. (result' = "none" <=> ~AtEnd') /\ (phase' = "start" => state'.status = "pending")
  BY StepKinds
  DEF LoopSteps, StartRun, StopExhausted, StopIdle, SettleCompleted, CommitOutcome, Publish,
      FinishCancelled, FinishFailed, Return, Healthy, AtEnd, Looping
<1>5. ASSUME phase' \in Looping
      PROVE  Sound(state') /\ state'.status \notin {"failed", "cancelled"}
  <2>1. CASE phase \in Looping /\ state' = state
    BY <2>1 DEF Healthy
  <2>2. CASE StartRun
    <3>1. state' = state /\ ValidateHistory(state.history)
      BY <1>5, <2>2 DEF StartRun, Return, Looping
    <3>2. state.status = "pending" /\ state.pending_tools = << >>
      BY <2>2 DEF StartRun, Healthy, NoCallLeft
    <3>3. QED
      BY <3>1, <3>2 DEF Sound, ValidateEffectStateHistory, ValidateHistory, Resolved
  <2>3. CASE CommitOutcome
    <3>1. phase = "outcome" /\ state' = Committed /\ outcome.kind # "failed"
      BY <1>5, <2>3 DEF CommitOutcome, Return, Looping
    <3>2. Sound(state) /\ (state.text => state.status = "completed")
      BY <3>1 DEF Healthy, Looping
    <3>3. QED
      BY <3>1, <3>2, CommitText, CommitProvider, CommitTools
  <2>4. QED
    BY <1>5, <2>1, <2>2, <2>3, StepKinds
    DEF LoopSteps, StopExhausted, StopIdle, SettleCompleted, Publish,
        FinishCancelled, FinishFailed, Return, Looping
<1>6. ASSUME result' = "ok"
      PROVE  /\ Sound(state') /\ state'.status \in Terminal
             /\ state'.status # "cancelled" => state'.pending_tools = << >>
  <2>1. CASE phase \in Looping
    BY <1>6, <2>1, EndsWell
  <2>2. CASE phase \notin Looping
    <3>1. state' = state /\ result' = result
      BY <1>6, <2>2, StepKinds
      DEF LoopSteps, StartRun, StopExhausted, StopIdle, SettleCompleted, CommitOutcome, Publish,
          FinishFailed, Return, Looping
    <3>2. QED
      BY <1>6, <3>1 DEF Healthy
  <2>3. QED
    BY <2>1, <2>2
<1>7. QED
  BY <1>1, <1>2, <1>4, <1>5, <1>6 DEF Healthy

-----------------------------------------------------------------------------
(* What the handle shows. *)

LEMMA StepKeepsAnnounced ==
    ASSUME TypeOK, Accounts, Healthy, Announced, Next
    PROVE  Announced'
<1>0. /\ state \in AgentRunState /\ phase \in Phases
      /\ phase \in Looping => state.status \notin {"failed", "cancelled"} /\ Sound(state)
      /\ result = "none" <=> ~AtEnd
  BY DEF TypeOK, Healthy
<1>1. ASSUME NEW s \in Terminal, phase \in Looping, Announce(s), phase' = "returned",
             result' \in {"ok", "error"},
             result' = "error" => s = "failed",
             result' = "ok" /\ s \in {"completed", "failed", "incomplete"} => state'.status = s
      PROVE  Announced'
  <2>1. events' = <<"running", s>> /\ status' = s
    <3>1. events = <<"running">>
      BY <1>1 DEF Announced
    <3>2. events' = Append(<<"running">>, s) /\ status' = s
      BY <1>1, <3>1 DEF Announce
    <3>3. Append(<<"running">>, s) = <<"running", s>>
      <4> DEFINE a == Append(<<"running">>, s)
                 b == <<"running", s>>
      <4>1. /\ <<"running">> \in Seq(Status) /\ Len(<<"running">>) = 1 /\ <<"running">>[1] = "running"
            /\ b \in Seq(Status) /\ Len(b) = 2 /\ b[1] = "running" /\ b[2] = s
        BY DEF Terminal, Status
      <4>2. a \in Seq(Status) /\ Len(a) = 2 /\ a[1] = "running" /\ a[2] = s
        BY <4>1, AppendProperties DEF Terminal
      <4> HIDE DEF a, b
      <4>3. a = b
        BY <4>1, <4>2, SeqEqual
      <4>4. QED
        BY <4>3 DEF a, b
    <3>4. QED
      BY <3>2, <3>3
  <2>2. QED
    BY <1>1, <2>1 DEF Announced, AtEnd, Looping
<1>2. {"completed", "incomplete", "failed", "cancelled"} \subseteq Terminal
  BY DEF Terminal, Status, Live
<1>3. CASE UNCHANGED <<state, result, status, events>> /\ (phase' = phase \/ {phase, phase'} \subseteq Looping)
  BY <1>3 DEF Announced, AtEnd, Looping
<1>4. CASE StartRun
  BY <1>4 DEF StartRun, Announce, Return, Announced, AtEnd, Looping
<1>5. CASE StopExhausted
  <2>1. state'.status \in {"cancelled", "incomplete"}
    <3>1. state' = FinishIfExhausted(state) /\ Exhausted(state) /\ state.status \in Live
      BY <1>5 DEF StopExhausted, Exhausted
    <3>2. "status" \in DOMAIN state
      BY <1>0 DEF AgentRunState
    <3>3. QED
      BY <3>1, <3>2 DEF FinishIfExhausted, Cancel
  <2>2. QED
    BY <1>1, <1>2, <1>5, <2>1 DEF StopExhausted, Return, Looping
<1>6. CASE StopIdle
  BY <1>6 DEF StopIdle, Return, Announced, AtEnd, Looping
<1>7. CASE SettleCompleted
  <2>1. state' = state /\ state.status = "completed"
    BY <1>7 DEF SettleCompleted, Healthy
  <2>2. QED
    BY <1>1, <1>2, <1>7, <2>1 DEF SettleCompleted, Return, Looping
<1>8. CASE CommitOutcome /\ outcome.kind = "failed"
  <2>1. state'.status = "failed"
    BY <1>8, CommitText DEF CommitOutcome, Healthy
  <2>2. QED
    BY <1>1, <1>2, <1>8, <2>1 DEF CommitOutcome, Return, Looping
<1>9. CASE CommitOutcome /\ outcome.kind # "failed"
  BY <1>9 DEF CommitOutcome, Announced, AtEnd, Looping
<1>10. CASE phase \in Looping /\ FinishCancelled
  BY <1>1, <1>2, <1>10 DEF FinishCancelled, Return
<1>11. CASE phase = "executing" /\ FinishFailed
  BY <1>1, <1>2, <1>11 DEF FinishFailed, Return, Looping
<1>12. CASE Publish
  <2>1. phase = "returned" /\ phase' = "published" /\ UNCHANGED <<state, result>>
    BY <1>12 DEF Publish
  <2>2. CASE result = "error" /\ status \in Live
    <3>1. events = << >>
      BY <2>1, <2>2 DEF Announced, AtEnd, Terminal, Live
    <3>2. events' = <<"failed">> /\ status' = "failed"
      BY <1>12, <2>2, <3>1 DEF Publish, Announce
    <3>3. /\ phase' = "published" /\ result' = "error"
          /\ events' = <<"failed">> /\ status' = "failed"
      BY <2>1, <2>2, <3>2
    <3>4. QED
      BY <3>3 DEF Announced, AtEnd, Looping
  <2>3. CASE ~(result = "error" /\ status \in Live)
    <3>1. UNCHANGED <<status, events>>
      BY <1>12, <2>3 DEF Publish
    <3>2. QED
      BY <2>1, <2>3, <3>1 DEF Announced, AtEnd, Looping, Live
  <2>4. QED
    BY <2>2, <2>3
<1>13. QED
  BY <1>3, <1>4, <1>5, <1>6, <1>7, <1>8, <1>9, <1>10, <1>11, <1>12, StepKinds DEF LoopSteps

-----------------------------------------------------------------------------
(* The calls made and the calls charged. *)

\* The delegations that have ended are among the pending ones, and so are those
\* still running.
LEMMA EndedArePending ==
    ASSUME TypeOK, Accounts, phase \in {"executing", "outcome"}, ~IsProvider
    PROVE  /\ Cardinality(Ended) \in Nat /\ Cardinality(Abroad) \in Nat
           /\ Cardinality(Ended) + Cardinality(Abroad) <= Cardinality(PendingDelegations(state))
           /\ Cardinality(Ended) <= Cardinality(PendingDelegations(state))
           /\ Effect.kind = "tool" =>
                Cardinality(Ended) <= IF state.pending_tools[1].tool \in Delegating THEN 1 ELSE 0
<1>1. EffectKnown /\ state \in AgentRunState
  BY DEF Accounts, TypeOK
<1>2. /\ state.pending_tools \in Seq(Call) /\ state.pending_tools # << >>
      /\ Len(state.pending_tools) \in Nat \ {0}
      /\ DOMAIN work = 1..Members
      /\ Members = Len(state.pending_tools) \/ Members = 1
      /\ Effect.kind = "tool" => Members = 1
  <2>1. state.pending_tools \in Seq(Call)
    BY <1>1 DEF AgentRunState
  <2>2. Effect.kind \in {"tool", "tool-batch"} /\ Expected(state, Effect)
    BY <1>1, EffectKinds DEF IsProvider
  <2>3. state.pending_tools # << >>
    BY <1>1, <2>2, ToolNeedsCall
  <2>4. QED
    BY <1>1, <2>1, <2>2, <2>3 DEF EffectKnown, Members
<1>3. Ended \in SUBSET DOMAIN work
  BY DEF Ended
<1>4. IsFiniteSet(Ended) /\ Cardinality(Ended) \in Nat
  BY <1>3, WorkersFinite
<1>5. Ended \subseteq PendingDelegations(state)
  BY <1>2 DEF Ended, IsChild, ToolOf, PendingDelegations
<1>6. IsFiniteSet(PendingDelegations(state))
  BY <1>1, PendingFinite
<1>7. Cardinality(Ended) <= Cardinality(PendingDelegations(state))
  BY <1>5, <1>6, FS_Subset
<1>8. ASSUME Effect.kind = "tool"
      PROVE  Cardinality(Ended) <= IF state.pending_tools[1].tool \in Delegating THEN 1 ELSE 0
  <2>1. Ended \subseteq {1}
    BY <1>2, <1>3, <1>8
  <2>2. IsFiniteSet({1}) /\ Cardinality({1}) = 1
    BY FS_Singleton
  <2>3. Cardinality(Ended) <= 1
    BY <2>1, <2>2, FS_Subset
  <2>4. CASE state.pending_tools[1].tool \notin Delegating
    <3>1. Ended = {}
      BY <2>1, <2>4 DEF Ended, IsChild, ToolOf
    <3>2. Cardinality(Ended) = 0
      BY <3>1, FS_EmptySet
    <3>3. QED
      BY <2>4, <3>2
  <2>5. QED
    BY <2>3, <2>4
<1>9. Abroad \in SUBSET DOMAIN work
  BY DEF Abroad
<1>10. IsFiniteSet(Abroad) /\ Cardinality(Abroad) \in Nat
  BY <1>9, WorkersFinite
<1>11. Abroad \subseteq PendingDelegations(state)
  BY <1>2 DEF Abroad, Running, IsChild, ToolOf, PendingDelegations
<1>12. Ended \cap Abroad = {}
  BY DEF Ended, Abroad, Running
<1>13. Cardinality(Ended \cup Abroad) = Cardinality(Ended) + Cardinality(Abroad)
  <2>1. Cardinality(Ended \cup Abroad) =
           Cardinality(Ended) + Cardinality(Abroad) - Cardinality(Ended \cap Abroad)
    BY <1>4, <1>10, FS_Union
  <2>2. QED
    BY <1>4, <1>10, <1>12, <2>1, FS_EmptySet
<1>14. Cardinality(Ended \cup Abroad) <= Cardinality(PendingDelegations(state))
  <2>1. Ended \cup Abroad \subseteq PendingDelegations(state)
    BY <1>5, <1>11
  <2>2. QED
    BY <1>6, <2>1, FS_Subset
<1>15. QED
  BY <1>4, <1>7, <1>8, <1>10, <1>13, <1>14

\* Fewer children than are charged use no more than the charge.
LEMMA SharesGrow ==
    ASSUME NEW m \in Nat, NEW n \in Nat, m <= n, NEW share \in Nat
    PROVE  m * share <= n * share
BY SMT

\* The calls made stay within the budget at each place of the loop, with the poll
\* of an attempt that is cancelled before it was ever polled, and with the shares of
\* the children that run.
LEMMA WithinLimit ==
    ASSUME TypeOK, Accounts
    PROVE  /\ transport <= state.plan.model_call_limit
           /\ phase = "executing" =>
                 transport + GracePoll + Cardinality(Abroad) * DelegatedCalls(state)
                    <= state.plan.model_call_limit
<1> DEFINE limit == state.plan.model_call_limit
           charged == ChargedCalls(state)
<1>1. /\ state \in AgentRunState /\ limit \in Nat /\ charged \in Nat /\ charged <= limit
      /\ transport \in Nat
  <2>1. state \in AgentRunState /\ transport \in Nat
    BY DEF TypeOK
  <2>2. limit \in Nat /\ charged \in Nat
    BY <2>1, RemainingType DEF AgentRunState, Plan
  <2>3. charged <= limit
    BY DEF Accounts, Good, WithinCalls
  <2>4. QED
    BY <2>1, <2>2, <2>3
<1>2. RemainingCalls(state) = limit - charged
  BY <1>1 DEF RemainingCalls, Minus
<1> HIDE DEF limit, charged
<1>3. CASE phase \in {"start", "top", "settle"}
  BY <1>1, <1>3 DEF Accounts, Settled, charged, limit
<1>4. CASE phase = "executing" /\ IsProvider
  <2> DEFINE w == work[1]
  <2>1. ProviderWorker(w) /\ transport <= charged + MadeBy(w)
    BY <1>4 DEF Accounts, InProvider, charged
  <2>2. w.attempt \in Nat
    <3>1. w \in Worker
      BY <1>4, EffectKinds DEF TypeOK, Accounts
    <3>2. QED
      BY <3>1 DEF Worker
  <2>3. GracePoll = IF w.stage = "armed" THEN 1 ELSE 0
    BY <1>4 DEF GracePoll
  <2> HIDE DEF w
  <2>4. w.stage # "queued" => NextAttempt(w) <= limit - charged
    BY <1>2, <2>1 DEF ProviderWorker, MayAttempt
  <2>5. transport + GracePoll <= limit /\ GracePoll \in Nat /\ transport <= limit
    BY <1>1, <1>4, <2>1, <2>2, <2>3, <2>4 DEF MadeBy, NextAttempt, ProviderWorker, limit
  <2>6. Abroad = {}
    BY <1>4 DEF Abroad, Running, IsChild
  <2>7. Cardinality(Abroad) * DelegatedCalls(state) = 0
    BY <1>1, <2>6, FS_EmptySet, RemainingType
  <2>8. QED
    BY <1>1, <1>4, <2>5, <2>7 DEF limit
<1>5. CASE phase = "outcome" /\ IsProvider
  <2>1. CASE outcome.kind = "exhausted"
    BY <1>1, <1>5, <2>1 DEF Accounts, ProviderOver, charged, limit
  <2>2. CASE outcome.kind \in {"response", "failed"}
    <3>1. /\ Admitted(state, outcome.attempts) /\ outcome.attempts.count > 0
          /\ transport <= charged + outcome.attempts.count
      BY <1>5, <2>2 DEF Accounts, ProviderOver, charged
    <3>2. outcome.attempts.count \in Nat /\ CallCount(outcome.attempts) = outcome.attempts.count
      BY <3>1 DEF Admitted, Attempts, CallCount, MaxOf
    <3>3. outcome.attempts.count <= limit - charged
      BY <1>2, <3>1, <3>2 DEF Admitted
    <3>4. QED
      BY <1>1, <1>5, <3>1, <3>2, <3>3 DEF limit
  <2>3. QED
    BY <1>5, <2>1, <2>2 DEF Accounts, ProviderOver
<1>6. CASE phase \in {"executing", "outcome"} /\ ~IsProvider
  <2> DEFINE n == Cardinality(Ended)
             m == Cardinality(Abroad)
             share == DelegatedCalls(state)
  <2>1. n \in Nat /\ m \in Nat /\ n + m \in Nat /\ n + m < Shares(state)
    BY <1>1, <1>6, EndedArePending, SharesType DEF Shares
  <2>2. (n + m) * share <= RemainingCalls(state)
    BY <1>1, <2>1, SharesFit, SharesType, RemainingType DEF DelegatedCalls
  <2>3. transport <= charged + n * share
    BY <1>6 DEF Accounts, InToolEffect, charged
  <2>4. share \in Nat
    BY <1>1, RemainingType
  <2>5. GracePoll = 0
    BY <1>6 DEF GracePoll
  <2> HIDE DEF n, m, share
  <2>6. (n + m) * share = n * share + m * share /\ n * share \in Nat /\ m * share \in Nat
    BY <2>1, <2>4
  <2>7. transport <= limit /\ transport + GracePoll + m * share <= limit
    BY <1>1, <1>2, <2>2, <2>3, <2>5, <2>6
  <2>8. QED
    BY <2>7 DEF limit, m, share
<1>7. CASE AtEnd
  BY <1>7 DEF Accounts, Closed, AtEnd
<1>8. QED
  BY <1>3, <1>4, <1>5, <1>6, <1>7 DEF TypeOK, Phases, AtEnd

\* A committed outcome charges every call of its effect and attributes it.
LEMMA CommitAccounts ==
    ASSUME TypeOK, Accounts, phase = "outcome"
    PROVE  /\ transport <= ChargedCalls(Committed)
           /\ Committed.usage.complete /\ ~misled => Committed.usage.calls = transport
<1> DEFINE s == RecordElapsed(state, clock.effect)
<1>1. state \in AgentRunState /\ clock.effect \in Nat /\ transport \in Nat /\ child \in RunUsage
  BY DEF TypeOK
<1>2. /\ s \in AgentRunState /\ s.usage = state.usage /\ s.pending_tools = state.pending_tools
      /\ ChargedCalls(s) = ChargedCalls(state) /\ DelegatedCalls(s) = DelegatedCalls(state)
      /\ PendingDelegations(s) = PendingDelegations(state)
  BY <1>1, ElapsedKeeps
<1>3. Expected(s, Effect) /\ (Effect.kind # "tool-batch" \/ Len(work) = Len(s.pending_tools))
  BY CommitReady
<1>4. /\ ChargedCalls(state) \in Nat /\ DelegatedCalls(state) \in Nat
      /\ state.usage \in RunUsage /\ state.usage.calls \in Nat
  BY <1>1, RemainingType DEF AgentRunState, RunUsage
<1> HIDE DEF s
<1>5. CASE IsProvider
  <2>0. Effect.kind = "provider" /\ ProviderOver
    BY <1>5 DEF IsProvider, Accounts
  <2>1. CASE outcome.kind \in {"response", "failed"}
    <3>1. /\ outcome.attempts \in Attempts /\ outcome.attempts.count > 0
          /\ transport <= ChargedCalls(state) + outcome.attempts.count
          /\ Attributed(outcome.attempts.count)
      BY <1>5, <2>0, <2>1 DEF ProviderOver, Admitted
    <3>2. CallCount(outcome.attempts) = outcome.attempts.count /\ outcome.attempts.count \in Nat
      BY <3>1 DEF Attempts, CallCount, MaxOf
    <3>3. \/ Committed = CommitProviderResponse(s, Effect, outcome.calls, outcome.calls = << >>,
                                                outcome.attempts)
          \/ Committed = CommitProviderFailure(s, Effect, outcome.attempts)
      BY <2>1 DEF Committed, s
    <3>4. /\ ChargedCalls(Committed) = ChargedCalls(s) + CallCount(outcome.attempts)
          /\ Committed.usage.calls = s.usage.calls + CallCount(outcome.attempts)
          /\ Committed.usage.complete => s.usage.complete
      BY <1>2, <1>3, <2>0, <3>1, <3>3, ProviderCharges
    <3>5. QED
      BY <1>2, <3>1, <3>2, <3>4 DEF Attributed
  <2>2. CASE outcome.kind = "exhausted"
    <3>1. Committed = [s EXCEPT !.status = "incomplete", !.usage.complete = FALSE]
      BY <1>3, <2>0, <2>2 DEF Committed, CommitBudgetExhausted, s
    <3>2. ChargedCalls(Committed) = ChargedCalls(s)
      BY <1>2, <3>1 DEF ChargedCalls, AgentRunState
    <3>3. Committed.usage.complete = FALSE
      BY <1>2, <3>1 DEF AgentRunState, RunUsage
    <3>4. transport <= ChargedCalls(state)
      BY <1>5, <2>0, <2>2 DEF ProviderOver
    <3>5. QED
      BY <1>2, <3>2, <3>3, <3>4
  <2>3. QED
    BY <1>5, <2>0, <2>1, <2>2 DEF ProviderOver
<1>6. CASE ~IsProvider
  <2>0. /\ outcome.kind = Effect.kind /\ Effect.kind \in {"tool", "tool-batch"}
        /\ transport <= ChargedCalls(state) + Cardinality(Ended) * DelegatedCalls(state)
        /\ child.complete => Attributed(child.calls)
    BY <1>6, EffectKinds DEF Accounts, InToolEffect, IsProvider
  <2>1. /\ Cardinality(Ended) \in Nat
        /\ Cardinality(Ended) <= Cardinality(PendingDelegations(state))
        /\ Effect.kind = "tool" =>
             Cardinality(Ended) <= IF state.pending_tools[1].tool \in Delegating THEN 1 ELSE 0
    BY <1>6, EndedArePending
  <2>2. ASSUME NEW n \in Nat, Cardinality(Ended) <= n,
               ChargedCalls(Committed) = ChargedCalls(s) + n * DelegatedCalls(s),
               Committed.usage = MergeChild(s.usage, child)
        PROVE  /\ transport <= ChargedCalls(Committed)
               /\ Committed.usage.complete /\ ~misled => Committed.usage.calls = transport
    <3>1. Cardinality(Ended) * DelegatedCalls(state) <= n * DelegatedCalls(state)
      BY <1>4, <2>1, <2>2, SharesGrow
    <3>2. /\ Cardinality(Ended) * DelegatedCalls(state) \in Nat
          /\ n * DelegatedCalls(state) \in Nat
      BY <1>4, <2>1, <2>2
    <3>3. transport <= ChargedCalls(Committed)
      BY <1>1, <1>2, <1>4, <2>0, <2>2, <3>1, <3>2
    <3>4. /\ Committed.usage.calls = state.usage.calls + child.calls
          /\ Committed.usage.complete => state.usage.complete /\ child.complete
      <4> DEFINE u == Committed.usage
      <4>1. u = [calls |-> state.usage.calls + child.calls,
                 complete |-> state.usage.complete /\ child.complete]
        BY <1>2, <2>2 DEF MergeChild
      <4> HIDE DEF u
      <4>2. u.calls = state.usage.calls + child.calls
        BY <4>1
      <4>3. u.complete = (state.usage.complete /\ child.complete)
        BY <4>1, Zenon
      <4>4. QED
        BY <4>2, <4>3 DEF u
    <3>5. QED
      BY <2>0, <3>3, <3>4 DEF Attributed
  <2>3. CASE Effect.kind = "tool"
    <3> DEFINE n == IF state.pending_tools[1].tool \in Delegating THEN 1 ELSE 0
    <3>1. Committed = CommitTool(s, Effect, child)
      BY <2>0, <2>3 DEF Committed, s
    <3>2. n \in Nat /\ Cardinality(Ended) <= n
      BY <2>1, <2>3
    <3>3. /\ ChargedCalls(Committed) = ChargedCalls(s) + n * DelegatedCalls(s)
          /\ Committed.usage = MergeChild(s.usage, child)
      BY <1>2, <1>3, <2>3, <3>1, ToolCharges
    <3> HIDE DEF n
    <3>4. QED
      BY <2>2, <3>2, <3>3
  <2>4. CASE Effect.kind = "tool-batch"
    <3> DEFINE n == Cardinality(PendingDelegations(state))
    <3>1. Committed = CommitBatch(s, Effect, Len(work), child)
      BY <2>0, <2>4 DEF Committed, s
    <3>2. n \in Nat /\ Cardinality(Ended) <= n
      BY <1>1, <2>1, SharesType
    <3>3. /\ ChargedCalls(Committed) = ChargedCalls(s) + n * DelegatedCalls(s)
          /\ Committed.usage = MergeChild(s.usage, child)
      BY <1>2, <1>3, <2>4, <3>1, BatchCharges
    <3> HIDE DEF n
    <3>4. QED
      BY <2>2, <3>2, <3>3
  <2>5. QED
    BY <2>0, <2>3, <2>4
<1>7. QED
  BY <1>5, <1>6

\* A run that leaves its loop has made no more calls than its limit, and one that
\* returns a result with a complete ledger has attributed them all.
LEMMA LeavesAccounts ==
    ASSUME Good(state'), AtEnd', transport' <= state'.plan.model_call_limit,
           result' = "ok" /\ state'.usage.complete /\ ~misled' => state'.usage.calls + 0 = transport'
    PROVE  Accounts'
BY DEF Accounts, Settled, EffectKnown, InProvider, ProviderOver, InToolEffect, Closed, Attributed,
       AtEnd

LEMMA RestsAccounts ==
    ASSUME Good(state'), phase' \in {"start", "top", "settle"},
           transport' <= ChargedCalls(state'),
           state'.usage.complete /\ ~misled' => state'.usage.calls + 0 = transport'
    PROVE  Accounts'
BY DEF Accounts, Settled, EffectKnown, InProvider, ProviderOver, InToolEffect, Closed, Attributed,
       AtEnd

\* What a terminal transition leaves of the ledger.
LEMMA QuietLedger ==
    ASSUME NEW s \in AgentRunState
    PROVE  /\ \A t \in {Cancel(s), Fail(s), FinishIfExhausted(s)} :
                t.plan = s.plan /\ t.usage.calls = s.usage.calls
           /\ Cancel(s).usage.complete => s.usage.complete /\ s.status \notin Live
           /\ FinishIfExhausted(s).usage.complete => s.usage.complete
<1>1. /\ {"plan", "status", "usage", "error"} \subseteq DOMAIN s
      /\ {"calls", "complete"} \subseteq DOMAIN s.usage
  BY DEF AgentRunState, RunUsage
<1>2. /\ Cancel(s).plan = s.plan /\ Cancel(s).usage.calls = s.usage.calls
      /\ Cancel(s).usage.complete => s.usage.complete /\ s.status \notin Live
  BY <1>1 DEF Cancel
<1>3. Fail(s).plan = s.plan /\ Fail(s).usage.calls = s.usage.calls
  BY <1>1 DEF Fail
<1>4. /\ FinishIfExhausted(s).plan = s.plan
      /\ FinishIfExhausted(s).usage.calls = s.usage.calls
      /\ FinishIfExhausted(s).usage.complete => s.usage.complete
  BY <1>1, <1>2 DEF FinishIfExhausted
<1>5. QED
  BY <1>2, <1>3, <1>4

LEMMA LeavingAccounts ==
    ASSUME TypeOK, Accounts, Next,
           \/ StopCancelled \/ StopExhausted \/ StopIdle \/ SettleLate \/ SettleCompleted
           \/ WorkCancelled \/ WorkTimesOut \/ ContextRejected \/ ProviderMisbehaves
    PROVE  Accounts'
<1>1. Good(state') /\ state \in AgentRunState /\ GracePoll \in Nat
  BY StepKeepsGood, GraceType DEF TypeOK
<1>2. /\ transport <= state.plan.model_call_limit
      /\ phase = "executing" =>
            transport + GracePoll + Cardinality(Abroad) * DelegatedCalls(state)
               <= state.plan.model_call_limit
  BY WithinLimit
<1>3. /\ \A t \in {Cancel(state), Fail(state), FinishIfExhausted(state)} :
           t.plan = state.plan /\ t.usage.calls = state.usage.calls
      /\ Cancel(state).usage.complete => state.usage.complete /\ state.status \notin Live
      /\ FinishIfExhausted(state).usage.complete => state.usage.complete
  BY <1>1, QuietLedger
<1>4. phase \in {"top", "settle"} /\ state.usage.complete /\ ~misled => state.usage.calls + 0 = transport
  BY DEF Accounts, Settled, Attributed
<1>5. phase = "executing" => state.status \in Live
  BY EffectKinds, ExpectedLive DEF Accounts
<1>6. CASE StopCancelled \/ SettleLate
  <2>1. /\ state' = Cancel(state) /\ UNCHANGED <<transport, misled>> /\ AtEnd'
        /\ phase \in {"top", "settle"}
    BY <1>6 DEF StopCancelled, SettleLate, FinishCancelled, Return, AtEnd
  <2>2. QED
    BY <1>1, <1>2, <1>3, <1>4, <2>1, LeavesAccounts
<1>7. CASE StopExhausted
  <2>1. /\ state' = FinishIfExhausted(state) /\ UNCHANGED <<transport, misled>> /\ AtEnd'
        /\ phase = "top"
    BY <1>7 DEF StopExhausted, Return, AtEnd
  <2>2. QED
    BY <1>1, <1>2, <1>3, <1>4, <2>1, LeavesAccounts
<1>8. CASE StopIdle \/ SettleCompleted
  <2>1. /\ UNCHANGED <<state, transport, misled>> /\ AtEnd' /\ phase \in {"top", "settle"}
    BY <1>8 DEF StopIdle, SettleCompleted, Return, AtEnd
  <2>2. QED
    BY <1>1, <1>2, <1>4, <2>1, LeavesAccounts
<1>9. CASE WorkCancelled \/ WorkTimesOut
  <2>1. /\ state' = Cancel(state) /\ AtEnd'
        /\ phase = "executing"
    BY <1>9 DEF WorkCancelled, WorkTimesOut, FinishCancelled, Return, AtEnd
  <2>2. PICK made \in CallsOfChildren : transport' = transport + GracePoll + made
    BY <1>9 DEF WorkCancelled, WorkTimesOut
  <2>3. transport' <= state.plan.model_call_limit
    <3> DEFINE k == Cardinality(Abroad) * DelegatedCalls(state)
    <3>1. k \in Nat /\ made \in 0..k
      BY <2>2, ChildrenCall DEF CallsOfChildren
    <3>2. state.plan.model_call_limit \in Nat /\ transport \in Nat
      BY <1>1 DEF AgentRunState, Plan, TypeOK
    <3> HIDE DEF k
    <3>3. transport + GracePoll + k <= state.plan.model_call_limit
      BY <1>2, <2>1 DEF k
    <3>4. QED
      BY <1>1, <2>2, <3>1, <3>2, <3>3
  <2>4. QED
    BY <1>1, <1>3, <1>5, <2>1, <2>3, LeavesAccounts
<1>10. CASE ContextRejected \/ ProviderMisbehaves
  <2>1. /\ state' = Fail(state) /\ UNCHANGED transport /\ AtEnd' /\ result' = "error"
    BY <1>10 DEF ContextRejected, ProviderMisbehaves, FinishFailed, Return, AtEnd
  <2>2. QED
    BY <1>1, <1>2, <1>3, <2>1, LeavesAccounts
<1>11. QED
  BY <1>6, <1>7, <1>8, <1>9, <1>10

LEMMA RestingAccounts ==
    ASSUME TypeOK, Accounts, Next, StartRun \/ CommitOutcome \/ SettleContinues \/ Publish
    PROVE  Accounts'
<1>1. Good(state') /\ state \in AgentRunState
  BY StepKeepsGood DEF TypeOK
<1>2. transport <= state.plan.model_call_limit
  BY WithinLimit
<1>3. CASE StartRun \/ SettleContinues
  <2>1. /\ UNCHANGED <<state, transport, misled>>
        /\ phase \in {"start", "settle"}
        /\ phase' = "top" \/ (AtEnd' /\ result' = "error")
    BY <1>3 DEF StartRun, SettleContinues, Return, AtEnd
  <2>2. /\ transport <= ChargedCalls(state)
        /\ state.usage.complete /\ ~misled => state.usage.calls + 0 = transport
    BY <2>1 DEF Accounts, Settled, Attributed
  <2>3. QED
    BY <1>1, <1>2, <2>1, <2>2, RestsAccounts, LeavesAccounts
<1>4. CASE CommitOutcome
  <2>1. /\ phase = "outcome" /\ state' = Committed /\ UNCHANGED <<transport, misled>>
        /\ phase' = "settle" \/ AtEnd'
    BY <1>4 DEF CommitOutcome, Return, AtEnd
  <2>2. /\ transport <= ChargedCalls(state')
        /\ state'.usage.complete /\ ~misled => state'.usage.calls = transport
    BY <2>1, CommitAccounts
  <2>3. /\ ChargedCalls(state') \in Nat /\ state'.usage.calls \in Nat
        /\ ChargedCalls(state') <= state'.plan.model_call_limit
        /\ state'.plan.model_call_limit \in Nat
    BY <1>1, RemainingType DEF Good, WithinCalls, AgentRunState, RunUsage, Plan
  <2>4. transport' <= state'.plan.model_call_limit /\ state'.usage.calls + 0 = state'.usage.calls
    BY <2>1, <2>2, <2>3 DEF TypeOK
  <2>5. QED
    BY <1>1, <2>1, <2>2, <2>4, RestsAccounts, LeavesAccounts
<1>5. CASE Publish
  <2>1. UNCHANGED <<state, result, transport, misled>> /\ AtEnd /\ AtEnd'
    BY <1>5 DEF Publish, AtEnd
  <2>2. result = "ok" /\ state.usage.complete /\ ~misled => state.usage.calls + 0 = transport
    BY <2>1 DEF Accounts, Closed, Attributed
  <2>3. QED
    BY <1>1, <1>2, <2>1, <2>2, LeavesAccounts
<1>6. QED
  BY <1>3, <1>4, <1>5

\* Time, the caller, and steps that change no worker's stage leave the accounts alone.
LEMMA SameAccounts ==
    ASSUME TypeOK, Accounts,
           UNCHANGED <<state, phase, reserved, outcome, child, result, transport, misled>>,
           DOMAIN work' = DOMAIN work,
           \A i \in DOMAIN work : work'[i].stage = work[i].stage /\ work'[i].attempt = work[i].attempt
    PROVE  Accounts'
<1>1. Good(state')
  BY DEF Accounts
<1>2. /\ (Effect' = Effect) /\ (IsProvider' <=> IsProvider) /\ (Members' = Members)
      /\ \A n : Attributed(n)' <=> Attributed(n)
  BY DEF Effect, IsProvider, Members, Attributed
<1>3. \A i : IsChild(i)' <=> IsChild(i)
  BY <1>2 DEF IsChild, ToolOf
<1>4. Ended' = Ended
  BY <1>3 DEF Ended
<1>5. Settled' /\ EffectKnown' /\ ProviderOver' /\ Closed'
  BY <1>2 DEF Accounts, Settled, EffectKnown, ProviderOver, Closed, AtEnd
<1>6. InToolEffect'
  BY <1>2, <1>4 DEF Accounts, InToolEffect
<1>7. InProvider'
  <2> SUFFICES ASSUME phase = "executing", IsProvider
               PROVE  /\ ProviderWorker(work[1])'
                      /\ transport' <= ChargedCalls(state') + MadeBy(work'[1])
                      /\ Attributed(MadeBy(work[1]))'
    BY <1>2 DEF InProvider
  <2>1. 1 \in DOMAIN work
    BY EffectKinds DEF Accounts
  <2>2. work'[1].stage = work[1].stage /\ work'[1].attempt = work[1].attempt
    BY <2>1
  <2>3. MadeBy(work'[1]) = MadeBy(work[1]) /\ NextAttempt(work'[1]) = NextAttempt(work[1])
    BY <2>2 DEF MadeBy, NextAttempt
  <2>4. InProvider
    BY DEF Accounts
  <2>5. QED
    BY <2>2, <2>3, <2>4 DEF InProvider, ProviderWorker, Attributed
<1>8. QED
  BY <1>1, <1>5, <1>6, <1>7 DEF Accounts

\* A step of the executing provider effect, and the end of one.
LEMMA InProviderAccounts ==
    ASSUME TypeOK, Accounts, IsProvider, phase = "executing",
           phase' = "executing", UNCHANGED <<state, misled>>,
           NEW v, work' = [work EXCEPT ![1] = v],
           /\ v.stage \in {"armed", "called", "backoff"} /\ v.attempt > 0
           /\ \E bound \in TokenBounds :
                 reserved' = Reservation(state, bound) /\ MayAttempt(state, reserved', NextAttempt(v)),
           transport' - transport = MadeBy(v) - MadeBy(work[1]),
           transport' \in Nat, MadeBy(v) \in Nat, MadeBy(work[1]) \in Nat
    PROVE  Accounts'
<1>1. /\ Good(state') /\ Effect' = Effect /\ IsProvider' /\ Members' = Members
  BY DEF Accounts, Effect, IsProvider, Members
<1>2. work'[1] = v /\ DOMAIN work' = DOMAIN work
  BY EffectKinds DEF Accounts
<1>3. /\ transport \in Nat /\ ChargedCalls(state) \in Nat /\ state.usage.calls \in Nat
      /\ transport <= ChargedCalls(state) + MadeBy(work[1])
      /\ Attributed(MadeBy(work[1]))
  BY RemainingType DEF TypeOK, AgentRunState, RunUsage, Accounts, InProvider
<1>4. Settled' /\ ProviderOver' /\ InToolEffect' /\ Closed'
  BY <1>1 DEF Settled, ProviderOver, InToolEffect, Closed, AtEnd
<1>5. EffectKnown'
  BY <1>1, <1>2 DEF Accounts, EffectKnown
<1>6. ProviderWorker(work[1])'
  BY <1>2 DEF ProviderWorker
<1>7. transport' <= ChargedCalls(state') + MadeBy(work'[1])
  BY <1>2, <1>3
<1>8. Attributed(MadeBy(work[1]))'
  BY <1>2, <1>3 DEF Attributed
<1>9. QED
  BY <1>1, <1>4, <1>5, <1>6, <1>7, <1>8 DEF Accounts, InProvider

LEMMA ProviderOverAccounts ==
    ASSUME TypeOK, Accounts, IsProvider, phase = "executing",
           phase' = "outcome", UNCHANGED <<state, misled, work, transport>>,
           \/ outcome'.kind = "exhausted" /\ work[1].stage = "queued"
           \/ /\ work[1].stage = "called"
              /\ outcome'.kind \in {"response", "failed"}
              /\ outcome'.kind = "response" => DistinctIds(outcome'.calls)
              /\ \E measured \in BOOLEAN : outcome'.attempts = Spent(measured)
    PROVE  Accounts'
<1>1. /\ Good(state') /\ Good(state) /\ Effect' = Effect /\ IsProvider' /\ Members' = Members
  BY DEF Accounts, Effect, IsProvider, Members
<1>2. Settled' /\ EffectKnown' /\ InProvider' /\ InToolEffect' /\ Closed'
  BY <1>1 DEF Accounts, Settled, EffectKnown, InProvider, InToolEffect, Closed, AtEnd
<1>3. /\ ProviderWorker(work[1])
      /\ transport <= ChargedCalls(state) + MadeBy(work[1])
      /\ Attributed(MadeBy(work[1]))
  BY DEF Accounts, InProvider
<1>4. ChargedCalls(state) \in Nat /\ transport \in Nat /\ reserved \in Nat /\ work[1].attempt \in Nat
  <2>1. work[1] \in Worker
    BY EffectKinds DEF TypeOK, Accounts
  <2>2. QED
    BY <2>1, RemainingType DEF TypeOK, Worker
<1>5. CASE outcome'.kind = "exhausted" /\ work[1].stage = "queued"
  <2>1. transport <= ChargedCalls(state)
    BY <1>3, <1>4, <1>5 DEF ProviderWorker, MadeBy
  <2>2. ProviderOver'
    BY <1>5, <2>1 DEF ProviderOver
  <2>3. QED
    BY <1>1, <1>2, <2>2 DEF Accounts
<1>6. CASE /\ work[1].stage = "called"
           /\ outcome'.kind \in {"response", "failed"}
           /\ outcome'.kind = "response" => DistinctIds(outcome'.calls)
           /\ \E measured \in BOOLEAN : outcome'.attempts = Spent(measured)
  <2> DEFINE a == outcome'.attempts
  <2>1. PICK measured \in BOOLEAN :
          a = [count |-> work[1].attempt, reserved |-> reserved, measured |-> measured]
    BY <1>6 DEF Spent
  <2>2. a \in Attempts /\ a.count = work[1].attempt /\ a.reserved = reserved
    BY <1>4, <2>1 DEF Attempts
  <2>3. PICK bound \in TokenBounds :
          reserved = Reservation(state, bound) /\ MayAttempt(state, reserved, NextAttempt(work[1]))
    BY <1>3, <1>6 DEF ProviderWorker
  <2>4. NextAttempt(work[1]) = work[1].attempt /\ MadeBy(work[1]) = work[1].attempt
    BY <1>6 DEF NextAttempt, MadeBy
  <2>5. bound \in Nat \ {0} /\ a.count > 0
    BY <1>3, <2>2, LocalAssumption DEF ProviderWorker
  <2> HIDE DEF a
  <2>6. Admitted(state, a)
    BY <1>1, <2>2, <2>3, <2>4, <2>5, MayAttemptAdmitted
  <2>7. transport <= ChargedCalls(state) + a.count /\ Attributed(a.count)
    BY <1>3, <2>2, <2>4
  <2>8. ProviderOver'
    BY <1>6, <2>5, <2>6, <2>7 DEF ProviderOver, Attributed, a
  <2>9. QED
    BY <1>1, <1>2, <2>8 DEF Accounts
<1>7. QED
  BY <1>5, <1>6

LEMMA ProviderAccounts ==
    ASSUME TypeOK, Accounts, IsProvider,
           \/ AdmitProvider \/ CallProvider \/ ProviderRetries \/ BackoffEnds
           \/ ProviderAnswers \/ ProviderFails
    PROVE  Accounts'
<1> DEFINE w == work[1]
<1>1. phase = "executing" /\ UNCHANGED <<state, misled>>
  BY DEF AdmitProvider, CallProvider, ProviderRetries, BackoffEnds, ProviderAnswers, ProviderFails,
         Polled, InEffect
<1>2. /\ DOMAIN work = {1} /\ w \in Worker /\ state.pending_tools = << >>
      /\ Expected(state, Effect) /\ Effect.kind = "provider"
  <2>1. DOMAIN work = {1} /\ state.pending_tools = << >> /\ Expected(state, Effect)
    BY <1>1, EffectKinds DEF Accounts
  <2>2. w \in Worker
    <3>1. work \in Seq(Worker) /\ 1 \in DOMAIN work
      BY <2>1 DEF TypeOK
    <3>2. QED
      BY <3>1
  <2>3. QED
    BY <2>1, <2>2 DEF IsProvider
<1>3. ProviderWorker(w) /\ w.attempt \in Nat /\ w.attempt > 0 /\ transport \in Nat
  BY <1>1, <1>2 DEF Accounts, InProvider, ProviderWorker, Worker, TypeOK
<1>4. state \in AgentRunState /\ Good(state)
  BY DEF TypeOK, Accounts
<1> HIDE DEF w
<1>5. CASE AdmitProvider
  <2>1. w.stage = "queued" /\ UNCHANGED transport /\ w.attempt = 1
    BY <1>3, <1>5 DEF AdmitProvider, ProviderWorker, w
  <2>2. PICK bound \in TokenBounds :
          \/ outcome' = [kind |-> "exhausted"] /\ phase' = "outcome" /\ UNCHANGED <<work, reserved>>
          \/ /\ ~OverTokenBudget(state, Reservation(state, bound))
             /\ reserved' = Reservation(state, bound)
             /\ work' = [work EXCEPT ![1].stage = "armed", ![1].left = LeftFor(work[1])]
             /\ UNCHANGED <<outcome, phase>>
    BY <1>5 DEF AdmitProvider
  <2>3. CASE outcome' = [kind |-> "exhausted"] /\ phase' = "outcome" /\ UNCHANGED <<work, reserved>>
    <3>1. outcome'.kind = "exhausted" /\ work[1].stage = "queued"
      BY <2>1, <2>3 DEF w
    <3>2. QED
      BY <1>1, <2>1, <2>3, <3>1, ProviderOverAccounts
  <2>4. CASE /\ ~OverTokenBudget(state, Reservation(state, bound))
             /\ reserved' = Reservation(state, bound)
             /\ work' = [work EXCEPT ![1].stage = "armed", ![1].left = LeftFor(work[1])]
             /\ UNCHANGED <<outcome, phase>>
    <3> DEFINE v == [w EXCEPT !.stage = "armed", !.left = LeftFor(w)]
    <3>1. work' = [work EXCEPT ![1] = v]
      BY <1>2, <2>4 DEF w
    <3>2. v.stage = "armed" /\ v.attempt = 1
      BY <1>2, <2>1 DEF Worker
    <3> HIDE DEF v
    <3>3. MadeBy(v) = 0 /\ MadeBy(w) = 0 /\ NextAttempt(v) = 1
      BY <2>1, <3>2 DEF MadeBy, NextAttempt
    <3>4. MayAttempt(state, reserved', 1)
      <4>1. bound \in Nat \ {0} /\ state.plan.provider_max_attempts \in Nat \ {0}
        BY <1>4, LocalAssumption DEF AgentRunState, Plan
      <4>2. 1 <= RemainingCalls(state)
        <5>1. ChargedCalls(state) < state.plan.model_call_limit
          BY <1>2, <1>4, ProviderNeedsBudget
        <5>2. ChargedCalls(state) \in Nat /\ state.plan.model_call_limit \in Nat
          BY <1>4, RemainingType DEF AgentRunState, Plan
        <5>3. QED
          BY <5>1, <5>2 DEF RemainingCalls, Minus
      <4>3. CASE state.plan.token_limit # Unset
        <5>1. reserved' = bound /\ bound <= RemainingTokens(state) /\ RemainingTokens(state) \in Nat
          BY <1>4, <2>4, <4>1, <4>3, RemainingType DEF Reservation, OverTokenBudget
        <5>2. 1 <= RemainingTokens(state) \div MaxOf(reserved', 1)
          <6>1. MaxOf(bound, 1) = bound
            BY <4>1 DEF MaxOf
          <6>2. 1 <= RemainingTokens(state) \div bound
            BY <4>1, <5>1
          <6>3. QED
            BY <5>1, <6>1, <6>2
        <5>3. QED
          BY <4>1, <4>2, <5>2 DEF MayAttempt
      <4>4. QED
        BY <4>1, <4>2, <4>3 DEF MayAttempt
    <3>5. /\ transport' - transport = MadeBy(v) - MadeBy(w) /\ transport' \in Nat
          /\ MadeBy(v) \in Nat /\ MadeBy(w) \in Nat
      BY <1>3, <2>1, <3>3
    <3>6. phase' = "executing"
      BY <1>1, <2>4
    <3>7. \E b \in TokenBounds :
            reserved' = Reservation(state, b) /\ MayAttempt(state, reserved', NextAttempt(v))
      BY <2>4, <3>3, <3>4
    <3>8. v.stage \in {"armed", "called", "backoff"} /\ v.attempt > 0
      BY <3>2
    <3>9. QED
      BY <1>1, <3>1, <3>5, <3>6, <3>7, <3>8, InProviderAccounts DEF w
  <2>5. QED
    BY <2>2, <2>3, <2>4
<1>6. CASE CallProvider
  <2> DEFINE v == [w EXCEPT !.stage = "called"]
  <2>1. /\ w.stage = "armed" /\ work' = [work EXCEPT ![1] = v] /\ transport' = transport + 1
        /\ UNCHANGED <<phase, reserved>>
    BY <1>6 DEF CallProvider, w
  <2>2. v.stage = "called" /\ v.attempt = w.attempt
    BY <1>2 DEF Worker
  <2> HIDE DEF v
  <2>3. MadeBy(v) = w.attempt /\ MadeBy(w) = w.attempt - 1 /\ NextAttempt(v) = NextAttempt(w)
    BY <2>1, <2>2 DEF MadeBy, NextAttempt
  <2>4. \E bound \in TokenBounds :
          reserved' = Reservation(state, bound) /\ MayAttempt(state, reserved', NextAttempt(v))
    BY <1>3, <2>1, <2>3 DEF ProviderWorker
  <2>5. transport' - transport = MadeBy(v) - MadeBy(w) /\ transport' \in Nat
        /\ MadeBy(v) \in Nat /\ MadeBy(w) \in Nat
    BY <1>3, <2>1, <2>3
  <2>6. QED
    BY <1>1, <1>3, <2>1, <2>2, <2>4, <2>5, InProviderAccounts DEF w
<1>7. CASE ProviderRetries
  <2> DEFINE v == [w EXCEPT !.stage = "backoff", !.wait = 0]
  <2>1. /\ w.stage = "called" /\ work' = [work EXCEPT ![1] = v]
        /\ MayAttempt(state, reserved, w.attempt + 1)
        /\ UNCHANGED <<phase, reserved, transport>>
    BY <1>2, <1>7 DEF ProviderRetries, Polled, w
  <2>2. v.stage = "backoff" /\ v.attempt = w.attempt
    BY <1>2 DEF Worker
  <2> HIDE DEF v
  <2>3. MadeBy(v) = w.attempt /\ MadeBy(w) = w.attempt /\ NextAttempt(v) = w.attempt + 1
    BY <2>1, <2>2 DEF MadeBy, NextAttempt
  <2>4. \E bound \in TokenBounds :
          reserved' = Reservation(state, bound) /\ MayAttempt(state, reserved', NextAttempt(v))
    BY <1>3, <2>1, <2>3 DEF ProviderWorker
  <2>5. /\ transport' - transport = MadeBy(v) - MadeBy(w) /\ transport' \in Nat
        /\ MadeBy(v) \in Nat /\ MadeBy(w) \in Nat
    BY <1>3, <2>1, <2>3
  <2>6. v.attempt > 0
    BY <1>3, <2>2
  <2>7. QED
    BY <1>1, <2>1, <2>2, <2>4, <2>5, <2>6, InProviderAccounts DEF w
<1>8. CASE BackoffEnds
  <2>1. PICK i \in DOMAIN work :
          /\ work[i].stage = "backoff"
          /\ work' = [work EXCEPT ![i] =
                         [work[i] EXCEPT !.stage = IF IsProvider THEN "armed" ELSE "called",
                                         !.attempt = @ + 1, !.left = LeftFor(work[i]), !.wait = 0]]
    BY <1>8 DEF BackoffEnds
  <2> DEFINE v == [w EXCEPT !.stage = "armed", !.attempt = w.attempt + 1,
                            !.left = LeftFor(w), !.wait = 0]
  <2>2. /\ w.stage = "backoff" /\ work' = [work EXCEPT ![1] = v]
        /\ UNCHANGED <<phase, reserved, transport>>
    BY <1>2, <1>8, <2>1 DEF BackoffEnds, w
  <2>3. v.stage = "armed" /\ v.attempt = w.attempt + 1
    BY <1>2 DEF Worker
  <2> HIDE DEF v
  <2>4. MadeBy(v) = w.attempt /\ MadeBy(w) = w.attempt /\ NextAttempt(v) = NextAttempt(w)
    BY <1>3, <2>2, <2>3 DEF MadeBy, NextAttempt
  <2>5. \E bound \in TokenBounds :
          reserved' = Reservation(state, bound) /\ MayAttempt(state, reserved', NextAttempt(v))
    BY <1>3, <2>2, <2>4 DEF ProviderWorker
  <2>6. v.attempt > 0
    BY <1>3, <2>3
  <2>7. /\ transport' - transport = MadeBy(v) - MadeBy(w) /\ transport' \in Nat
        /\ MadeBy(v) \in Nat /\ MadeBy(w) \in Nat
    BY <1>3, <2>2, <2>4
  <2>8. QED
    BY <1>1, <2>2, <2>3, <2>5, <2>6, <2>7, InProviderAccounts DEF w
<1>9. CASE ProviderAnswers
  <2>1. /\ work[1].stage = "called" /\ phase' = "outcome" /\ UNCHANGED <<work, transport>>
        /\ outcome'.kind = "response" /\ DistinctIds(outcome'.calls)
        /\ \E measured \in BOOLEAN : outcome'.attempts = Spent(measured)
    BY <1>9 DEF ProviderAnswers, Polled, ValidateModelResponse
  <2>2. QED
    BY <1>1, <2>1, ProviderOverAccounts
<1>10. CASE ProviderFails
  <2>1. /\ work[1].stage = "called" /\ phase' = "outcome" /\ UNCHANGED <<work, transport>>
        /\ outcome'.kind = "failed"
        /\ \E measured \in BOOLEAN : outcome'.attempts = Spent(measured)
    BY <1>10 DEF ProviderFails, Polled
  <2>2. QED
    BY <1>1, <2>1, ProviderOverAccounts
<1>11. QED
  BY <1>5, <1>6, <1>7, <1>8, <1>9, <1>10

\* A member of an executing tool effect takes a step, or its child ends.
LEMMA InToolAccounts ==
    ASSUME TypeOK, Accounts, phase = "executing", ~IsProvider,
           phase' = "executing", UNCHANGED state, DOMAIN work' = DOMAIN work,
           transport' <= ChargedCalls(state) + Cardinality(Ended') * DelegatedCalls(state),
           child'.complete => Attributed(child.calls)'
    PROVE  Accounts'
<1>1. /\ Good(state') /\ Effect' = Effect /\ ~IsProvider' /\ Members' = Members
  BY DEF Accounts, Effect, IsProvider, Members
<1>2. EffectKnown'
  BY <1>1 DEF Accounts, EffectKnown
<1>3. Settled' /\ InProvider' /\ ProviderOver' /\ Closed'
  BY <1>1 DEF Settled, InProvider, ProviderOver, Closed, AtEnd
<1>4. InToolEffect'
  BY <1>1 DEF InToolEffect
<1>5. QED
  BY <1>1, <1>2, <1>3, <1>4 DEF Accounts

\* A delegation that has ended stays ended.
LEMMA EndedGrows ==
    ASSUME TypeOK, UNCHANGED state,
           NEW i \in DOMAIN work, work[i].stage # "done", NEW v, work' = [work EXCEPT ![i] = v]
    PROVE  /\ DOMAIN work' = DOMAIN work
           /\ Cardinality(Ended) \in Nat /\ Cardinality(Ended') \in Nat
           /\ Cardinality(Ended) <= Cardinality(Ended')
           /\ IsChild(i) /\ v.stage = "done" => Cardinality(Ended') = Cardinality(Ended) + 1
<1>1. \A j : IsChild(j)' <=> IsChild(j)
  BY DEF IsChild, IsProvider, ToolOf, Effect
<1>2. DOMAIN work' = DOMAIN work /\ work'[i] = v /\ \A j \in DOMAIN work \ {i} : work'[j] = work[j]
  OBVIOUS
<1>3. Ended \subseteq Ended' /\ Ended' \in SUBSET DOMAIN work /\ Ended \in SUBSET DOMAIN work
  BY <1>1, <1>2 DEF Ended
<1>4. /\ IsFiniteSet(Ended) /\ IsFiniteSet(Ended')
      /\ Cardinality(Ended) \in Nat /\ Cardinality(Ended') \in Nat
  BY <1>3, WorkersFinite
<1>5. Cardinality(Ended) <= Cardinality(Ended')
  BY <1>3, <1>4, FS_Subset
<1>6. ASSUME IsChild(i), v.stage = "done"
      PROVE  Cardinality(Ended') = Cardinality(Ended) + 1
  <2>1. i \notin Ended /\ Ended' = Ended \cup {i}
    BY <1>1, <1>2, <1>6 DEF Ended
  <2>2. QED
    BY <1>4, <2>1, FS_AddElement
<1>7. QED
  BY <1>2, <1>4, <1>5, <1>6

LEMMA ToolAccounts ==
    ASSUME TypeOK, Accounts, ~IsProvider,
           \/ ToolUnavailable \/ ToolRefused \/ ToolStarts \/ ToolEnds \/ ToolRetries
           \/ ChildStarts \/ BackoffEnds
    PROVE  Accounts'
<1>1. phase = "executing" /\ UNCHANGED <<state, phase, transport, child, misled>>
  BY DEF ToolUnavailable, ToolRefused, EndsUnstarted, ToolStarts, ToolEnds, ToolRetries,
         ChildStarts, BackoffEnds, Polled, InTools, InEffect
<1>2. PICK i \in DOMAIN work, v \in Worker :
        work[i].stage # "done" /\ work' = [work EXCEPT ![i] = v]
  BY WorkMoves DEF Moves, Accounts
<1>3. /\ DOMAIN work' = DOMAIN work /\ Cardinality(Ended) \in Nat /\ Cardinality(Ended') \in Nat
      /\ Cardinality(Ended) <= Cardinality(Ended')
  BY <1>1, <1>2, EndedGrows
<1>4. /\ ChargedCalls(state) \in Nat /\ DelegatedCalls(state) \in Nat /\ transport \in Nat
      /\ transport <= ChargedCalls(state) + Cardinality(Ended) * DelegatedCalls(state)
      /\ child.complete => Attributed(child.calls)
  BY <1>1, RemainingType DEF TypeOK, Accounts, InToolEffect
<1>5. transport' <= ChargedCalls(state) + Cardinality(Ended') * DelegatedCalls(state)
  <2> DEFINE before == Cardinality(Ended) * DelegatedCalls(state)
             after == Cardinality(Ended') * DelegatedCalls(state)
  <2>1. before \in Nat /\ after \in Nat /\ before <= after
    BY <1>3, <1>4, SharesGrow
  <2> HIDE DEF before, after
  <2>2. transport' <= ChargedCalls(state) + after
    BY <1>1, <1>4, <2>1 DEF before
  <2>3. QED
    BY <2>2 DEF after
<1>6. child'.complete => Attributed(child.calls)'
  BY <1>1, <1>4 DEF Attributed
<1>7. QED
  BY <1>1, <1>3, <1>5, <1>6, InToolAccounts

\* A child stays within its share, and its ledger tells its calls or says it does
\* not, unless an error misled its parent.
LEMMA ChildAccounts ==
    ASSUME TypeOK, Accounts, NEW i \in DOMAIN work, ChildReports(i)
    PROVE  Accounts'
<1> DEFINE share == DelegatedCalls(state)
           v == [work[i] EXCEPT !.stage = "done"]
<1>1. /\ phase = "executing" /\ ~IsProvider /\ IsChild(i) /\ work[i].stage = "called"
      /\ UNCHANGED <<state, phase>> /\ work' = [work EXCEPT ![i] = v]
  BY DEF ChildReports, Running, IsChild
<1>2. PICK made \in 0..share, complete \in BOOLEAN, reported \in Nat :
        /\ reported <= made
        /\ transport' = transport + made
        /\ child' = MergeChild(child, [calls |-> reported, complete |-> complete])
        /\ misled' = (misled \/ (complete /\ reported < made))
  BY DEF ChildReports
<1>3. v.stage = "done"
  <2>1. work[i] \in Worker
    BY DEF TypeOK
  <2>2. QED
    BY <2>1 DEF Worker
<1> HIDE DEF v
<1>4. /\ DOMAIN work' = DOMAIN work /\ Cardinality(Ended) \in Nat
      /\ Cardinality(Ended') = Cardinality(Ended) + 1
  BY <1>1, <1>3, EndedGrows
<1>5. /\ ChargedCalls(state) \in Nat /\ share \in Nat /\ transport \in Nat
      /\ transport <= ChargedCalls(state) + Cardinality(Ended) * share
      /\ child.complete => Attributed(child.calls)
      /\ child.calls \in Nat /\ child.complete \in BOOLEAN /\ misled \in BOOLEAN
      /\ state.usage.calls \in Nat
  BY <1>1, RemainingType DEF TypeOK, Accounts, InToolEffect, RunUsage, AgentRunState
<1>6. transport' <= ChargedCalls(state) + Cardinality(Ended') * share
  <2> DEFINE n == Cardinality(Ended)
  <2>1. n * share \in Nat /\ (n + 1) * share = n * share + share
    <3> HIDE DEF n, share
    <3>1. n \in Nat /\ share \in Nat
      BY <1>4, <1>5 DEF n
    <3>2. QED
      BY <3>1, SMT
  <2>2. made <= share /\ made \in Nat
    BY <1>2, <1>5
  <2>3. transport' <= ChargedCalls(state) + (n * share + share)
    <3> DEFINE part == n * share
    <3>1. part \in Nat /\ transport <= ChargedCalls(state) + part
      BY <1>5, <2>1
    <3> HIDE DEF part
    <3>2. transport' <= ChargedCalls(state) + (part + share)
      BY <1>2, <1>5, <2>2, <3>1
    <3>3. QED
      BY <3>2 DEF part
  <2>4. QED
    BY <1>4, <2>1, <2>3
<1>7. child'.complete => Attributed(child.calls)'
  <2>1. /\ child'.calls = child.calls + reported
        /\ child'.complete = (child.complete /\ complete)
    <3>1. child' = [calls |-> child.calls + reported, complete |-> child.complete /\ complete]
      BY <1>2 DEF MergeChild
    <3>2. child'.calls = child.calls + reported
      BY <3>1
    <3>3. child'.complete = (child.complete /\ complete)
      BY <3>1, Zenon
    <3>4. QED
      BY <3>2, <3>3
  <2>2. SUFFICES ASSUME child.complete, complete, state.usage.complete, ~misled, ~(reported < made)
                 PROVE  state.usage.calls + child'.calls = transport'
    BY <1>1, <1>2, <2>1 DEF Attributed
  <2>3. reported = made /\ made \in Nat
    BY <1>2, <1>5, <2>2
  <2>4. state.usage.calls + child.calls = transport
    BY <1>5, <2>2 DEF Attributed
  <2>5. QED
    BY <1>2, <1>5, <2>1, <2>3, <2>4
<1>8. QED
  BY <1>1, <1>4, <1>6, <1>7, InToolAccounts

LEMMA ToolsDoneAccounts ==
    ASSUME TypeOK, Accounts, ToolsDone
    PROVE  Accounts'
<1>1. /\ phase = "executing" /\ phase' = "outcome" /\ ~IsProvider
      /\ outcome'.kind = Effect.kind
      /\ UNCHANGED <<state, work, child, transport, misled>>
  BY DEF ToolsDone, InEffect
<1>2. /\ Good(state') /\ Effect' = Effect /\ ~IsProvider' /\ Members' = Members
      /\ \A j : IsChild(j)' <=> IsChild(j)
  BY <1>1 DEF Accounts, Effect, IsProvider, Members, IsChild, ToolOf
<1>3. Ended' = Ended
  BY <1>1, <1>2 DEF Ended
<1>4. EffectKnown'
  BY <1>1, <1>2 DEF Accounts, EffectKnown
<1>5. Settled' /\ InProvider' /\ ProviderOver' /\ Closed'
  BY <1>1, <1>2 DEF Settled, InProvider, ProviderOver, Closed, AtEnd
<1>6. InToolEffect'
  BY <1>1, <1>2, <1>3 DEF Accounts, InToolEffect, Attributed
<1>7. QED
  BY <1>2, <1>4, <1>5, <1>6 DEF Accounts

\* An effect starts with no call made, no child ended and no usage reported.
LEMMA StartAccounts ==
    ASSUME TypeOK, Accounts, StartEffect
    PROVE  Accounts'
<1>1. /\ phase = "top" /\ phase' = "executing" /\ Effect # NoEffect
      /\ work' = [i \in 1..Members |-> Queued] /\ child' = EmptyUsage
      /\ UNCHANGED <<state, transport, misled>>
  BY DEF StartEffect, Members
<1>2. /\ Good(state') /\ Effect' = Effect /\ (IsProvider' <=> IsProvider) /\ Members' = Members
  BY <1>1 DEF Accounts, Effect, IsProvider, Members
<1>3. EffectKnown' /\ DOMAIN work' = 1..Members
  BY <1>1, <1>2 DEF EffectKnown
<1>4. /\ transport \in Nat /\ ChargedCalls(state) \in Nat /\ state.usage.calls \in Nat
      /\ transport <= ChargedCalls(state) /\ Attributed(0) /\ DelegatedCalls(state) \in Nat
  BY <1>1, RemainingType DEF TypeOK, Accounts, Settled, AgentRunState, RunUsage
<1>5. Settled' /\ ProviderOver' /\ Closed'
  BY <1>1 DEF Settled, ProviderOver, Closed, AtEnd
<1>6. InProvider'
  <2> SUFFICES ASSUME IsProvider
               PROVE  /\ ProviderWorker(work[1])'
                      /\ transport' <= ChargedCalls(state') + MadeBy(work'[1])
                      /\ Attributed(MadeBy(work[1]))'
    BY <1>2 DEF InProvider
  <2>1. work'[1] = Queued
    BY <1>1 DEF Members, IsProvider
  <2>2. work'[1].stage = "queued" /\ work'[1].attempt = 1
    BY <2>1 DEF Queued
  <2>3. ProviderWorker(work[1])' /\ MadeBy(work'[1]) = 0
    BY <2>2 DEF ProviderWorker, MadeBy
  <2>4. QED
    BY <1>1, <1>4, <2>3 DEF Attributed
<1>7. InToolEffect'
  <2>1. Ended' = {}
    BY <1>1 DEF Ended, Queued
  <2>2. Cardinality(Ended') = 0
    BY <2>1, FS_EmptySet
  <2>3. transport' <= ChargedCalls(state') + Cardinality(Ended') * DelegatedCalls(state')
    BY <1>1, <1>4, <2>2
  <2>4. child'.complete => Attributed(child.calls)'
    BY <1>1, <1>4 DEF EmptyUsage, Attributed
  <2>5. QED
    BY <1>1, <2>3, <2>4 DEF InToolEffect
<1>8. QED
  BY <1>2, <1>3, <1>5, <1>6, <1>7 DEF Accounts

\* The caller and the clock, and a run that is over.
LEMMA OtherAccounts ==
    ASSUME TypeOK, Accounts, UserCancels \/ Tick \/ Over \/ UNCHANGED vars
    PROVE  Accounts'
<1>1. CASE UserCancels \/ Over \/ UNCHANGED vars
  BY <1>1, SameAccounts DEF UserCancels, Over, vars
<1>2. CASE Tick
  <2> DEFINE cap == state.plan.deadline_ms
             older(w) == [w EXCEPT !.wait = Advance(w.wait, cap), !.since = Advance(w.since, cap)]
  <2>1. /\ UNCHANGED <<state, phase, reserved, outcome, child, result, transport, misled>>
        /\ work' = [i \in DOMAIN work |->
                      IF work[i].stage \in {"queued", "done"} THEN work[i] ELSE older(work[i])]
    BY <1>2 DEF Tick
  <2>2. ASSUME NEW i \in DOMAIN work
        PROVE  work'[i].stage = work[i].stage /\ work'[i].attempt = work[i].attempt
    <3>1. work[i] \in Worker
      BY DEF TypeOK
    <3>2. older(work[i]).stage = work[i].stage /\ older(work[i]).attempt = work[i].attempt
      BY <3>1 DEF Worker
    <3> HIDE DEF older
    <3>3. QED
      BY <2>1, <3>2
  <2>3. DOMAIN work' = DOMAIN work
    BY <2>1
  <2>4. QED
    BY <2>1, <2>2, <2>3, SameAccounts
<1>3. QED
  BY <1>1, <1>2

\* Every step of a run keeps the calls made within the calls charged.
LEMMA StepKeepsAccounts ==
    ASSUME TypeOK, Accounts, [Next]_vars
    PROVE  Accounts'
<1>1. CASE \/ StopCancelled \/ StopExhausted \/ StopIdle \/ SettleLate \/ SettleCompleted
           \/ WorkCancelled \/ WorkTimesOut \/ ContextRejected \/ ProviderMisbehaves
  BY <1>1, LeavingAccounts DEF Next, TaskStep, Answer
<1>2. CASE StartRun \/ CommitOutcome \/ SettleContinues \/ Publish
  BY <1>2, RestingAccounts DEF Next, TaskStep
<1>3. CASE StartEffect \/ ToolsDone
  BY <1>3, StartAccounts, ToolsDoneAccounts
<1>4. CASE AdmitProvider \/ CallProvider \/ ProviderRetries \/ ProviderAnswers \/ ProviderFails
  <2>1. IsProvider
    BY <1>4 DEF AdmitProvider, CallProvider, ProviderRetries, ProviderAnswers, ProviderFails
  <2>2. QED
    BY <1>4, <2>1, ProviderAccounts
<1>5. CASE BackoffEnds
  BY <1>5, ProviderAccounts, ToolAccounts
<1>6. CASE ToolUnavailable \/ ToolRefused \/ ToolStarts \/ ToolEnds \/ ToolRetries \/ ChildStarts
  <2>1. ~IsProvider
    BY <1>6 DEF ToolUnavailable, ToolRefused, EndsUnstarted, ToolStarts, ToolEnds, ToolRetries,
                ChildStarts
  <2>2. QED
    BY <1>6, <2>1, ToolAccounts
<1>7. CASE ChildEnds
  BY <1>7, ChildAccounts DEF ChildEnds
<1>8. CASE UserCancels \/ Tick \/ Over \/ UNCHANGED vars
  BY <1>8, OtherAccounts
<1>9. QED
  BY <1>1, <1>2, <1>3, <1>4, <1>5, <1>6, <1>7, <1>8 DEF Next, TaskStep, Answer

-----------------------------------------------------------------------------
(* The invariant holds. *)

LEMMA InitInv == Init => Inv
<1> SUFFICES ASSUME Init PROVE Inv
  OBVIOUS
<1>1. PICK plan \in Plans, history \in Histories :
        state = NewState(plan, Append(history, UserMessage))
  BY DEF Init
<1>2. Good(state)
  <2>1. plan \in Plan /\ history \in Seq(Message)
    BY LocalAssumption
  <2>2. UserMessage \in Message
    BY DEF UserMessage, Message
  <2>3. Append(history, UserMessage) \in Seq(Message)
    BY <2>1, <2>2
  <2>4. QED
    BY <1>1, <2>1, <2>3, NewStateGood
<1>3. /\ state.usage.calls = 0 /\ state.pending_tools = << >>
      /\ state.status = "pending" /\ state.text = FALSE
  BY <1>1 DEF NewState, EmptyUsage
<1>4. /\ phase = "start" /\ work = << >> /\ reserved = 0 /\ outcome = NoOutcome
      /\ child = EmptyUsage /\ cancelled = FALSE /\ clock = [run |-> 0, effect |-> 0]
      /\ status = "pending" /\ events = << >> /\ result = "none"
      /\ transport = 0 /\ orphans = 0 /\ misled = FALSE
  BY DEF Init
<1>5. TypeOK
  <2>1. NoOutcome \in Outcome /\ EmptyUsage \in RunUsage
    BY DEF NoOutcome, Outcome, EmptyUsage, RunUsage
  <2>2. << >> \in Seq(Worker) /\ << >> \in Seq(Status)
    OBVIOUS
  <2>3. clock \in [run : Nat, effect : Nat]
    BY <1>4
  <2>4. phase \in Phases /\ status \in Status
    BY <1>4 DEF Phases, Status
  <2>5. QED
    BY <1>2, <1>4, <2>1, <2>2, <2>3, <2>4 DEF TypeOK, Good
<1>6. Accounts
  <2>1. ChargedCalls(state) \in Nat
    BY <1>2, RemainingType DEF Good
  <2>2. Settled
    BY <1>3, <1>4, <2>1 DEF Settled, Attributed
  <2>3. QED
    BY <1>2, <1>4, <2>2
    DEF Accounts, EffectKnown, InProvider, ProviderOver, InToolEffect, Closed, AtEnd
<1>7. Healthy
  BY <1>3, <1>4 DEF Healthy, NoCallLeft, Looping, AtEnd
<1>8. Announced
  BY <1>4 DEF Announced, Looping, AtEnd
<1>9. QED
  BY <1>5, <1>6, <1>7, <1>8 DEF Inv

LEMMA StepKeepsInv == Inv /\ [Next]_vars => Inv'
<1> SUFFICES ASSUME Inv, [Next]_vars PROVE Inv'
  OBVIOUS
<1>1. TypeOK /\ Accounts /\ Healthy /\ Announced
  BY DEF Inv
<1>2. Accounts'
  BY <1>1, StepKeepsAccounts
<1>3. CASE Next
  <2>1. TypeOK' /\ Healthy' /\ Announced'
    BY <1>1, <1>3, StepKeepsTypes, StepKeepsHealthy, StepKeepsAnnounced
  <2>2. QED
    BY <1>2, <2>1 DEF Inv
<1>4. CASE UNCHANGED vars
  <2>1. TypeOK'
    BY <1>1, <1>4 DEF TypeOK, vars
  <2>2. Healthy' /\ Announced'
    BY <1>1, <1>4 DEF Healthy, Announced, AtEnd, vars
  <2>3. QED
    BY <1>2, <2>1, <2>2 DEF Inv
<1>5. QED
  BY <1>3, <1>4

THEOREM RunStaysAccounted == Spec => []Inv
BY InitInv, StepKeepsInv, PTL DEF Spec

\* The task's locals and the handle keep the shapes the code gives them.
THEOREM TaskIsTyped == Spec => []TypeOK
<1>1. Inv => TypeOK
  BY DEF Inv
<1>2. QED
  BY <1>1, RunStaysAccounted, PTL

\* However many attempts, batches, delegations, cancellations and deadlines a run
\* goes through, the provider calls made in its tree stay within its limit: the
\* attempts of an effect are fixed before the first of them (allowed_attempts in
\* run/effects.rs), and the shares of a batch never use the budget up
\* (state/effects.rs).
THEOREM CallsStayWithinBudget == Spec => []TransportBudget
<1>1. Inv => TransportBudget
  BY WithinLimit DEF Inv, TransportBudget
<1>2. QED
  BY <1>1, RunStaysAccounted, PTL

\* A handle shows each status once and in order, and agrees with the result.
THEOREM StatusIsAnnouncedOnce == Spec => []AnnouncedOnce
<1>1. Inv => AnnouncedOnce
  <2> SUFFICES ASSUME Inv PROVE AnnouncedOnce
    OBVIOUS
  <2>1. phase \in Phases /\ Announced
    BY DEF Inv, TypeOK
  <2>2. CASE events = << >> /\ status = "pending" /\ phase \notin {"published"}
    BY <2>2 DEF AnnouncedOnce
  <2>3. CASE events = <<"running">> /\ status = "running" /\ (phase = "published" => result = "ok")
    BY <2>3 DEF AnnouncedOnce
  <2>4. CASE events = <<"failed">> /\ status = "failed" /\ result = "error"
    BY <2>4 DEF AnnouncedOnce, Terminal, Status, Live
  <2>5. CASE /\ events = <<"running", status>> /\ status \in Terminal
             /\ result = "error" => status = "failed"
             /\ result = "ok" /\ status \in {"completed", "failed", "incomplete"} =>
                  state.status = status
    <3>1. Len(events) = 2 /\ events[1] = "running" /\ events[2] = status /\ events # << >>
      BY <2>5
    <3>2. QED
      BY <2>5, <3>1 DEF AnnouncedOnce
  <2>6. QED
    BY <2>1, <2>2, <2>3, <2>4, <2>5 DEF Announced, Phases, AtEnd, Looping
<1>2. QED
  BY <1>1, RunStaysAccounted, PTL

\* A ledger that is returned as complete has attributed every provider call made
\* in the tree, whatever was retried, delegated, cancelled or timed out, unless a
\* child that failed misled it (state/commits.rs, run/effects.rs).
THEOREM CompleteLedgerIsExact == Spec => []LedgerHonest
<1>1. Inv => LedgerHonest
  <2> SUFFICES ASSUME Inv, result = "ok", state.usage.complete, ~misled
               PROVE  state.usage.calls = transport
    BY DEF LedgerHonest
  <2>1. AtEnd
    BY DEF Inv, Healthy
  <2>2. state.usage.calls + 0 = transport
    BY <2>1 DEF Inv, Accounts, Closed, Attributed
  <2>3. state.usage.calls \in Nat
    BY DEF Inv, TypeOK, AgentRunState, RunUsage
  <2>4. QED
    BY <2>2, <2>3
<1>2. QED
  BY <1>1, RunStaysAccounted, PTL

-----------------------------------------------------------------------------
(* The local run keeps the contract of a run (RunContract). *)

LEMMA ContractRules ==
    /\ \A h : Contract!Correlated(h) <=> Correlated(h)
    /\ \A h : Contract!ValidateHistory(h) <=> ValidateHistory(h)
    /\ \A h, pending : Contract!Leaves(h, pending) <=> Leaves(h, pending)
    /\ Contract!TextMessage = TextMessage
    /\ Contract!Live = Live
    /\ Contract!Terminal = Terminal
BY DEF Contract!Correlated, Correlated, Contract!Leaves, Leaves, Contract!CallsOf, CallsOf,
       Contract!DistinctIds, DistinctIds, Contract!Answered, Answered,
       Contract!ResultMessage, ResultMessage, Contract!Answers, Answers,
       Contract!ValidateHistory, ValidateHistory,
       Contract!TextMessage, TextMessage, Contract!Live, Live,
       Contract!Terminal, Terminal, Contract!Status, Status

\* What the contract's result stands for.
Shown == IF phase = "published" THEN result ELSE "none"

LEMMA InitContract == Init => Contract!Init
<1> SUFFICES ASSUME Init PROVE Contract!Init
  OBVIOUS
<1>1. PICK plan \in Plans, history \in Histories :
        state = NewState(plan, Append(history, UserMessage))
  BY DEF Init
<1>2. state.status = "pending" /\ state.history = Append(history, UserMessage)
  BY <1>1 DEF NewState
<1>3. Contract!Message = Message
  BY DEF Contract!Message, Message, Contract!Call, Call
<1>4. history \in Seq(Message) /\ UserMessage \in Message
  BY LocalAssumption DEF UserMessage, Message
<1>5. state.history \in Seq(Contract!Message)
  BY <1>2, <1>3, <1>4
<1>6. phase # "published"
  BY DEF Init
<1>7. QED
  BY <1>2, <1>5, <1>6 DEF Contract!Init

\* A step that changes the state's status or its history is taken in the loop and
\* leaves a history that resumes.
LEMMA ChangesAreSound ==
    ASSUME Inv, Inv', Next, state' # state
    PROVE  phase \in Looping /\ Sound(state')
<1>1. state \in AgentRunState /\ Healthy /\ Healthy'
  BY DEF Inv, TypeOK
<1>2. phase \in Looping
  BY StepKinds
  DEF LoopSteps, StartRun, StopExhausted, StopIdle, SettleCompleted, CommitOutcome, Publish, Looping
<1>3. CASE state' = Fail(state)
  BY <1>1, <1>2, <1>3, QuietStepsSound DEF Healthy
<1>4. CASE state' # Fail(state)
  <2>1. phase' \in Looping \/ result' = "ok"
    BY <1>2, <1>4, StepKinds
    DEF LoopSteps, StartRun, StopExhausted, StopIdle, SettleCompleted, CommitOutcome, Publish,
        FinishCancelled, FinishFailed, Return, Looping
  <2>2. QED
    BY <1>1, <1>2, <2>1 DEF Healthy
<1>5. QED
  BY <1>2, <1>3, <1>4

\* While the run is not published it takes steps of the contract, or none.
LEMMA StepsOfTheContract ==
    ASSUME Inv, Inv', Next
    PROVE  Contract!Advance \/ Contract!Stay
<1> SUFFICES ASSUME state'.status # state.status \/ state'.history # state.history
             PROVE  Contract!Advance
  BY DEF Contract!Stay
<1>1. state \in AgentRunState /\ NoCallLeft(state) /\ NoCallLeft(state') /\ TypeOK /\ Accounts
  BY DEF Inv, TypeOK, Healthy
<1>2. \/ Holds(state, state')
      \/ Turns(state, state')
      \/ /\ state.status \in Live
         /\ state.pending_tools # << >>
         /\ \E n \in 1..Len(state.pending_tools) : AnswersFirst(state, state', n)
  BY <1>1, StateTurns
<1>3. Grows(state.history, state'.history)
  BY <1>1, <1>2, HistoryGrows
<1>4. state.status \in Live /\ state'.status # "pending"
  BY <1>1, <1>2 DEF Holds, Turns, AnswersFirst, NoCallLeft, Live
<1>5. Sound(state')
  BY ChangesAreSound
<1>6. /\ Correlated(state'.history)
      /\ state'.status \in {"completed", "incomplete"} => Leaves(state'.history, << >>)
      /\ state'.status = "completed" => state'.history[Len(state'.history)] = TextMessage
  BY <1>1, <1>5 DEF Sound, ValidateEffectStateHistory, Resolved, NoCallLeft
<1>7. Contract!IsPrefix(state.history, state'.history)
  BY <1>3, PrefixOfGrown DEF Contract!IsPrefix, IsPrefix
<1>8. QED
  BY <1>4, <1>6, <1>7, ContractRules DEF Contract!Advance, Contract!Resumable

LEMMA StepKeepsContract == Inv /\ Inv' /\ [Next]_vars => [Contract!Next]_(Contract!vars)
<1> SUFFICES ASSUME Inv, Inv', [Next]_vars PROVE [Contract!Next]_(Contract!vars)
  OBVIOUS
<1>1. CASE UNCHANGED vars
  BY <1>1 DEF vars, Contract!vars
<1>2. CASE Next /\ phase = "published"
  <2>1. UNCHANGED <<state, result, phase>>
    BY <1>2, StepKinds
    DEF LoopSteps, StartRun, StopExhausted, StopIdle, SettleCompleted, CommitOutcome, Publish,
        FinishCancelled, FinishFailed, Looping
  <2>2. QED
    BY <2>1 DEF Contract!vars
<1>3. CASE Next /\ phase # "published"
  <2>1. Shown = "none" /\ Shown' \in {"none", "ok", "error"}
    BY <1>3 DEF Shown, Inv, TypeOK
  <2>2. ASSUME Shown' = "ok"
        PROVE  state'.status \in Terminal /\ Contract!Returnable(state'.status, state'.history)
    <3>1. result' = "ok" /\ Healthy'
      BY <2>2 DEF Shown, Inv
    <3>2. /\ Sound(state') /\ state'.status \in Terminal
          /\ state'.status # "cancelled" => state'.pending_tools = << >>
      BY <3>1 DEF Healthy
    <3>3. QED
      BY <3>2, ContractRules DEF Contract!Returnable, Sound, ValidateEffectStateHistory
  <2>3. Contract!Advance \/ Contract!Stay
    BY <1>3, StepsOfTheContract
  <2>4. Contract!Next
    BY <2>1, <2>2, <2>3, ContractRules DEF Contract!Next, Shown
  <2>5. QED
    BY <2>4
<1>4. QED
  BY <1>1, <1>2, <1>3

\* The local runtime keeps the contract of a run: while it runs, its history only
\* grows, a terminal status is the last and what it leaves resumes; what it
\* returns is terminal and starts the next run unless it was cancelled; and once
\* the result is visible nothing changes (run/local.rs; docs/SPEC.md:190).
THEOREM LocalRunKeepsContract == Spec => ImplementsContract
<1>1. Init => Contract!Init
  BY InitContract
<1>2. Inv /\ Inv' /\ [Next]_vars => [Contract!Next]_(Contract!vars)
  BY StepKeepsContract
<1>3. QED
  BY <1>1, <1>2, RunStaysAccounted, PTL DEF Spec, Contract!Spec, ImplementsContract

-----------------------------------------------------------------------------
(* The time of an effect: what its workers may still take.  rem is the time  *)
(* the run had left when the effect began, e the time the effect has taken,  *)
(* kids the workers that wait for a child run.                               *)

\* An effect takes at most so long for its first n chunks.
Slack(W) == IF \E i \in DOMAIN W : W[i].attempt > 1 \/ W[i].stage = "backoff" THEN 2 ELSE 1

Allowed(W, rem, n) == Slack(W) * n * rem

\* No child run comes before the chunk of i; the chunks before it are done.
Bounded(kids, i) == \A j \in kids : ~(Chunk(j) < Chunk(i))

TurnCome(W, i) == \A j \in DOMAIN W : Chunk(j) < Chunk(i) => W[j].stage = "done"

\* A worker that has not started measures nothing yet.
WaitsInTime(W, e, rem, kids, i) ==
    /\ W[i].since = 0 /\ W[i].wait = 0
    /\ Bounded(kids, i) /\ TurnCome(W, i) => e <= Allowed(W, rem, Chunk(i))

\* An attempt has what its worker has left; a backoff what its attempt had.
AttemptInTime(W, e, rem, kids, i) ==
    LET w == W[i] IN
    /\ w.left \in 0..rem /\ w.wait <= w.left
    /\ w.left > 0 => w.since + w.left = rem + w.wait
    /\ Bounded(kids, i) =>
          IF w.left = 0 THEN e <= Allowed(W, rem, Chunk(i) + 1)
          ELSE e <= Allowed(W, rem, Chunk(i)) + w.since

BackoffInTime(W, e, rem, kids, i) ==
    LET w == W[i] IN
    /\ w.left \in 0..rem /\ w.wait <= w.left
    /\ Bounded(kids, i) =>
          /\ w.since < rem => e <= Allowed(W, rem, Chunk(i)) + w.since
          /\ e <= Allowed(W, rem, Chunk(i)) + rem + w.wait

InTime(W, e, rem, kids) ==
    \A i \in DOMAIN W :
        /\ W[i].stage = "queued" => WaitsInTime(W, e, rem, kids, i)
        /\ W[i].stage \in {"armed", "called"} /\ i \notin kids => AttemptInTime(W, e, rem, kids, i)
        /\ W[i].stage = "backoff" /\ i \notin kids => BackoffInTime(W, e, rem, kids, i)

Children == {i \in DOMAIN work : IsChild(i)}

Timely ==
    phase = "executing" /\ state.plan.deadline_ms # Unset =>
        /\ \A i \in DOMAIN work : work[i].attempt > 0
        /\ InTime(work, clock.effect, RemainingTime(state), Children)

\* Chunks are numbered from zero in the order of their members.
LEMMA ChunkOrder ==
    ASSUME NEW i \in Nat \ {0}, NEW j \in Nat \ {0}
    PROVE  /\ Chunk(i) \in Nat
           /\ i <= j => Chunk(i) <= Chunk(j)
<1> DEFINE k == MaxParallel
           a == i - 1
           b == j - 1
<1>1. k \in Nat \ {0} /\ a \in Nat /\ b \in Nat
  BY LocalAssumption
<1>2. Chunk(i) = a \div k /\ Chunk(j) = b \div k
  BY DEF Chunk
<1>3. i <= j => a <= b
  OBVIOUS
<1> HIDE DEF k, a, b
<1>4. a \div k \in Nat /\ b \div k \in Nat
  BY <1>1
<1>5. a <= b => a \div k <= b \div k
  BY <1>1, <1>4, SMTT(30)
<1>6. QED
  BY <1>2, <1>3, <1>4, <1>5

\* The time for some chunks: it grows with their number, and when something is retried.
LEMMA Allowance ==
    ASSUME NEW W, NEW rem \in Nat, NEW n \in Nat
    PROVE  /\ Slack(W) \in {1, 2}
           /\ Allowed(W, rem, n) \in Nat
           /\ Allowed(W, rem, n + 1) = Allowed(W, rem, n) + Slack(W) * rem
           /\ Slack(W) * rem \in Nat /\ Slack(W) * rem >= rem
           /\ Slack(W) = 2 => Slack(W) * rem = rem + rem
<1>1. Slack(W) \in {1, 2}
  BY DEF Slack
<1> DEFINE m == Slack(W)
<1> HIDE DEF m
<1>2. m \in {1, 2}
  BY <1>1 DEF m
<1>3. n * rem \in Nat /\ (n + 1) * rem = n * rem + rem
  OBVIOUS
<1>4. CASE m = 1
  <2>1. m * n * rem = n * rem /\ m * (n + 1) * rem = (n + 1) * rem /\ m * rem = rem
    BY <1>4
  <2>2. QED
    BY <1>2, <1>3, <1>4, <2>1 DEF Allowed, m
<1>5. CASE m = 2
  <2>1. /\ m * n * rem = n * rem + n * rem
        /\ m * (n + 1) * rem = (n + 1) * rem + (n + 1) * rem
        /\ m * rem = rem + rem
    BY <1>5
  <2>2. QED
    BY <1>2, <1>3, <1>5, <2>1 DEF Allowed, m
<1>6. QED
  BY <1>2, <1>4, <1>5

LEMMA AllowanceGrows ==
    ASSUME NEW W, NEW V, Slack(W) <= Slack(V), NEW rem \in Nat,
           NEW n \in Nat, NEW m \in Nat, n <= m
    PROVE  Allowed(W, rem, n) <= Allowed(V, rem, m)
<1> DEFINE a == n * rem
           b == m * rem
<1>1. a \in Nat /\ b \in Nat /\ a <= b
  OBVIOUS
<1>2. Slack(W) \in {1, 2} /\ Slack(V) \in {1, 2}
  BY Allowance
<1>3. Allowed(W, rem, n) = Slack(W) * a /\ Allowed(V, rem, m) = Slack(V) * b
  <2>1. \A s \in {1, 2} : s * n * rem = s * a /\ s * m * rem = s * b
    OBVIOUS
  <2>2. QED
    BY <1>2, <2>1 DEF Allowed
<1> HIDE DEF a, b
<1>4. \A s \in {1, 2}, t \in {1, 2} : s <= t => s * a <= t * b
  BY <1>1
<1>5. QED
  BY <1>2, <1>3, <1>4

LEMMA WorkerTypes ==
    ASSUME NEW W \in Seq(Worker), NEW i \in DOMAIN W
    PROVE  /\ i \in Nat \ {0} /\ W[i] \in Worker
           /\ W[i].attempt \in Nat /\ W[i].wait \in Nat /\ W[i].since \in Nat
           /\ Chunk(i) \in Nat /\ Chunk(i) + 1 \in Nat
<1>1. i \in Nat \ {0} /\ W[i] \in Worker
  OBVIOUS
<1>2. W[i].attempt \in Nat /\ W[i].wait \in Nat /\ W[i].since \in Nat
  BY <1>1 DEF Worker
<1>3. Chunk(i) \in Nat
  BY <1>1, ChunkOrder
<1>4. QED
  BY <1>1, <1>2, <1>3

\* More is retried only.
LEMMA SlackGrows ==
    ASSUME NEW W \in Seq(Worker), NEW k \in DOMAIN W,
           NEW w \in Worker, w.attempt >= W[k].attempt,
           W[k].stage = "backoff" => w.attempt > 1,
           NEW V, V = [W EXCEPT ![k] = w]
    PROVE  Slack(W) <= Slack(V)
<1>1. /\ DOMAIN V = DOMAIN W /\ V[k] = w
      /\ \A i \in DOMAIN W : i # k => V[i] = W[i]
  OBVIOUS
<1>2. W[k].attempt \in Nat /\ w.attempt \in Nat
  BY WorkerTypes DEF Worker
<1>3. SUFFICES ASSUME NEW i \in DOMAIN W, W[i].attempt > 1 \/ W[i].stage = "backoff"
               PROVE  V[i].attempt > 1 \/ V[i].stage = "backoff"
  BY <1>1 DEF Slack
<1>4. CASE i = k
  <2>1. W[k].attempt > 1 => w.attempt > 1
    BY <1>2
  <2>2. QED
    BY <1>1, <1>3, <1>4, <2>1
<1>5. CASE i # k
  BY <1>1, <1>3, <1>5
<1>6. QED
  BY <1>4, <1>5

\* A step of one worker that takes no time.
LEMMA WorkerInTime ==
    ASSUME NEW W \in Seq(Worker), NEW e \in Nat, NEW rem \in Nat,
           NEW kids \in SUBSET (DOMAIN W), InTime(W, e, rem, kids),
           NEW k \in DOMAIN W, W[k].stage # "done",
           NEW w \in Worker, w.stage # "queued", w.attempt >= W[k].attempt,
           W[k].stage = "backoff" => w.attempt > 1,
           NEW V, V = [W EXCEPT ![k] = w],
           w.stage = "done" /\ k \notin kids /\ Bounded(kids, k) =>
              e <= Allowed(W, rem, Chunk(k) + 1),
           w.stage \in {"armed", "called"} /\ k \notin kids => AttemptInTime(V, e, rem, kids, k),
           w.stage = "backoff" /\ k \notin kids => BackoffInTime(V, e, rem, kids, k)
    PROVE  InTime(V, e, rem, kids)
<1>1. /\ V \in Seq(Worker) /\ DOMAIN V = DOMAIN W /\ V[k] = w
      /\ \A i \in DOMAIN W : i # k => V[i] = W[i]
      /\ DOMAIN W \subseteq Nat \ {0}
  OBVIOUS
<1>2. \A i \in DOMAIN W : W[i].attempt \in Nat
  BY WorkerTypes
<1>3. Slack(W) <= Slack(V)
  BY SlackGrows
<1>4. \A i \in DOMAIN W : Chunk(i) \in Nat
  BY WorkerTypes
<1>5. ASSUME NEW n \in Nat, NEW m \in Nat, n <= m
      PROVE  /\ Allowed(W, rem, n) \in Nat /\ Allowed(V, rem, m) \in Nat
             /\ Allowed(W, rem, n) <= Allowed(V, rem, m)
  BY <1>3, <1>5, Allowance, AllowanceGrows
<1>6. ASSUME NEW i \in DOMAIN W, i # k
      PROVE  /\ V[i].stage = "queued" => WaitsInTime(V, e, rem, kids, i)
             /\ V[i].stage \in {"armed", "called"} /\ i \notin kids =>
                   AttemptInTime(V, e, rem, kids, i)
             /\ V[i].stage = "backoff" /\ i \notin kids => BackoffInTime(V, e, rem, kids, i)
  <2> DEFINE c == Chunk(i)
             lo == Allowed(W, rem, c)
             hi == Allowed(V, rem, c)
             lo1 == Allowed(W, rem, c + 1)
             hi1 == Allowed(V, rem, c + 1)
  <2>1. V[i] = W[i]
    BY <1>1, <1>6
  <2>2. c \in Nat /\ c + 1 \in Nat
    BY <1>4
  <2>3. lo \in Nat /\ hi \in Nat /\ lo1 \in Nat /\ hi1 \in Nat /\ lo <= hi /\ lo1 <= hi1
    <3>1. c <= c /\ c + 1 <= c + 1
      BY <2>2
    <3> HIDE DEF c
    <3>2. QED
      BY ONLY <1>5, <2>2, <3>1
  <2>4. W[i].since \in Nat /\ W[i].wait \in Nat
    BY WorkerTypes
  <2>5. ASSUME V[i].stage = "queued"
        PROVE  WaitsInTime(V, e, rem, kids, i)
    <3>1. WaitsInTime(W, e, rem, kids, i)
      BY <2>1, <2>5 DEF InTime
    <3>2. ASSUME Bounded(kids, i), TurnCome(V, i)
          PROVE  e <= hi
      <4>1. CASE TurnCome(W, i)
        BY <2>3, <3>1, <3>2, <4>1 DEF WaitsInTime
      <4>2. CASE ~TurnCome(W, i)
        <5>1. PICK j \in DOMAIN W : Chunk(j) < Chunk(i) /\ W[j].stage # "done"
          BY <4>2 DEF TurnCome
        <5>2. V[j].stage = "done"
          BY <1>1, <3>2, <5>1 DEF TurnCome
        <5>3. j = k /\ w.stage = "done"
          BY <1>1, <5>1, <5>2
        <5>4. k \notin kids
          BY <3>2, <5>1, <5>3 DEF Bounded
        <5>5. Bounded(kids, k)
          BY <1>4, <3>2, <5>1, <5>3 DEF Bounded
        <5>6. e <= Allowed(W, rem, Chunk(k) + 1)
          BY <5>3, <5>4, <5>5
        <5>7. Chunk(k) + 1 \in Nat /\ Chunk(k) + 1 <= c
          BY <1>4, <5>1, <5>3
        <5>8. /\ Allowed(W, rem, Chunk(k) + 1) \in Nat
              /\ Allowed(W, rem, Chunk(k) + 1) <= hi
          BY <1>5, <2>2, <5>7
        <5> HIDE DEF hi
        <5>9. QED
          BY <2>3, <5>6, <5>8
      <4>3. QED
        BY <4>1, <4>2
    <3>3. QED
      BY <2>1, <3>1, <3>2 DEF WaitsInTime
  <2>6. ASSUME V[i].stage \in {"armed", "called"}, i \notin kids
        PROVE  AttemptInTime(V, e, rem, kids, i)
    <3>1. AttemptInTime(W, e, rem, kids, i)
      BY <2>1, <2>6 DEF InTime
    <3>2. ASSUME Bounded(kids, i)
          PROVE  IF W[i].left = 0 THEN e <= hi1 ELSE e <= hi + W[i].since
      <4> DEFINE s == W[i].since
      <4>1. IF W[i].left = 0 THEN e <= lo1 ELSE e <= lo + s
        BY <3>1, <3>2 DEF AttemptInTime
      <4>2. s \in Nat
        BY <2>4
      <4> HIDE DEF lo, hi, lo1, hi1, s
      <4>3. (e <= lo1 => e <= hi1) /\ (e <= lo + s => e <= hi + s)
        BY ONLY <2>3, <4>2, e \in Nat
      <4>4. QED
        BY ONLY <4>1, <4>3 DEF s
    <3>3. QED
      BY <2>1, <3>1, <3>2 DEF AttemptInTime
  <2>7. ASSUME V[i].stage = "backoff", i \notin kids
        PROVE  BackoffInTime(V, e, rem, kids, i)
    <3>1. BackoffInTime(W, e, rem, kids, i)
      BY <2>1, <2>7 DEF InTime
    <3>2. ASSUME Bounded(kids, i)
          PROVE  /\ W[i].since < rem => e <= hi + W[i].since
                 /\ e <= hi + rem + W[i].wait
      <4> DEFINE s == W[i].since
                 t == W[i].wait
      <4>1. (s < rem => e <= lo + s) /\ e <= lo + rem + t
        BY <3>1, <3>2 DEF BackoffInTime
      <4>2. s \in Nat /\ t \in Nat
        BY <2>4
      <4> HIDE DEF lo, hi, s, t
      <4>3. (e <= lo + s => e <= hi + s) /\ e <= hi + rem + t
        BY ONLY <2>3, <4>1, <4>2, e \in Nat, rem \in Nat
      <4>4. QED
        BY ONLY <4>1, <4>3 DEF s, t
    <3>3. QED
      BY <2>1, <3>1, <3>2 DEF BackoffInTime
  <2>8. QED
    BY <2>5, <2>6, <2>7
<1>7. QED
  BY <1>1, <1>6 DEF InTime

\* A new effect has used no time.
LEMMA QueuedInTime ==
    ASSUME NEW n \in Nat, NEW W, W = [i \in 1..n |-> Queued], NEW rem \in Nat, NEW kids
    PROVE  InTime(W, 0, rem, kids)
<1>1. \A i \in 1..n : Chunk(i) \in Nat
  BY ChunkOrder
<1>2. \A i \in 1..n : Allowed(W, rem, Chunk(i)) \in Nat
  BY <1>1, Allowance
<1>3. ASSUME NEW i \in 1..n
      PROVE  WaitsInTime(W, 0, rem, kids, i)
  <2>1. W[i].since = 0 /\ W[i].wait = 0
    BY DEF Queued
  <2>2. 0 <= Allowed(W, rem, Chunk(i))
    BY <1>2
  <2>3. QED
    BY ONLY <2>1, <2>2 DEF WaitsInTime
<1>4. DOMAIN W = 1..n /\ \A i \in 1..n : W[i].stage = "queued"
  BY DEF Queued
<1>5. QED
  BY ONLY <1>3, <1>4 DEF InTime

\* A millisecond for all workers that have started.
LEMMA TickInTime ==
    ASSUME NEW W \in Seq(Worker), NEW e \in Nat, NEW rem \in Nat,
           NEW kids \in SUBSET (DOMAIN W), InTime(W, e, rem, kids),
           NEW cap \in Nat, rem <= cap,
           \A i \in DOMAIN W : W[i].stage = "queued" => ~TurnCome(W, i),
           \A i \in DOMAIN W :
              W[i].stage \in {"armed", "called", "backoff"} /\ i \notin kids =>
                 W[i].wait < W[i].left,
           NEW f \in Nat, f <= e + 1,
           NEW V, V = [i \in DOMAIN W |->
                         IF W[i].stage \in {"queued", "done"}
                         THEN W[i]
                         ELSE [W[i] EXCEPT !.wait = Advance(@, cap), !.since = Advance(@, cap)]]
    PROVE  InTime(V, f, rem, kids)
<1>1. \A i \in DOMAIN W : W[i] \in Worker
  BY WorkerTypes
<1>2. /\ DOMAIN V = DOMAIN W
      /\ \A i \in DOMAIN W :
            /\ V[i].stage = W[i].stage /\ V[i].attempt = W[i].attempt /\ V[i].left = W[i].left
            /\ W[i].stage = "queued" => V[i] = W[i]
            /\ W[i].stage \notin {"queued", "done"} =>
                  /\ V[i].wait = Advance(W[i].wait, cap)
                  /\ V[i].since = Advance(W[i].since, cap)
  BY <1>1 DEF Worker
<1>3. Slack(V) = Slack(W)
  <2>1. (\E i \in DOMAIN V : V[i].attempt > 1 \/ V[i].stage = "backoff")
           <=> (\E i \in DOMAIN W : W[i].attempt > 1 \/ W[i].stage = "backoff")
    BY <1>2
  <2>2. QED
    BY <2>1 DEF Slack
<1>4. ASSUME NEW i \in DOMAIN W
      PROVE  /\ V[i].stage = "queued" => WaitsInTime(V, f, rem, kids, i)
             /\ V[i].stage \in {"armed", "called"} /\ i \notin kids =>
                   AttemptInTime(V, f, rem, kids, i)
             /\ V[i].stage = "backoff" /\ i \notin kids => BackoffInTime(V, f, rem, kids, i)
  <2> DEFINE c == Chunk(i)
             lo == Allowed(W, rem, c)
             lo1 == Allowed(W, rem, c + 1)
             w == W[i].wait
             s == W[i].since
             l == W[i].left
  <2>1. c \in Nat /\ c + 1 \in Nat
    BY WorkerTypes
  <2>2. /\ lo \in Nat /\ lo1 \in Nat
        /\ Allowed(V, rem, c) = lo /\ Allowed(V, rem, c + 1) = lo1
    BY <1>3, <2>1, Allowance DEF Allowed
  <2>3. w \in Nat /\ s \in Nat
    BY WorkerTypes
  <2>4. ASSUME V[i].stage = "queued"
        PROVE  WaitsInTime(V, f, rem, kids, i)
    <3>1. WaitsInTime(W, e, rem, kids, i) /\ ~TurnCome(W, i)
      BY <1>2, <2>4 DEF InTime
    <3>2. ~TurnCome(V, i)
      <4>1. PICK j \in DOMAIN W : Chunk(j) < Chunk(i) /\ W[j].stage # "done"
        BY <3>1 DEF TurnCome
      <4>2. j \in DOMAIN V /\ V[j].stage # "done"
        BY <1>2, <4>1
      <4>3. QED
        BY <4>1, <4>2 DEF TurnCome
    <3>3. QED
      BY <1>2, <2>4, <3>1, <3>2 DEF WaitsInTime
  <2>5. ASSUME W[i].stage \in {"armed", "called", "backoff"}, i \notin kids, l \in 0..rem
        PROVE  /\ w < l
               /\ V[i].wait = w + 1 /\ w + 1 <= l /\ l # 0
               /\ s + l = rem + w => V[i].since = s + 1
               /\ V[i].since < rem => s < rem /\ V[i].since = s + 1
    <3>1. w < l
      BY <2>5
    <3>2. V[i].wait = Advance(w, cap) /\ V[i].since = Advance(s, cap)
      BY <1>2, <2>5
    <3>6. rem <= cap
      OBVIOUS
    <3> HIDE DEF w, s, l
    <3>3. rem \in Nat /\ cap \in Nat /\ rem <= cap /\ l \in Nat /\ l <= rem
      BY ONLY <2>5, <3>6
    <3>4. /\ Advance(w, cap) = w + 1 /\ w + 1 <= l /\ l # 0
          /\ s + l = rem + w => Advance(s, cap) = s + 1
          /\ Advance(s, cap) < rem => s < rem /\ Advance(s, cap) = s + 1
      BY ONLY <2>3, <3>1, <3>3 DEF Advance
    <3>5. QED
      BY ONLY <3>1, <3>2, <3>4
  <2> DEFINE vs == V[i].since
             vw == V[i].wait
  <2>9. e \in Nat /\ f \in Nat /\ f <= e + 1 /\ rem \in Nat
    OBVIOUS
  <2>6. ASSUME V[i].stage \in {"armed", "called"}, i \notin kids
        PROVE  AttemptInTime(V, f, rem, kids, i)
    <3>1. AttemptInTime(W, e, rem, kids, i)
      BY <1>2, <2>6 DEF InTime
    <3>2. /\ l \in 0..rem
          /\ l > 0 => s + l = rem + w
          /\ Bounded(kids, i) => IF l = 0 THEN e <= lo1 ELSE e <= lo + s
      BY <3>1 DEF AttemptInTime
    <3>3. /\ w < l /\ vw = w + 1 /\ w + 1 <= l /\ l # 0
          /\ s + l = rem + w => vs = s + 1
      BY <1>2, <2>5, <2>6, <3>2
    <3>4. V[i].left = l
      BY <1>2
    <3> HIDE DEF w, s, l, lo, lo1, vs, vw
    <3>5. l > 0
      BY ONLY <2>3, <3>2, <3>3
    <3>6. vs = s + 1 /\ vw = w + 1
      BY ONLY <3>2, <3>3, <3>5
    <3>7. /\ vw <= l /\ vs + l = rem + vw
          /\ Bounded(kids, i) => f <= lo + vs
      BY ONLY <2>2, <2>3, <2>9, <3>2, <3>3, <3>5, <3>6
    <3>8. /\ V[i].left \in 0..rem /\ V[i].wait <= V[i].left
          /\ V[i].since + V[i].left = rem + V[i].wait
          /\ V[i].left # 0
          /\ Bounded(kids, i) => f <= Allowed(V, rem, Chunk(i)) + V[i].since
      BY ONLY <2>2, <3>2, <3>3, <3>4, <3>7 DEF vs, vw
    <3>9. QED
      BY ONLY <3>8 DEF AttemptInTime
  <2>7. ASSUME V[i].stage = "backoff", i \notin kids
        PROVE  BackoffInTime(V, f, rem, kids, i)
    <3>1. BackoffInTime(W, e, rem, kids, i)
      BY <1>2, <2>7 DEF InTime
    <3>2. /\ l \in 0..rem
          /\ Bounded(kids, i) => /\ s < rem => e <= lo + s
                                 /\ e <= lo + rem + w
      BY <3>1 DEF BackoffInTime
    <3>3. /\ vw = w + 1 /\ w + 1 <= l
          /\ vs < rem => s < rem /\ vs = s + 1
      BY <1>2, <2>5, <2>7, <3>2
    <3>4. V[i].left = l
      BY <1>2
    <3> HIDE DEF w, s, l, lo, lo1, vs, vw
    <3>5. Bounded(kids, i) => /\ vs < rem => f <= lo + vs
                              /\ f <= lo + rem + vw
      BY ONLY <2>2, <2>3, <2>9, <3>2, <3>3
    <3>6. /\ V[i].left \in 0..rem /\ V[i].wait <= V[i].left
          /\ Bounded(kids, i) =>
                /\ V[i].since < rem => f <= Allowed(V, rem, Chunk(i)) + V[i].since
                /\ f <= Allowed(V, rem, Chunk(i)) + rem + V[i].wait
      BY ONLY <2>2, <3>2, <3>3, <3>4, <3>5 DEF vs, vw
    <3>7. QED
      BY ONLY <3>6 DEF BackoffInTime
  <2>8. QED
    BY <2>4, <2>6, <2>7
<1>5. QED
  BY <1>2, <1>4 DEF InTime

\* What a step of worker k leaves of the allowance.
LEMMA AllowanceKept ==
    ASSUME NEW W \in Seq(Worker), NEW rem \in Nat, NEW k \in DOMAIN W,
           NEW w \in Worker, w.attempt >= W[k].attempt,
           W[k].stage = "backoff" => w.attempt > 1,
           NEW V, V = [W EXCEPT ![k] = w]
    PROVE  LET lo == Allowed(W, rem, Chunk(k))
               hi == Allowed(V, rem, Chunk(k))
           IN  /\ lo \in Nat /\ hi \in Nat /\ lo <= hi
               /\ Allowed(W, rem, Chunk(k) + 1) \in Nat
               /\ lo + rem <= Allowed(W, rem, Chunk(k) + 1)
               /\ Allowed(V, rem, Chunk(k) + 1) \in Nat
               /\ hi + rem <= Allowed(V, rem, Chunk(k) + 1)
               /\ w.attempt > 1 => hi + rem + rem <= Allowed(V, rem, Chunk(k) + 1)
<1> DEFINE c == Chunk(k)
           lo == Allowed(W, rem, c)
           hi == Allowed(V, rem, c)
           lo1 == Allowed(W, rem, c + 1)
           hi1 == Allowed(V, rem, c + 1)
           sw == Slack(W) * rem
           sv == Slack(V) * rem
<1>1. c \in Nat
  BY WorkerTypes
<1>2. Slack(W) <= Slack(V)
  BY SlackGrows
<1>3. /\ lo \in Nat /\ lo1 \in Nat /\ lo1 = lo + sw /\ sw \in Nat /\ sw >= rem
      /\ hi \in Nat /\ hi1 \in Nat /\ hi1 = hi + sv /\ sv \in Nat /\ sv >= rem
      /\ Slack(V) = 2 => sv = rem + rem
  <2>1. c + 1 \in Nat
    BY <1>1
  <2> HIDE DEF c
  <2>2. QED
    BY <1>1, <2>1, Allowance
<1>4. lo <= hi
  <2>1. c <= c
    BY <1>1
  <2> HIDE DEF c
  <2>2. QED
    BY <1>1, <1>2, <2>1, AllowanceGrows
<1>5. w.attempt > 1 => Slack(V) = 2
  <2>1. k \in DOMAIN V /\ V[k] = w
    OBVIOUS
  <2>2. QED
    BY <2>1 DEF Slack
<1> HIDE DEF lo, hi, lo1, hi1, sw, sv
<1>6. /\ lo + rem <= lo1 /\ hi + rem <= hi1
      /\ w.attempt > 1 => hi + rem + rem <= hi1
  BY ONLY <1>3, <1>5, rem \in Nat
<1>7. QED
  BY <1>3, <1>4, <1>6 DEF lo, hi, lo1, hi1

\* A worker starts when its turn has come, with all the time the run has left.
LEMMA StartsInTime ==
    ASSUME NEW W \in Seq(Worker), NEW e \in Nat, NEW rem \in Nat,
           NEW kids \in SUBSET (DOMAIN W), InTime(W, e, rem, kids),
           NEW k \in DOMAIN W, W[k].stage = "queued", TurnCome(W, k),
           NEW w \in Worker, w.stage \in {"armed", "called"}, w.left = rem,
           w.attempt = W[k].attempt, w.wait = W[k].wait, w.since = W[k].since,
           NEW V, V = [W EXCEPT ![k] = w]
    PROVE  InTime(V, e, rem, kids)
<1> DEFINE lo == Allowed(W, rem, Chunk(k))
           hi == Allowed(V, rem, Chunk(k))
           hi1 == Allowed(V, rem, Chunk(k) + 1)
<1>1. w.attempt \in Nat /\ w.attempt >= W[k].attempt
  BY WorkerTypes DEF Worker
<1>2. lo \in Nat /\ hi \in Nat /\ hi1 \in Nat /\ lo <= hi /\ hi + rem <= hi1
  BY <1>1, AllowanceKept
<1>3. WaitsInTime(W, e, rem, kids, k)
  BY DEF InTime
<1>4. w.since = 0 /\ w.wait = 0 /\ (Bounded(kids, k) => e <= lo)
  BY <1>3 DEF WaitsInTime
<1>5. V[k] = w
  OBVIOUS
<1>6. AttemptInTime(V, e, rem, kids, k)
  <2> HIDE DEF lo, hi, hi1
  <2>1. Bounded(kids, k) => e <= hi + 0 /\ e <= hi1
    BY ONLY <1>2, <1>4, e \in Nat, rem \in Nat
  <2>2. rem \in 0..rem /\ 0 <= rem /\ 0 + rem = rem + 0
    OBVIOUS
  <2>3. QED
    BY ONLY <1>4, <1>5, <2>1, <2>2, w.left = rem DEF AttemptInTime, hi, hi1
<1>7. QED
  BY <1>1, <1>6, WorkerInTime

\* An attempt that is polled goes on as it was.
LEMMA CallsInTime ==
    ASSUME NEW W \in Seq(Worker), NEW e \in Nat, NEW rem \in Nat,
           NEW kids \in SUBSET (DOMAIN W), InTime(W, e, rem, kids),
           NEW k \in DOMAIN W, W[k].stage = "armed",
           NEW w \in Worker, w.stage = "called",
           w.attempt = W[k].attempt, w.wait = W[k].wait, w.since = W[k].since, w.left = W[k].left,
           NEW V, V = [W EXCEPT ![k] = w]
    PROVE  InTime(V, e, rem, kids)
<1> DEFINE lo == Allowed(W, rem, Chunk(k))
           hi == Allowed(V, rem, Chunk(k))
           lo1 == Allowed(W, rem, Chunk(k) + 1)
           hi1 == Allowed(V, rem, Chunk(k) + 1)
<1>1. w.attempt \in Nat /\ w.attempt >= W[k].attempt /\ w.since \in Nat
  BY WorkerTypes DEF Worker
<1>2. lo \in Nat /\ hi \in Nat /\ lo <= hi
  BY <1>1, AllowanceKept
<1>3. lo1 \in Nat /\ hi1 \in Nat /\ lo1 <= hi1
  <2>1. Chunk(k) + 1 \in Nat /\ Slack(W) <= Slack(V)
    BY <1>1, WorkerTypes, SlackGrows
  <2>2. Chunk(k) + 1 <= Chunk(k) + 1
    BY <2>1
  <2>3. QED
    BY ONLY <2>1, <2>2, rem \in Nat, Allowance, AllowanceGrows
<1>4. ASSUME k \notin kids
      PROVE  AttemptInTime(V, e, rem, kids, k)
  <2>1. AttemptInTime(W, e, rem, kids, k)
    BY <1>4 DEF InTime
  <2>2. V[k] = w
    OBVIOUS
  <2>3. Bounded(kids, k) => IF w.left = 0 THEN e <= lo1 ELSE e <= lo + w.since
    BY <2>1 DEF AttemptInTime
  <2> HIDE DEF lo, hi, lo1, hi1
  <2>4. Bounded(kids, k) => IF w.left = 0 THEN e <= hi1 ELSE e <= hi + w.since
    BY ONLY <1>1, <1>2, <1>3, <2>3, e \in Nat
  <2>5. /\ w.left \in 0..rem /\ w.wait <= w.left
        /\ w.left > 0 => w.since + w.left = rem + w.wait
    BY <2>1 DEF AttemptInTime
  <2>6. QED
    BY ONLY <2>2, <2>4, <2>5 DEF AttemptInTime, hi, hi1
<1>5. QED
  BY <1>1, <1>4, WorkerInTime

\* What an attempt that is not yet due has used.
LEMMA PolledInTime ==
    ASSUME NEW W \in Seq(Worker), NEW e \in Nat, NEW rem \in Nat, NEW kids,
           NEW k \in DOMAIN W, AttemptInTime(W, e, rem, kids, k), W[k].wait < W[k].left
    PROVE  /\ W[k].left \in 0..rem /\ W[k].since <= rem
           /\ Bounded(kids, k) => e <= Allowed(W, rem, Chunk(k)) + W[k].since
<1> DEFINE l == W[k].left
           s == W[k].since
           t == W[k].wait
<1>1. /\ l \in 0..rem /\ t < l
      /\ l > 0 => s + l = rem + t
      /\ Bounded(kids, k) /\ l # 0 => e <= Allowed(W, rem, Chunk(k)) + s
  BY DEF AttemptInTime
<1>2. s \in Nat /\ t \in Nat
  BY WorkerTypes
<1> HIDE DEF l, s, t
<1>3. l > 0 /\ l # 0 /\ s <= rem
  BY ONLY <1>1, <1>2, rem \in Nat
<1>4. QED
  BY <1>1, <1>3 DEF l, s, t

\* A worker ends when its turn has come, or its attempt before it is due; a
\* child run ends when it likes.
LEMMA EndsInTime ==
    ASSUME NEW W \in Seq(Worker), NEW e \in Nat, NEW rem \in Nat,
           NEW kids \in SUBSET (DOMAIN W), InTime(W, e, rem, kids),
           NEW k \in DOMAIN W,
           \/ W[k].stage = "queued" /\ TurnCome(W, k)
           \/ W[k].stage = "called" /\ (k \in kids \/ W[k].wait < W[k].left),
           NEW w \in Worker, w.stage = "done", w.attempt = W[k].attempt,
           NEW V, V = [W EXCEPT ![k] = w]
    PROVE  InTime(V, e, rem, kids)
<1> DEFINE lo == Allowed(W, rem, Chunk(k))
           lo1 == Allowed(W, rem, Chunk(k) + 1)
<1>1. w.attempt \in Nat /\ w.attempt >= W[k].attempt /\ W[k].since \in Nat
  <2>1. W[k].attempt \in Nat /\ W[k].since \in Nat
    BY WorkerTypes
  <2>2. QED
    BY <2>1
<1>2. lo \in Nat /\ lo1 \in Nat /\ lo + rem <= lo1
  <2>1. W[k].stage # "backoff"
    OBVIOUS
  <2>2. QED
    BY <1>1, <2>1, AllowanceKept
<1>3. ASSUME k \notin kids, Bounded(kids, k)
      PROVE  e <= lo1
  <2>1. CASE W[k].stage = "queued" /\ TurnCome(W, k)
    <3>1. e <= lo
      BY <1>3, <2>1 DEF InTime, WaitsInTime
    <3> HIDE DEF lo, lo1
    <3>2. QED
      BY ONLY <1>2, <3>1, e \in Nat, rem \in Nat
  <2>2. CASE W[k].stage = "called" /\ W[k].wait < W[k].left
    <3>1. AttemptInTime(W, e, rem, kids, k)
      BY <1>3, <2>2 DEF InTime
    <3>2. W[k].since <= rem /\ e <= lo + W[k].since
      BY <1>3, <2>2, <3>1, PolledInTime
    <3> HIDE DEF lo, lo1
    <3>3. QED
      BY ONLY <1>1, <1>2, <3>2, e \in Nat, rem \in Nat
  <2>3. QED
    BY <1>3, <2>1, <2>2
<1>4. QED
  BY <1>1, <1>3, WorkerInTime

\* A retry waits as long as the attempt that failed had left, at most.
LEMMA RetriesInTime ==
    ASSUME NEW W \in Seq(Worker), NEW e \in Nat, NEW rem \in Nat,
           NEW kids \in SUBSET (DOMAIN W), InTime(W, e, rem, kids),
           NEW k \in DOMAIN W, W[k].stage = "called", k \notin kids, W[k].wait < W[k].left,
           NEW w \in Worker, w.stage = "backoff",
           w.attempt = W[k].attempt, w.wait = 0, w.since = W[k].since, w.left = W[k].left,
           NEW V, V = [W EXCEPT ![k] = w]
    PROVE  InTime(V, e, rem, kids)
<1> DEFINE lo == Allowed(W, rem, Chunk(k))
           hi == Allowed(V, rem, Chunk(k))
<1>1. w.attempt \in Nat /\ w.attempt >= W[k].attempt /\ w.since \in Nat
  BY WorkerTypes DEF Worker
<1>2. lo \in Nat /\ hi \in Nat /\ lo <= hi
  BY <1>1, AllowanceKept
<1>3. AttemptInTime(W, e, rem, kids, k)
  BY DEF InTime
<1>4. /\ w.left \in 0..rem /\ w.since <= rem
      /\ Bounded(kids, k) => e <= lo + w.since
  BY <1>3, PolledInTime
<1>5. BackoffInTime(V, e, rem, kids, k)
  <2>1. V[k] = w
    OBVIOUS
  <2> HIDE DEF lo, hi
  <2> DEFINE s == w.since
  <2>2. s \in Nat /\ s <= rem /\ 0 <= w.left
    BY <1>1, <1>4
  <2>3. ASSUME Bounded(kids, k)
        PROVE  e <= hi + s /\ e <= hi + rem + 0
    <3>1. e <= lo + s
      BY <1>4, <2>3
    <3> HIDE DEF s
    <3>2. QED
      BY ONLY <1>2, <2>2, <3>1, e \in Nat, rem \in Nat
  <2>4. QED
    BY ONLY <1>4, <2>1, <2>2, <2>3, w.wait = 0 DEF BackoffInTime, hi
<1>6. QED
  BY <1>1, <1>5, WorkerInTime

\* The next attempt has what the worker has left of the time of the run.
LEMMA ResumesInTime ==
    ASSUME NEW W \in Seq(Worker), NEW e \in Nat, NEW rem \in Nat,
           NEW kids \in SUBSET (DOMAIN W), InTime(W, e, rem, kids),
           NEW k \in DOMAIN W, W[k].stage = "backoff", W[k].attempt > 0,
           NEW w \in Worker, w.stage \in {"armed", "called"}, w.left = Minus(rem, w.since),
           w.attempt = W[k].attempt + 1, w.wait = 0, w.since = W[k].since,
           NEW V, V = [W EXCEPT ![k] = w]
    PROVE  InTime(V, e, rem, kids)
<1> DEFINE lo == Allowed(W, rem, Chunk(k))
           hi == Allowed(V, rem, Chunk(k))
           hi1 == Allowed(V, rem, Chunk(k) + 1)
           t == W[k].wait
           l == W[k].left
           s == w.since
<1>1. /\ w.attempt \in Nat /\ W[k].attempt \in Nat /\ s \in Nat /\ t \in Nat
  BY WorkerTypes DEF Worker
<1>2. w.attempt >= W[k].attempt /\ w.attempt > 1
  BY <1>1
<1>3. /\ lo \in Nat /\ hi \in Nat /\ hi1 \in Nat /\ lo <= hi
      /\ hi + rem + rem <= hi1
  BY <1>2, AllowanceKept
<1>4. ASSUME k \notin kids
      PROVE  AttemptInTime(V, e, rem, kids, k)
  <2>1. BackoffInTime(W, e, rem, kids, k)
    BY <1>4 DEF InTime
  <2>2. /\ l \in 0..rem /\ t <= l
        /\ Bounded(kids, k) => /\ s < rem => e <= lo + s
                               /\ e <= lo + rem + t
    BY <2>1 DEF BackoffInTime
  <2>3. w.left = IF rem >= s THEN rem - s ELSE 0
    BY DEF Minus
  <2>4. V[k] = w
    OBVIOUS
  <2> DEFINE m == w.left
  <2> HIDE DEF lo, hi, hi1, t, l, s, m
  <2>5. /\ m \in 0..rem /\ 0 <= m
        /\ m > 0 => s + m = rem + 0
    BY ONLY <1>1, <2>3, rem \in Nat DEF m
  <2>6. Bounded(kids, k) => IF m = 0 THEN e <= hi1 ELSE e <= hi + s
    <3>1. m # 0 => s < rem
      BY ONLY <1>1, <2>3, rem \in Nat DEF m
    <3>2. t <= rem
      BY ONLY <1>1, <2>2, rem \in Nat
    <3>3. ASSUME Bounded(kids, k)
          PROVE  e <= hi1 /\ (e <= lo + s => e <= hi + s)
      <4>1. e <= lo + rem + t
        BY ONLY <2>2, <3>3
      <4>2. QED
        BY ONLY <1>1, <1>3, <3>2, <4>1, rem \in Nat, e \in Nat
    <3>4. QED
      BY ONLY <2>2, <3>1, <3>3
  <2>7. QED
    BY ONLY <2>4, <2>5, <2>6, w.wait = 0 DEF AttemptInTime, hi, hi1, s, m
<1>5. QED
  BY <1>2, <1>4, WorkerInTime

-----------------------------------------------------------------------------
(* The time of the executing effect. *)

\* What is known of an executing effect with a deadline.
LEMMA DeadlineFacts ==
    ASSUME TypeOK, Accounts, phase = "executing", state.plan.deadline_ms # Unset
    PROVE  /\ state.plan.deadline_ms \in Nat
           /\ RemainingTime(state) \in Nat
           /\ RemainingTime(state) <= state.plan.deadline_ms
           /\ work \in Seq(Worker) /\ clock.effect \in Nat
           /\ Children \in SUBSET DOMAIN work
           /\ IsProvider => Children = {} /\ DOMAIN work = {1}
           /\ \A i \in DOMAIN work : work[i] \in Worker /\ (i \in Children <=> IsChild(i))
           /\ \A w : LeftFor(w) = Minus(RemainingTime(state), w.since)
<1>1. state.plan.deadline_ms \in Nat /\ state.elapsed_ms \in Nat
  BY DEF TypeOK, AgentRunState, Plan
<1> DEFINE d == state.plan.deadline_ms
           p == state.elapsed_ms
           rem == RemainingTime(state)
<1>2. rem = Minus(d, p)
  BY DEF RemainingTime
<1>3. rem \in Nat /\ rem <= d /\ rem # Unset
  <2> HIDE DEF d, p, rem
  <2>1. d \in Nat /\ p \in Nat
    BY <1>1 DEF d, p
  <2>2. QED
    BY ONLY <1>2, <2>1 DEF Minus, Unset
<1>4. work \in Seq(Worker) /\ clock.effect \in Nat
  BY DEF TypeOK
<1>5. IsProvider => Children = {} /\ DOMAIN work = {1}
  BY EffectKinds DEF Accounts, Children, IsChild
<1>6. \A w : LeftFor(w) = Minus(RemainingTime(state), w.since)
  BY <1>3 DEF LeftFor
<1>7. QED
  BY <1>1, <1>3, <1>4, <1>5, <1>6 DEF Children

\* A chunk that may start follows chunks that are done.
LEMMA StartableHasTurn ==
    ASSUME TypeOK, NEW i \in DOMAIN work, Startable(i)
    PROVE  work[i].stage = "queued" /\ TurnCome(work, i)
<1>1. DOMAIN work \subseteq Nat \ {0}
  BY DEF TypeOK
<1>2. ASSUME NEW j \in DOMAIN work, Chunk(j) < Chunk(i)
      PROVE  work[j].stage = "done"
  <2>1. Chunk(i) \in Nat /\ Chunk(j) \in Nat /\ (i <= j => Chunk(i) <= Chunk(j))
    BY <1>1, ChunkOrder
  <2>2. ~(i <= j)
    BY <1>2, <2>1
  <2>3. j \in 1..(i - 1)
    BY <1>1, <2>2
  <2>4. QED
    BY <1>2, <2>3 DEF Startable
<1>3. QED
  BY <1>2 DEF TurnCome, Startable

\* While time passes no worker waits for its turn and could have it.
LEMMA NoneStartable ==
    ASSUME TypeOK, \A i \in DOMAIN work : ~Startable(i),
           NEW q \in DOMAIN work, work[q].stage = "queued"
    PROVE  ~TurnCome(work, q)
<1> DEFINE F == {n \in Nat : \A j \in DOMAIN work :
                                j <= n /\ work[j].stage = "queued" => ~TurnCome(work, j)}
<1>1. DOMAIN work \subseteq Nat \ {0} /\ DOMAIN work = 1..Len(work) /\ Len(work) \in Nat
  BY DEF TypeOK
<1>2. 0 \in F
  BY <1>1
<1>3. ASSUME NEW n \in F
      PROVE  n + 1 \in F
  <2>1. n \in Nat
    OBVIOUS
  <2>2. SUFFICES ASSUME NEW j \in DOMAIN work, j = n + 1, work[j].stage = "queued"
                 PROVE  ~TurnCome(work, j)
    <3>1. \A j \in DOMAIN work : j <= n + 1 => j <= n \/ j = n + 1
      BY <1>1, <2>1
    <3>2. QED
      BY <1>3, <2>1, <3>1
  <2>3. PICK l \in 1..(j - 1) :
           ~(IF Chunk(l) < Chunk(j) THEN work[l].stage = "done" ELSE work[l].stage # "queued")
    BY <2>2 DEF Startable
  <2>4. l \in DOMAIN work /\ l <= n /\ l <= j
    BY <1>1, <2>1, <2>2
  <2>5. CASE Chunk(l) < Chunk(j)
    BY <2>3, <2>4, <2>5 DEF TurnCome
  <2>6. CASE ~(Chunk(l) < Chunk(j))
    <3>1. work[l].stage = "queued"
      BY <2>3, <2>6
    <3>2. ~TurnCome(work, l)
      BY <1>3, <2>4, <3>1
    <3>3. PICK m \in DOMAIN work : Chunk(m) < Chunk(l) /\ work[m].stage # "done"
      BY <3>2 DEF TurnCome
    <3>4. Chunk(m) \in Nat /\ Chunk(l) \in Nat /\ Chunk(j) \in Nat /\ Chunk(l) <= Chunk(j)
      BY <1>1, <2>4, ChunkOrder
    <3>5. Chunk(m) < Chunk(j)
      BY <3>3, <3>4
    <3>6. QED
      BY <3>3, <3>5 DEF TurnCome
  <2>7. QED
    BY <2>5, <2>6
<1> HIDE DEF F
<1>4. F = Nat
  <2>1. F \in SUBSET Nat
    BY DEF F
  <2>2. QED
    BY <1>2, <1>3, <2>1, NatSetInduction
<1>5. q \in F
  BY <1>1, <1>4
<1>6. q <= q
  BY <1>1
<1>7. QED
  BY <1>5, <1>6 DEF F

\* A step that leaves the state and the place of the task alone changes nothing
\* but workers and the clock.
LEMMA TimelyAfter ==
    ASSUME TypeOK, state' = state, DOMAIN work' = DOMAIN work,
           phase' = "executing" /\ state.plan.deadline_ms # Unset =>
              /\ \A i \in DOMAIN work : work'[i].attempt > 0
              /\ InTime(work', clock'.effect, RemainingTime(state), Children)
    PROVE  Timely'
<1>1. Children' = Children
  BY DEF Children, IsChild, IsProvider, Effect, ToolOf
<1>2. RemainingTime(state)' = RemainingTime(state)
  OBVIOUS
<1>3. QED
  BY <1>1, <1>2 DEF Timely

\* A step of one worker that keeps what it may still take.
LEMMA MovedTimely ==
    ASSUME TypeOK, state' = state, clock' = clock, NEW k \in DOMAIN work, NEW w,
           w.attempt > 0, work' = [work EXCEPT ![k] = w],
           state.plan.deadline_ms # Unset =>
              /\ \A i \in DOMAIN work : work[i].attempt > 0
              /\ InTime([work EXCEPT ![k] = w], clock.effect, RemainingTime(state), Children)
    PROVE  Timely'
<1>1. DOMAIN work' = DOMAIN work
  OBVIOUS
<1>2. ASSUME state.plan.deadline_ms # Unset
      PROVE  \A i \in DOMAIN work : work'[i].attempt > 0
  BY <1>2
<1>3. QED
  BY <1>1, <1>2, TimelyAfter

\* A millisecond leaves what the workers may still take.
LEMMA TickTimely ==
    ASSUME TypeOK, Accounts, Timely, Tick
    PROVE  Timely'
<1> DEFINE cap == state.plan.deadline_ms
           rem == RemainingTime(state)
           e == clock.effect
           f == clock'.effect
<1>1. work' = [i \in DOMAIN work |->
                   IF work[i].stage \in {"queued", "done"}
                   THEN work[i]
                   ELSE [work[i] EXCEPT !.wait = Advance(@, cap), !.since = Advance(@, cap)]]
  BY DEF Tick
<1>2. state' = state /\ phase' = phase /\ DOMAIN work' = DOMAIN work
  BY <1>1 DEF Tick
<1>3. ASSUME phase = "executing", state.plan.deadline_ms # Unset
      PROVE  /\ \A i \in DOMAIN work : work'[i].attempt > 0
             /\ InTime(work', f, rem, Children)
  <2>1. /\ cap \in Nat /\ rem \in Nat /\ rem <= cap /\ e \in Nat /\ work \in Seq(Worker)
        /\ Children \in SUBSET DOMAIN work
        /\ \A i \in DOMAIN work : work[i] \in Worker /\ (i \in Children <=> IsChild(i))
    BY <1>3, DeadlineFacts
  <2>2. /\ \A i \in DOMAIN work : work[i].attempt > 0
        /\ InTime(work, e, rem, Children)
    BY <1>3 DEF Timely
  <2>3. f \in Nat /\ f <= e + 1
    <3>1. f = Advance(e, PastEveryBound)
      BY <1>3 DEF Tick
    <3> HIDE DEF e, f
    <3>2. f = e \/ f = e + 1
      BY <3>1 DEF Advance
    <3>3. QED
      BY ONLY <2>1, <3>2
  <2>4. \A i \in DOMAIN work : ~Startable(i) /\ (InFlight(i) => ~Due(work[i]))
    BY <1>3 DEF Tick
  <2>5. \A i \in DOMAIN work : work[i].stage = "queued" => ~TurnCome(work, i)
    BY <2>4, NoneStartable
  <2>6. ASSUME NEW i \in DOMAIN work, work[i].stage \in {"armed", "called", "backoff"},
               i \notin Children
        PROVE  work[i].wait < work[i].left
    <3>1. InFlight(i)
      BY <2>1, <2>6 DEF InFlight
    <3>2. ~Due(work[i])
      BY <2>4, <3>1
    <3>3. work[i].left \in 0..rem /\ work[i].wait \in Nat
      BY <2>1, <2>2, <2>6, WorkerTypes DEF InTime, AttemptInTime, BackoffInTime
    <3>4. work[i].left # Unset
      BY <2>1, <3>3 DEF Unset
    <3>5. ~(work[i].wait >= work[i].left)
      BY <2>6, <3>2, <3>4 DEF Due
    <3>6. QED
      BY <2>1, <3>3, <3>5
  <2>7. \A i \in DOMAIN work : work'[i].attempt > 0
    BY <1>1, <2>1, <2>2 DEF Worker
  <2>8. InTime(work', f, rem, Children)
    <3> HIDE DEF rem, e, f, cap
    <3>1. QED
      BY ONLY <1>1, <2>1, <2>2, <2>3, <2>5, <2>6, TickInTime
  <2>9. QED
    BY <2>7, <2>8
<1>4. QED
  BY ONLY TypeOK, <1>2, <1>3, TimelyAfter

\* An attempt that has not fired its timer.
LEMMA NotDueYet ==
    ASSUME TypeOK, NEW i \in DOMAIN work, NEW e, NEW rem \in Nat, NEW kids,
           work[i].stage \in {"armed", "called"}, AttemptInTime(work, e, rem, kids, i),
           ~Due(work[i])
    PROVE  work[i].wait < work[i].left
<1>1. work[i].left \in 0..rem /\ work[i].wait \in Nat
  BY WorkerTypes DEF AttemptInTime, TypeOK
<1>2. work[i].left # Unset
  BY <1>1 DEF Unset
<1>3. ~(work[i].wait >= work[i].left)
  BY <1>2 DEF Due
<1>4. QED
  BY <1>1, <1>3

\* A step of a provider call that stays in the effect.
LEMMA ProviderTimely ==
    ASSUME TypeOK, Accounts, Timely, phase = "executing", IsProvider,
           (AdmitProvider /\ phase' = "executing") \/ CallProvider \/ ProviderRetries
    PROVE  Timely'
<1>1. /\ 1 \in DOMAIN work /\ work[1] \in Worker /\ work \in Seq(Worker)
      /\ DOMAIN work = {1}
  BY EffectKinds DEF Accounts, TypeOK
<1>2. state' = state /\ clock' = clock
  BY DEF AdmitProvider, CallProvider, ProviderRetries, InEffect
<1> DEFINE rem == RemainingTime(state)
           e == clock.effect
<1>3. ASSUME state.plan.deadline_ms # Unset
      PROVE  /\ rem \in Nat /\ e \in Nat /\ Children = {}
             /\ \A i \in DOMAIN work : work[i].attempt > 0
             /\ InTime(work, e, rem, Children)
             /\ \A w : LeftFor(w) = Minus(rem, w.since)
  BY <1>3, DeadlineFacts DEF Timely
<1>4. Children \in SUBSET DOMAIN work
  BY DEF Children
<1>5. ASSUME state.plan.deadline_ms = Unset
      PROVE  Timely'
  BY <1>2, <1>5 DEF Timely
<1>6. ASSUME state.plan.deadline_ms # Unset, NEW w \in Worker, work' = [work EXCEPT ![1] = w],
             w.attempt = work[1].attempt, InTime([work EXCEPT ![1] = w], e, rem, Children)
      PROVE  Timely'
  BY <1>1, <1>2, <1>3, <1>6, MovedTimely
<1>7. CASE AdmitProvider /\ phase' = "executing"
  <2> DEFINE w == [work[1] EXCEPT !.stage = "armed", !.left = LeftFor(work[1])]
  <2>1. work[1].stage = "queued" /\ work' = [work EXCEPT ![1] = w]
    BY <1>7 DEF AdmitProvider
  <2>2. ASSUME state.plan.deadline_ms # Unset
        PROVE  Timely'
    <3>1. TurnCome(work, 1)
      BY <1>1, ChunkOrder DEF TurnCome
    <3>2. work[1].since = 0
      BY <1>1, <1>3, <2>1, <2>2 DEF InTime, WaitsInTime
    <3>3. LeftFor(work[1]) = rem
      BY <1>3, <2>2, <3>2 DEF Minus
    <3>4. /\ w \in Worker /\ w.stage = "armed" /\ w.left = rem
          /\ w.attempt = work[1].attempt /\ w.wait = work[1].wait /\ w.since = work[1].since
      BY <1>1, <1>3, <2>2, <3>3 DEF Worker
    <3> HIDE DEF w, rem, e
    <3>5. InTime([work EXCEPT ![1] = w], e, rem, Children)
      BY <1>1, <1>3, <1>4, <2>1, <2>2, <3>1, <3>4, StartsInTime
    <3>6. QED
      BY <1>6, <2>1, <2>2, <3>4, <3>5
  <2>3. QED
    BY <1>5, <2>2
<1>8. CASE CallProvider
  <2> DEFINE w == [work[1] EXCEPT !.stage = "called"]
  <2>1. work[1].stage = "armed" /\ work' = [work EXCEPT ![1] = w]
    BY <1>8 DEF CallProvider
  <2>2. ASSUME state.plan.deadline_ms # Unset
        PROVE  Timely'
    <3>1. /\ w \in Worker /\ w.stage = "called" /\ w.left = work[1].left
          /\ w.attempt = work[1].attempt /\ w.wait = work[1].wait /\ w.since = work[1].since
      BY <1>1 DEF Worker
    <3> HIDE DEF w, rem, e
    <3>2. InTime([work EXCEPT ![1] = w], e, rem, Children)
      BY <1>1, <1>3, <1>4, <2>1, <2>2, <3>1, CallsInTime
    <3>3. QED
      BY <1>6, <2>1, <2>2, <3>1, <3>2
  <2>3. QED
    BY <1>5, <2>2
<1>9. CASE ProviderRetries
  <2> DEFINE w == [work[1] EXCEPT !.stage = "backoff", !.wait = 0]
  <2>1. /\ work[1].stage = "called" /\ work' = [work EXCEPT ![1] = w]
        /\ ~Due(work[1])
    BY <1>9 DEF ProviderRetries, Polled
  <2>2. ASSUME state.plan.deadline_ms # Unset
        PROVE  Timely'
    <3>1. /\ w \in Worker /\ w.stage = "backoff" /\ w.left = work[1].left
          /\ w.attempt = work[1].attempt /\ w.wait = 0 /\ w.since = work[1].since
      BY <1>1 DEF Worker
    <3>2. work[1].wait < work[1].left
      <4>1. AttemptInTime(work, e, rem, Children, 1)
        BY <1>1, <1>3, <2>1, <2>2 DEF InTime
      <4>2. QED
        BY <1>1, <1>3, <2>1, <2>2, <4>1, NotDueYet
    <3> HIDE DEF w, rem, e
    <3>3. InTime([work EXCEPT ![1] = w], e, rem, Children)
      BY <1>1, <1>3, <1>4, <2>1, <2>2, <3>1, <3>2, RetriesInTime
    <3>4. QED
      BY <1>6, <2>1, <2>2, <3>1, <3>3
  <2>3. QED
    BY <1>5, <2>2
<1>10. QED
  BY <1>7, <1>8, <1>9

\* A step of a tool of the batch.
LEMMA ToolTimely ==
    ASSUME TypeOK, Accounts, Timely, phase = "executing", ~IsProvider,
           ToolUnavailable \/ ToolRefused \/ ToolStarts \/ ToolEnds \/ ToolRetries
    PROVE  Timely'
<1>1. work \in Seq(Worker) /\ \A i \in DOMAIN work : work[i] \in Worker
  BY DEF TypeOK
<1>2. state' = state /\ clock' = clock
  BY DEF ToolUnavailable, ToolRefused, EndsUnstarted, ToolStarts, ToolEnds, ToolRetries,
         InTools, InEffect
<1> DEFINE rem == RemainingTime(state)
           e == clock.effect
<1>3. ASSUME state.plan.deadline_ms # Unset
      PROVE  /\ rem \in Nat /\ e \in Nat
             /\ \A i \in DOMAIN work : work[i].attempt > 0
             /\ InTime(work, e, rem, Children)
             /\ \A w : LeftFor(w) = Minus(rem, w.since)
             /\ \A i \in DOMAIN work : i \in Children <=> IsChild(i)
  BY <1>3, DeadlineFacts DEF Timely
<1>4. Children \in SUBSET DOMAIN work
  BY DEF Children
<1>5. ASSUME state.plan.deadline_ms = Unset
      PROVE  Timely'
  BY <1>2, <1>5 DEF Timely
<1>6. ASSUME state.plan.deadline_ms # Unset, NEW i \in DOMAIN work,
             NEW w \in Worker, work' = [work EXCEPT ![i] = w],
             w.attempt = work[i].attempt, InTime([work EXCEPT ![i] = w], e, rem, Children)
      PROVE  Timely'
  BY <1>2, <1>3, <1>6, MovedTimely
<1>7. ASSUME state.plan.deadline_ms # Unset, NEW i \in DOMAIN work, EndsUnstarted(i)
      PROVE  Timely'
  <2> DEFINE w == [work[i] EXCEPT !.stage = "done"]
  <2>1. /\ work[i].stage = "queued" /\ TurnCome(work, i)
        /\ work' = [work EXCEPT ![i] = w]
    BY <1>7, StartableHasTurn DEF EndsUnstarted
  <2>2. w \in Worker /\ w.stage = "done" /\ w.attempt = work[i].attempt
    BY <1>1 DEF Worker
  <2> HIDE DEF w, rem, e
  <2>3. InTime([work EXCEPT ![i] = w], e, rem, Children)
    BY <1>1, <1>3, <1>4, <1>7, <2>1, <2>2, EndsInTime
  <2>4. QED
    BY <1>6, <1>7, <2>1, <2>2, <2>3
<1>8. ASSUME state.plan.deadline_ms # Unset, ToolStarts
      PROVE  Timely'
  <2>1. PICK i \in DOMAIN work :
          /\ Startable(i)
          /\ work' = [work EXCEPT ![i].stage = "called", ![i].left = LeftFor(work[i])]
    BY <1>8 DEF ToolStarts
  <2> DEFINE w == [work[i] EXCEPT !.stage = "called", !.left = LeftFor(work[i])]
  <2>2. /\ work[i].stage = "queued" /\ TurnCome(work, i)
        /\ work' = [work EXCEPT ![i] = w]
    BY <2>1, StartableHasTurn
  <2>3. work[i].since = 0
    BY <1>3, <1>8, <2>2 DEF InTime, WaitsInTime
  <2>4. LeftFor(work[i]) = rem
    BY <1>3, <1>8, <2>3 DEF Minus
  <2>5. /\ w \in Worker /\ w.stage = "called" /\ w.left = rem
        /\ w.attempt = work[i].attempt /\ w.wait = work[i].wait /\ w.since = work[i].since
    BY <1>1, <1>3, <1>8, <2>4 DEF Worker
  <2> HIDE DEF w, rem, e
  <2>6. InTime([work EXCEPT ![i] = w], e, rem, Children)
    BY <1>1, <1>3, <1>4, <1>8, <2>2, <2>5, StartsInTime
  <2>7. QED
    BY <1>6, <1>8, <2>2, <2>5, <2>6
<1>9. ASSUME state.plan.deadline_ms # Unset, NEW i \in DOMAIN work, Polled(i), ~IsChild(i)
      PROVE  /\ work[i].stage = "called" /\ i \notin Children
             /\ work[i].wait < work[i].left
  <2>1. work[i].stage = "called" /\ i \notin Children /\ ~Due(work[i])
    BY <1>3, <1>9 DEF Polled
  <2>2. AttemptInTime(work, e, rem, Children, i)
    BY <1>3, <1>9, <2>1 DEF InTime
  <2>3. QED
    BY <1>3, <1>9, <2>1, <2>2, NotDueYet
<1>10. ASSUME state.plan.deadline_ms # Unset, ToolEnds
       PROVE  Timely'
  <2>1. PICK i \in DOMAIN work :
          Polled(i) /\ ~IsChild(i) /\ work' = [work EXCEPT ![i].stage = "done"]
    BY <1>10 DEF ToolEnds
  <2> DEFINE w == [work[i] EXCEPT !.stage = "done"]
  <2>2. w \in Worker /\ w.stage = "done" /\ w.attempt = work[i].attempt
    BY <1>1 DEF Worker
  <2>3. work' = [work EXCEPT ![i] = w]
    BY <2>1
  <2>4. /\ work[i].stage = "called" /\ work[i].wait < work[i].left
    BY <1>9, <1>10, <2>1
  <2> HIDE DEF w, rem, e
  <2>5. InTime([work EXCEPT ![i] = w], e, rem, Children)
    BY <1>1, <1>3, <1>4, <1>10, <2>2, <2>4, EndsInTime
  <2>6. QED
    BY <1>6, <1>10, <2>2, <2>3, <2>5
<1>11. ASSUME state.plan.deadline_ms # Unset, ToolRetries
       PROVE  Timely'
  <2>1. PICK i \in DOMAIN work :
          /\ Polled(i) /\ ~IsChild(i)
          /\ work' = [work EXCEPT ![i].stage = "backoff", ![i].wait = 0]
    BY <1>11 DEF ToolRetries
  <2> DEFINE w == [work[i] EXCEPT !.stage = "backoff", !.wait = 0]
  <2>2. /\ w \in Worker /\ w.stage = "backoff" /\ w.left = work[i].left
        /\ w.attempt = work[i].attempt /\ w.wait = 0 /\ w.since = work[i].since
    BY <1>1 DEF Worker
  <2>3. work' = [work EXCEPT ![i] = w]
    BY <2>1
  <2>4. work[i].stage = "called" /\ i \notin Children /\ work[i].wait < work[i].left
    BY <1>9, <1>11, <2>1
  <2> HIDE DEF w, rem, e
  <2>5. InTime([work EXCEPT ![i] = w], e, rem, Children)
    BY <1>1, <1>3, <1>4, <1>11, <2>2, <2>4, RetriesInTime
  <2>6. QED
    BY <1>6, <1>11, <2>2, <2>3, <2>5
<1>12. QED
  BY <1>5, <1>7, <1>8, <1>10, <1>11 DEF ToolUnavailable, ToolRefused

\* A step of a child run, and the end of a backoff.
LEMMA OthersTimely ==
    ASSUME TypeOK, Accounts, Timely, phase = "executing",
           ChildStarts \/ ChildEnds \/ BackoffEnds
    PROVE  Timely'
<1>1. work \in Seq(Worker) /\ \A i \in DOMAIN work : work[i] \in Worker
  BY DEF TypeOK
<1>2. state' = state /\ clock' = clock
  BY DEF ChildStarts, ChildEnds, ChildReports, BackoffEnds, InTools, InEffect
<1> DEFINE rem == RemainingTime(state)
           e == clock.effect
<1>3. ASSUME state.plan.deadline_ms # Unset
      PROVE  /\ rem \in Nat /\ e \in Nat
             /\ \A i \in DOMAIN work : work[i].attempt > 0
             /\ InTime(work, e, rem, Children)
             /\ \A w : LeftFor(w) = Minus(rem, w.since)
             /\ \A i \in DOMAIN work : i \in Children <=> IsChild(i)
  BY <1>3, DeadlineFacts DEF Timely
<1>4. Children \in SUBSET DOMAIN work
  BY DEF Children
<1>5. ASSUME state.plan.deadline_ms = Unset
      PROVE  Timely'
  BY <1>2, <1>5 DEF Timely
<1>6. ASSUME state.plan.deadline_ms # Unset, NEW i \in DOMAIN work,
             NEW w \in Worker, work' = [work EXCEPT ![i] = w],
             w.attempt > 0, InTime([work EXCEPT ![i] = w], e, rem, Children)
      PROVE  Timely'
  BY <1>2, <1>3, <1>6, MovedTimely
<1>7. ASSUME state.plan.deadline_ms # Unset, ChildStarts
      PROVE  Timely'
  <2>1. PICK i \in DOMAIN work :
          /\ Startable(i) /\ IsChild(i)
          /\ work' = [work EXCEPT ![i].stage = "called", ![i].left = RemainingTime(state)]
    BY <1>7 DEF ChildStarts
  <2> DEFINE w == [work[i] EXCEPT !.stage = "called", !.left = RemainingTime(state)]
  <2>2. work[i].stage = "queued" /\ work' = [work EXCEPT ![i] = w] /\ i \in Children
    BY <1>3, <1>7, <2>1 DEF Startable
  <2>3. w \in Worker /\ w.stage = "called" /\ w.attempt = work[i].attempt
    BY <1>1, <1>3, <1>7 DEF Worker
  <2>4. w.attempt \in Nat /\ w.attempt >= work[i].attempt /\ w.attempt > 0
    <3>1. work[i].attempt \in Nat /\ work[i].attempt > 0
      BY <1>1, <1>3, <1>7, WorkerTypes
    <3> HIDE DEF w
    <3>2. QED
      BY ONLY <2>3, <3>1
  <2> HIDE DEF w, rem, e
  <2>5. InTime([work EXCEPT ![i] = w], e, rem, Children)
    BY <1>1, <1>3, <1>4, <1>7, <2>2, <2>3, <2>4, WorkerInTime
  <2>6. QED
    BY <1>6, <1>7, <2>2, <2>3, <2>4, <2>5
<1>8. ASSUME state.plan.deadline_ms # Unset, NEW i \in DOMAIN work, ChildReports(i)
      PROVE  Timely'
  <2> DEFINE w == [work[i] EXCEPT !.stage = "done"]
  <2>1. /\ work[i].stage = "called" /\ i \in Children
        /\ work' = [work EXCEPT ![i] = w]
    BY <1>3, <1>8 DEF ChildReports, Running
  <2>2. w \in Worker /\ w.stage = "done" /\ w.attempt = work[i].attempt
    BY <1>1 DEF Worker
  <2>3. w.attempt > 0
    BY <1>3, <1>8, <2>2
  <2> HIDE DEF w, rem, e
  <2>4. InTime([work EXCEPT ![i] = w], e, rem, Children)
    BY <1>1, <1>3, <1>4, <1>8, <2>1, <2>2, EndsInTime
  <2>5. QED
    BY <1>6, <1>8, <2>1, <2>2, <2>3, <2>4
<1>9. ASSUME state.plan.deadline_ms # Unset, BackoffEnds
      PROVE  Timely'
  <2> DEFINE stage == IF IsProvider THEN "armed" ELSE "called"
  <2>1. PICK i \in DOMAIN work :
          /\ work[i].stage = "backoff"
          /\ work' = [work EXCEPT ![i] =
                         [work[i] EXCEPT !.stage = stage, !.attempt = work[i].attempt + 1,
                                         !.left = LeftFor(work[i]), !.wait = 0]]
    BY <1>9 DEF BackoffEnds
  <2> DEFINE w == [work[i] EXCEPT !.stage = stage, !.attempt = work[i].attempt + 1,
                                  !.left = LeftFor(work[i]), !.wait = 0]
  <2>2. stage \in {"armed", "called"}
    OBVIOUS
  <2> HIDE DEF stage
  <2>3. work[i] \in Worker /\ work[i].attempt \in Nat /\ work[i].attempt > 0
    BY <1>1, <1>3, <1>9, WorkerTypes
  <2>4. LeftFor(work[i]) = Minus(rem, work[i].since) /\ LeftFor(work[i]) \in Nat \cup {Unset}
    BY <1>3, <1>9, <2>3, TimeTypes
  <2>5. work[i].attempt + 1 \in Nat /\ work[i].attempt + 1 > 0
    BY <2>3
  <2>6. w \in Worker
    BY <2>2, <2>3, <2>4, <2>5 DEF Worker
  <2>7. /\ w.stage \in {"armed", "called"} /\ w.wait = 0 /\ w.since = work[i].since
        /\ w.attempt = work[i].attempt + 1 /\ w.left = Minus(rem, w.since)
    BY <2>2, <2>3, <2>4 DEF Worker
  <2>8. work' = [work EXCEPT ![i] = w] /\ w.attempt > 0
    BY <2>1, <2>5, <2>7
  <2> HIDE DEF w, rem, e
  <2>9. InTime([work EXCEPT ![i] = w], e, rem, Children)
    BY <1>1, <1>3, <1>4, <1>9, <2>1, <2>3, <2>6, <2>7, ResumesInTime
  <2>10. QED
    BY <1>6, <1>9, <2>6, <2>8, <2>9
<1>10. QED
  BY <1>5, <1>7, <1>8, <1>9 DEF ChildEnds

\* An effect begins.
LEMMA StartTimely ==
    ASSUME TypeOK, StartEffect
    PROVE  Timely'
<1> DEFINE n == IF Effect.kind = "tool-batch" THEN Len(state.pending_tools) ELSE 1
           rem == RemainingTime(state)
<1>1. state' = state /\ clock'.effect = 0 /\ work' = [i \in 1..n |-> Queued]
  BY DEF StartEffect, TypeOK
<1>2. n \in Nat
  BY DEF TypeOK, AgentRunState
<1>3. state.plan.deadline_ms \in Nat \cup {Unset} /\ state.elapsed_ms \in Nat
  BY DEF TypeOK, AgentRunState, Plan
<1>4. ASSUME state.plan.deadline_ms # Unset
      PROVE  rem \in Nat
  BY <1>3, <1>4 DEF RemainingTime, Minus
<1>5. RemainingTime(state)' = rem
  BY <1>1
<1> HIDE DEF n, rem
<1>6. \A i \in DOMAIN work' : work'[i].attempt > 0
  BY <1>1, <1>2 DEF Queued
<1>7. ASSUME state.plan.deadline_ms # Unset
      PROVE  InTime(work', 0, rem, Children')
  BY <1>1, <1>2, <1>4, <1>7, QueuedInTime
<1>8. QED
  BY <1>1, <1>5, <1>6, <1>7 DEF Timely

LEMMA StepKeepsTimely ==
    ASSUME Inv, Timely, [Next]_vars
    PROVE  Timely'
<1>1. TypeOK /\ Accounts
  BY DEF Inv
<1>2. ASSUME UNCHANGED <<state, phase, work, clock>>
      PROVE  Timely'
  <2>1. Children' = Children
    BY <1>2 DEF Children, IsChild, IsProvider, Effect, ToolOf
  <2>2. RemainingTime(state)' = RemainingTime(state)
    BY <1>2
  <2>3. QED
    BY <1>2, <2>1, <2>2 DEF Timely
<1>3. UserCancels \/ Over \/ UNCHANGED vars => UNCHANGED <<state, phase, work, clock>>
  BY DEF UserCancels, Over, vars
<1>4. CASE Tick
  BY <1>1, <1>4, TickTimely
<1>5. CASE StartEffect
  BY <1>1, <1>5, StartTimely
<1>6. CASE (AdmitProvider /\ phase' = "executing") \/ CallProvider \/ ProviderRetries
  <2>1. phase = "executing" /\ IsProvider
    BY <1>6 DEF AdmitProvider, CallProvider, ProviderRetries, Polled
  <2>2. QED
    BY <1>1, <1>6, <2>1, ProviderTimely
<1>7. CASE ToolUnavailable \/ ToolRefused \/ ToolStarts \/ ToolEnds \/ ToolRetries
  <2>1. phase = "executing" /\ ~IsProvider
    BY <1>7 DEF ToolUnavailable, ToolRefused, EndsUnstarted, ToolStarts, ToolEnds, ToolRetries,
                Polled
  <2>2. QED
    BY <1>1, <1>7, <2>1, ToolTimely
<1>8. CASE ChildStarts \/ ChildEnds \/ BackoffEnds
  <2>1. phase = "executing"
    BY <1>8 DEF ChildStarts, ChildEnds, ChildReports, BackoffEnds
  <2>2. QED
    BY <1>1, <1>8, <2>1, OthersTimely
<1>9. ASSUME phase' # "executing"
      PROVE  Timely'
  BY <1>9 DEF Timely
<1>10. Return("ok") \/ Return("error") => phase' # "executing"
  BY DEF Return
<1>11. FinishCancelled \/ FinishFailed => phase' # "executing"
  BY <1>10 DEF FinishCancelled, FinishFailed
<1>12. StartRun \/ StopCancelled \/ StopExhausted \/ StopIdle \/ WorkCancelled \/ WorkTimesOut
          => phase' # "executing"
  BY <1>10, <1>11
  DEF StartRun, StopCancelled, StopExhausted, StopIdle, WorkCancelled, WorkTimesOut
<1>13. ToolsDone \/ CommitOutcome \/ SettleLate \/ SettleCompleted \/ SettleContinues \/ Publish
          => phase' # "executing"
  BY <1>10, <1>11
  DEF ToolsDone, CommitOutcome, SettleLate, SettleCompleted, SettleContinues, Publish
<1>14. ProviderAnswers \/ ProviderMisbehaves \/ ProviderFails \/ ContextRejected
          => phase' # "executing"
  BY <1>11 DEF ProviderAnswers, ProviderMisbehaves, ProviderFails, ContextRejected
<1>15. QED
  BY <1>2, <1>3, <1>4, <1>5, <1>6, <1>7, <1>8, <1>9, <1>12, <1>13, <1>14
  DEF Next, TaskStep, Answer

\* What workers may still take bounds what their effect has taken.
LEMMA TimelyBounds == TypeOK /\ Accounts /\ Timely => DeadlineBoundsEffects
<1> DEFINE rem == RemainingTime(state)
           e == clock.effect
<1> SUFFICES ASSUME TypeOK, Accounts, Timely, phase = "executing",
                    state.plan.deadline_ms # Unset,
                    NEW i \in DOMAIN work, InFlight(i),
                    \A j \in DOMAIN work : Chunk(j) < Chunk(i) => ~IsChild(j)
             PROVE  e <= (IF Retried THEN 2 ELSE 1) * (Chunk(i) + 1) * rem
  BY DEF DeadlineBoundsEffects
<1> DEFINE c == Chunk(i)
           lo == Allowed(work, rem, c)
           lo1 == Allowed(work, rem, c + 1)
           m == Slack(work) * rem
           l == work[i].left
           t == work[i].wait
           s == work[i].since
<1>1. /\ rem \in Nat /\ e \in Nat /\ InTime(work, e, rem, Children)
      /\ work \in Seq(Worker)
      /\ i \notin Children /\ Bounded(Children, i)
  <2>1. \A j \in DOMAIN work : j \in Children <=> IsChild(j)
    BY DeadlineFacts
  <2>2. Bounded(Children, i)
    BY <2>1 DEF Bounded, Children
  <2>3. QED
    BY <2>1, <2>2, DeadlineFacts DEF Timely, InFlight
<1>2. c \in Nat /\ c + 1 \in Nat /\ s \in Nat /\ t \in Nat
  BY <1>1, WorkerTypes
<1>3. /\ lo \in Nat /\ lo1 \in Nat /\ lo1 = lo + m /\ m \in Nat /\ m >= rem
      /\ Slack(work) = 2 => m = rem + rem
  <2> HIDE DEF rem, c
  <2>1. QED
    BY ONLY <1>1, <1>2, Allowance DEF lo, lo1, m
<1>4. e <= lo1
  <2>1. CASE work[i].stage \in {"armed", "called"}
    <3>1. /\ l \in 0..rem /\ t <= l
          /\ l > 0 => s + l = rem + t
          /\ IF l = 0 THEN e <= lo1 ELSE e <= lo + s
      BY <1>1, <2>1 DEF InTime, AttemptInTime
    <3> HIDE DEF rem, e, c, lo, lo1, m, l, t, s
    <3>2. l # 0 => s <= rem
      BY ONLY <1>1, <1>2, <3>1
    <3>3. QED
      BY ONLY <1>1, <1>2, <1>3, <3>1, <3>2
  <2>2. CASE work[i].stage = "backoff"
    <3>1. l \in 0..rem /\ t <= l /\ e <= lo + rem + t
      BY <1>1, <2>2 DEF InTime, BackoffInTime
    <3>2. Slack(work) = 2
      BY <2>2 DEF Slack
    <3> HIDE DEF rem, e, c, lo, lo1, m, l, t, s
    <3>3. t <= rem
      BY ONLY <1>1, <1>2, <3>1
    <3>4. QED
      BY ONLY <1>1, <1>2, <1>3, <3>1, <3>2, <3>3
  <2>3. QED
    BY <2>1, <2>2 DEF InFlight
<1>5. Slack(work) = IF Retried THEN 2 ELSE 1
  BY DEF Slack, Retried
<1>6. QED
  BY <1>4, <1>5 DEF Allowed

\* When a run has a deadline, what is in flight in the n-th chunk of an effect
\* stops within n times the time the run had left when the effect began, or
\* within twice as much when something was retried: each attempt gets what its
\* worker has left of that time, a backoff what its attempt had, and each chunk
\* starts with all of it (deadline_sleep and wait_for_retry in run/effects.rs).
THEOREM EffectsEndInTime == Spec => []DeadlineBoundsEffects
<1>1. Init => Timely
  BY DEF Init, Timely
<1>2. Inv /\ Timely /\ [Next]_vars => Timely'
  BY StepKeepsTimely
<1>3. Inv /\ Timely => DeadlineBoundsEffects
  BY TimelyBounds DEF Inv
<1>4. QED
  BY <1>1, <1>2, <1>3, RunStaysAccounted, PTL DEF Spec
=============================================================================
