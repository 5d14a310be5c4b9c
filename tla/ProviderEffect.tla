--------------------------- MODULE ProviderEffect ---------------------------
(***************************************************************************)
(* The provider effects of one run, attempt by attempt: admission against  *)
(* the route's guaranteed capabilities (run/validation.rs, model.rs,       *)
(* model/router.rs), the attempt loop with its retries (run/effects.rs),   *)
(* the streamed or complete call to an adapter (run/provider.rs), and the  *)
(* commit of the attempts to the run's usage ledger.                       *)
(*                                                                         *)
(* A route is one adapter, or the primary and the fallback of a            *)
(* FallbackProvider.  The run's state is RunState's; the ledger is kept in *)
(* full beside it.  Time is LocalRun's matter: here the deadline may fire  *)
(* at any instant.                                                         *)
(***************************************************************************)
EXTENDS RunState, Functions

CONSTANTS
    Feature,        \* what a request may need: tools, images, json, schema
    Field,          \* the counters of a usage measurement
    Routes,         \* the routes a host may configure
    Needs,          \* the sets of features a request may need
    Plans,          \* the plans, with the attempts the caller asked for
    OutputReserve,  \* plan.max_output_tokens
    Reports,        \* the measurements an adapter may report
    Responses,      \* the tool-call lists an adapter may answer with
    ChildLedgers,   \* the ledgers a delegated run may hand back
    MaxRounds       \* bound: the round that may no longer answer with tool calls

Usage == INSTANCE Usage

\* An adapter's structured-output support is a feature too, and a provider that
\* guarantees a JSON Schema guarantees JSON.  bound is its own count of the
\* prompt's tokens for an empty history, limit its context window.
Adapter == [features : SUBSET Feature,
            streams : BOOLEAN,
            bound : Nat \cup {Unset},
            limit : Nat \cup {Unset}]

-----------------------------------------------------------------------------
(* What it means for a usage ledger to account for the measurements of the *)
(* calls it lists.                                                         *)

Known(f, reports) ==
    {i \in DOMAIN reports : reports[i] # Usage!NoUsage /\ reports[i][f] # Usage!Unknown}

Unmeasured == {Usage!NoUsage, Usage!UnknownUsage}

Total(f, reports) ==
    SumFunctionOnSet([i \in Known(f, reports) |-> reports[i][f]], Known(f, reports))

AccountsFor(l, reports) ==
    /\ l.model_calls =
          [i \in DOMAIN reports |->
             IF reports[i] = Usage!NoUsage THEN Usage!UnknownUsage ELSE reports[i]]
    /\ \A f \in Field :
          /\ l.aggregate[f] # Usage!Unknown =>
                /\ l.aggregate[f] = Total(f, reports)
                /\ \A i \in DOMAIN reports :
                      i \in Known(f, reports) \/ reports[i] \in Unmeasured
          /\ l.complete /\ reports # << >> =>
                Known(f, reports) = DOMAIN reports /\ l.aggregate[f] # Usage!Unknown

\* A child's ledger is the ledger of a run: what LedgerTrue says of this run's
\* ledger is assumed of those it merges.
ASSUME EffectAssumption ==
    /\ \A route \in Routes : Len(route) \in 1..2 /\ route \in Seq(Adapter)
    /\ Needs \subseteq SUBSET Feature
    /\ Plans \subseteq Plan
    /\ OutputReserve \in Nat
    /\ Reports \subseteq Usage!TokenUsage \cup {Usage!NoUsage}
    /\ \A calls \in Responses : calls \in Seq(Call) /\ calls # << >>
    /\ ChildLedgers \subseteq Usage!RunUsage
    /\ \A child \in ChildLedgers : AccountsFor(child, child.model_calls)
    /\ MaxRounds \in Nat

VARIABLES
    route,      \* the configured provider
    needs,      \* the features of the run's requests
    optOut,     \* plan.provider_enforced_limit_opt_out
    state,      \* the AgentRunState
    ledger,     \* its usage, in full
    stage,      \* where the executor is
    attempt,    \* the attempt of the executing effect
    attempts,   \* what its finished attempts reported
    visible,    \* visible_delta: the attempt has emitted output
    streamed,   \* the last usage event of the attempt's stream
    leaving,    \* a stop was seen: the attempt runs on for the grace period
    cancelled,  \* the cancellation token
    result,     \* how the run returned: not yet, with a result or an error
    calls,      \* every call made to an adapter, committed or not
    shown,      \* the attempts whose output an observer has seen
    told        \* the measurements of the calls the committed outcomes report

request == <<route, needs, optOut>>
executing == <<attempt, attempts, visible, streamed, leaving>>
history == <<calls, shown, told>>
vars == <<request, state, ledger, stage, executing, cancelled, result, history>>

-----------------------------------------------------------------------------
(* What a route guarantees: what every adapter it may reach guarantees. *)

\* Faulty variant: what one of the adapters offers is taken for the route's.
GuaranteedByEither(r) == UNION {r[i].features : i \in DOMAIN r}

Guaranteed(r) == {f \in Feature : \A i \in DOMAIN r : f \in r[i].features}

Streams(r) == \A i \in DOMAIN r : r[i].streams

\* The rendered prompt grows with every message of the history.
Prompt(adapter, s) ==
    IF adapter.bound = Unset THEN Unset ELSE adapter.bound + MessageTokens * Len(s.history)

\* Faulty variant: the primary's bound stands for the fallback's too.
PrimaryBound(r, s) == Prompt(r[1], s)

\* The largest of the bounds, and none when an adapter has none.
CommonBound(r, s) ==
    LET bounds == {Prompt(r[i], s) : i \in DOMAIN r} IN
    IF Unset \in bounds THEN Unset ELSE CHOOSE b \in bounds : \A c \in bounds : b >= c

\* The smallest of the context windows, and none when one is not known.
ContextLimit(r) ==
    LET limits == {r[i].limit : i \in DOMAIN r} IN
    IF Unset \in limits THEN Unset ELSE CHOOSE l \in limits : \A m \in limits : l <= m

\* The primary answers attempt one, the fallback every later one.
Routed(r, n) == IF n = 1 THEN 1 ELSE Len(r)

RoutingAttempts(r) == Len(r)

-----------------------------------------------------------------------------
(* Admission. *)

Bound == IF optOut THEN Unset ELSE CommonBound(route, state)

\* can_admit
Fits ==
    /\ Bound # Unset
    /\ ContextLimit(route) # Unset
    /\ Bound + OutputReserve <= ContextLimit(route)

\* A hard token budget needs a bound, even when the limit is the provider's.
Acceptable ==
    /\ needs \subseteq Guaranteed(route)
    /\ optOut \/ Fits
    /\ state.plan.token_limit # Unset => Bound # Unset

Reserved == Reservation(state, Bound + OutputReserve)

Init ==
    /\ route \in Routes
    /\ needs \in Needs
    /\ optOut \in BOOLEAN
    /\ \E plan \in Plans :
          state = NewState([plan EXCEPT !.provider_max_attempts = MaxOf(@, RoutingAttempts(route))],
                           <<UserMessage>>)
    /\ ledger = Usage!NewUsage
    /\ stage = "idle"
    /\ attempt = 0
    /\ attempts = << >>
    /\ visible = FALSE
    /\ streamed = Usage!NoUsage
    /\ leaving = FALSE
    /\ cancelled = FALSE
    /\ result = "none"
    /\ calls = << >>
    /\ shown = {}
    /\ told = << >>

-----------------------------------------------------------------------------
(* The loop around the effects, reduced to what decides the next one. *)

Ended == stage = "ended"

End(s, kind) ==
    /\ state' = s
    /\ stage' = "ended"
    /\ result' = kind
    /\ UNCHANGED <<request, executing, cancelled, history>>

\* A cancelled run: whatever its last effect did is not committed.
EndCancelled ==
    /\ End(Cancel(state), "ok")
    /\ ledger' = [ledger EXCEPT !.complete = FALSE]

\* Any other error of an effect: the run fails and nothing is committed either.
EndRefused ==
    /\ End(Fail(state), "error")
    /\ UNCHANGED ledger

RequestCancel ==
    /\ ~Ended
    /\ ~cancelled
    /\ cancelled' = TRUE
    /\ UNCHANGED <<request, state, ledger, stage, executing, result, history>>

StopCancelled ==
    /\ stage = "idle"
    /\ cancelled
    /\ state.status \in Live
    /\ EndCancelled

StopExhausted ==
    /\ stage = "idle"
    /\ ~cancelled
    /\ Exhausted(state)
    /\ End(FinishIfExhausted(state), "ok")
    /\ ledger' = [ledger EXCEPT !.complete = FALSE]

StopIdle ==
    /\ stage = "idle"
    /\ state.status \in Terminal
    /\ End(state, "ok")
    /\ UNCHANGED ledger

\* The tools of the answered round; a delegation merges its child's ledger.
RunTool ==
    /\ stage = "idle"
    /\ ~cancelled
    /\ NextEffect(state).kind = "tool"
    /\ \E child \in IF Head(state.pending_tools).tool \in Delegating
                    THEN ChildLedgers ELSE {Usage!NewUsage} :
          /\ state' = CommitTool(state, NextEffect(state),
                                 [calls |-> Len(child.model_calls), complete |-> child.complete])
          /\ ledger' = Usage!MergeChild(ledger, child)
          /\ told' = told \o child.model_calls
    /\ UNCHANGED <<request, stage, executing, cancelled, result, calls, shown>>

-----------------------------------------------------------------------------
(* One provider effect.  Admission reads the state once; it does not        *)
(* change again before the effect commits.                                  *)

Admitting ==
    /\ stage = "idle"
    /\ ~cancelled
    /\ ~Exhausted(state)
    /\ NextEffect(state).kind = "provider"

Refuse ==
    /\ Admitting
    /\ ~Acceptable
    /\ EndRefused

Exhaust ==
    /\ Admitting
    /\ Acceptable
    /\ OverTokenBudget(state, Reserved)
    /\ state' = CommitBudgetExhausted(state, NextEffect(state))
    /\ ledger' = [ledger EXCEPT !.complete = FALSE]
    /\ UNCHANGED <<request, stage, executing, cancelled, result, history>>

Arm(n, finished) ==
    /\ stage' = "armed"
    /\ attempt' = n
    /\ attempts' = finished
    /\ visible' = FALSE
    /\ streamed' = Usage!NoUsage
    /\ leaving' = FALSE
    /\ UNCHANGED <<request, state, ledger, cancelled, result, history>>

Admit ==
    /\ Admitting
    /\ Acceptable
    /\ ~OverTokenBudget(state, Reserved)
    /\ Arm(1, << >>)

\* The attempt's first poll: the adapter is called.
CallAdapter ==
    /\ stage = "armed"
    /\ stage' = "called"
    /\ LET by == Routed(route, attempt) IN
       calls' = Append(calls, [round |-> state.model_calls, attempt |-> attempt, by |-> by,
                               prompt |-> Prompt(route[by], state),
                               stream |-> Streams(route)])
    /\ UNCHANGED <<request, state, ledger, executing, cancelled, result, shown, told>>

\* A text or tool-call fragment arrives and is forwarded.
Chunk ==
    /\ stage = "called"
    /\ Streams(route)
    /\ visible' = TRUE
    /\ shown' = shown \cup {[round |-> state.model_calls, attempt |-> attempt]}
    /\ UNCHANGED <<request, state, ledger, stage, attempt, attempts, streamed, leaving,
                   cancelled, result, calls, told>>

\* A usage event is remembered and forwarded; it is not output.
StreamUsage ==
    /\ stage = "called"
    /\ Streams(route)
    /\ \E usage \in Reports \ {Usage!NoUsage} : streamed' = usage
    /\ UNCHANGED <<request, state, ledger, stage, attempt, attempts, visible, leaving,
                   cancelled, result, history>>

-----------------------------------------------------------------------------
(* The end of an attempt. *)

\* The attempts of the effect with a last one, as the commit sees them.
Reported(usage) == Append(attempts, usage)

Measured(reports) ==
    \A i \in DOMAIN reports : reports[i] # Usage!NoUsage /\ Usage!IsComplete(reports[i])

Attempted(reports) ==
    [count |-> Len(reports), reserved |-> Reserved, measured |-> Measured(reports)]

Finish(s, reports, complete) ==
    /\ state' = s
    /\ ledger' = LET l == Usage!AddCalls(ledger, reports)
                 IN  [l EXCEPT !.complete = @ /\ complete]
    /\ told' = told \o reports
    /\ attempts' = << >>
    /\ stage' = "idle"
    /\ UNCHANGED <<request, attempt, visible, streamed, leaving, cancelled, result, calls, shown>>

\* The usage of a final response: its own, or what the stream reported.
FinalUsage(usage) == IF usage = Usage!NoUsage THEN streamed ELSE usage

Conflicting(usage) ==
    /\ streamed # Usage!NoUsage
    /\ usage # Usage!NoUsage
    /\ usage # streamed

\* A response arrives while the run is not cancelled, and is well formed.
Answer ==
    /\ stage = "called"
    /\ ~leaving
    /\ ~cancelled
    /\ \E usage \in Reports, answer \in Responses \cup {<< >>} :
          /\ answer # << >> => state.model_calls + 1 < MaxRounds
          /\ ~Conflicting(usage)
          /\ LET reports == Reported(FinalUsage(usage)) IN
             Finish(CommitProviderResponse(state, NextEffect(state), answer, answer = << >>,
                                           Attempted(reports)),
                    reports, TRUE)

\* validate_model_response refuses the response: the call is not accounted for.
AnswerInvalid ==
    /\ stage = "called"
    /\ ~leaving
    /\ ~cancelled
    /\ EndRefused

\* A response that meets a cancellation is dropped.
AnswerTooLate ==
    /\ stage = "called"
    /\ ~leaving
    /\ cancelled
    /\ EndCancelled

\* Faulty variant: output that was forwarded does not forbid a retry.
MayRetryShown(retryable, safe) ==
    retryable /\ safe /\ MayAttempt(state, Reserved, attempt + 1)

MayRetry(retryable, safe) ==
    /\ retryable
    /\ safe
    /\ ~visible
    /\ MayAttempt(state, Reserved, attempt + 1)

BackOff(usage) ==
    /\ stage' = "backoff"
    /\ attempts' = Reported(usage)
    /\ UNCHANGED <<request, state, ledger, attempt, visible, streamed, leaving,
                   cancelled, result, history>>

\* The attempt fails with what the error itself carries; usage events that the
\* stream delivered before are not part of it.
Fails(retryable, safe, usage) ==
    IF MayRetry(retryable, safe)
    THEN BackOff(usage)
    ELSE Finish(CommitProviderFailure(state, NextEffect(state), Attempted(Reported(usage))),
                Reported(usage), TRUE)

AdapterFails ==
    /\ stage = "called"
    /\ ~leaving
    /\ \E retryable, safe \in BOOLEAN, usage \in Reports : Fails(retryable, safe, usage)

\* The stream ends without a response, or the response contradicts it: both are
\* terminal protocol errors without usage.
StreamBreaks ==
    /\ stage = "called"
    /\ ~leaving
    /\ Streams(route)
    /\ Fails(FALSE, FALSE, Usage!NoUsage)

RetryNow ==
    /\ stage = "backoff"
    /\ Arm(attempt + 1, attempts)

-----------------------------------------------------------------------------
(* Cancellation and the deadline, raced by every attempt and every backoff. *)

\* Both give the attempt a grace period, in which it may even be polled for
\* the first time; its outcome is discarded.
SeeCancel ==
    /\ stage \in {"armed", "called"}
    /\ cancelled
    /\ ~leaving
    /\ leaving' = TRUE
    /\ UNCHANGED <<request, state, ledger, stage, attempt, attempts, visible, streamed,
                   cancelled, result, history>>

TimeOut ==
    /\ stage \in {"armed", "called"}
    /\ state.plan.deadline_ms # Unset
    /\ ~leaving
    /\ leaving' = TRUE
    /\ cancelled' = TRUE
    /\ UNCHANGED <<request, state, ledger, stage, attempt, attempts, visible, streamed,
                   result, history>>

Leave ==
    /\ leaving
    /\ ~Ended
    /\ EndCancelled

\* The backoff ends early: by cancellation, or by the timer of the attempt that
\* failed, which cancels the run.
StopBackoff ==
    /\ stage = "backoff"
    /\ cancelled \/ state.plan.deadline_ms # Unset
    /\ cancelled' = TRUE
    /\ state' = Cancel(state)
    /\ ledger' = [ledger EXCEPT !.complete = FALSE]
    /\ stage' = "ended"
    /\ result' = "ok"
    /\ UNCHANGED <<request, executing, history>>

\* The run has returned.
Rest == Ended /\ UNCHANGED vars

Next ==
    \/ RequestCancel
    \/ StopCancelled
    \/ StopExhausted
    \/ StopIdle
    \/ RunTool
    \/ Refuse
    \/ Exhaust
    \/ Admit
    \/ CallAdapter
    \/ Chunk
    \/ StreamUsage
    \/ Answer
    \/ AnswerInvalid
    \/ AnswerTooLate
    \/ AdapterFails
    \/ StreamBreaks
    \/ RetryNow
    \/ SeeCancel
    \/ TimeOut
    \/ Leave
    \/ StopBackoff
    \/ Rest

Spec == Init /\ [][Next]_vars

-----------------------------------------------------------------------------
(* Properties. *)

CallRecord == [round : Nat, attempt : Nat \ {0}, by : 1..2, prompt : Nat \cup {Unset},
               stream : BOOLEAN]

\* Every variable keeps its type; the run's state stays an AgentRunState
\* whatever the adapters answer.
TypeOK ==
    /\ route \in Routes /\ needs \in Needs /\ optOut \in BOOLEAN
    /\ state \in AgentRunState
    /\ ledger \in Usage!RunUsage
    /\ stage \in {"idle", "armed", "called", "backoff", "ended"}
    /\ attempt \in 0..state.plan.provider_max_attempts
    /\ attempts \in Seq(Reports)
    /\ visible \in BOOLEAN /\ leaving \in BOOLEAN /\ cancelled \in BOOLEAN
    /\ streamed \in Reports \cup {Usage!NoUsage}
    /\ result \in {"none", "ok", "error"}
    /\ calls \in Seq(CallRecord)
    /\ \A x \in shown : \E i \in DOMAIN calls :
            x = [round |-> calls[i].round, attempt |-> calls[i].attempt]

\* A provider effect shows output of one attempt only: once an attempt has
\* streamed a fragment to an observer no later attempt of the effect calls an
\* adapter, so nobody sees an answer begun twice (visible_delta in
\* execute_provider), even when a cancellation or the deadline cut in.
OutputShownOnce ==
    \A x \in shown : \A i \in DOMAIN calls :
        calls[i].round = x.round => calls[i].attempt <= x.attempt

\* The most tokens the calls made so far can have used, by the bound of the
\* adapter that was called rather than of the route that was admitted.
WorstCaseTokens == SumFunction([i \in DOMAIN calls |-> calls[i].prompt + OutputReserve])

\* Admission speaks for every adapter an attempt may reach: a called adapter
\* has the features the request needs, streams when it is asked to, and unless
\* the host opted out its own rendering fits its own window; and all calls
\* made, failed and abandoned ones included, stay within the model-call limit
\* and the hard token limit (validate_context, FallbackProvider,
\* execute_provider's allowed_attempts).
CallsAdmitted ==
    /\ \A i \in DOMAIN calls :
          LET adapter == route[calls[i].by] IN
          /\ needs \subseteq adapter.features
          /\ calls[i].stream => adapter.streams
          /\ optOut \/ calls[i].prompt + OutputReserve \in 0..adapter.limit
    /\ Len(calls) + state.reserved_child_model_calls <= state.plan.model_call_limit
    /\ state.plan.token_limit = Unset \/ WorstCaseTokens <= state.plan.token_limit

\* The usage ledger tells the truth about the committed outcomes, whatever the
\* order of measured and unmeasured calls and of child runs: one entry per
\* attempt with what it reported; a known aggregate is the sum of what is
\* known, and no call that was measured left that counter out; a complete
\* ledger leaves nothing out and, unless the run ended in an error, has an
\* entry for every call made (RunUsage::add_call, merge_child,
\* record_provider_attempts).  The run state's own summary of it agrees.
LedgerTrue ==
    /\ AccountsFor(ledger, told)
    /\ ledger.complete /\ stage \in {"idle", "ended"} /\ result # "error" =>
          Len(calls) = state.provider_calls_started
    /\ state.usage = [calls |-> Len(ledger.model_calls), complete |-> ledger.complete]
=============================================================================
