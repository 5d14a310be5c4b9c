----------------------------- MODULE RunMachine -----------------------------
(***************************************************************************)
(* The run state machine under an arbitrary runtime.  A host holds one     *)
(* AgentRunState, executes the effect it asks for with                     *)
(* Agent::execute_effect, and reports outcomes with commit_effect.  Hosts  *)
(* crash, redeliver and reorder: any effect the state ever asked for may   *)
(* be reported at any time, once, many times, or late.  Cancellation,      *)
(* failure, elapsed time and finish_if_exhausted may come between any two  *)
(* reports.                                                                *)
(*                                                                         *)
(* state is the code's value.  asked and accepted are history variables:   *)
(* an effect is asked for at a position, the number of outcomes accepted   *)
(* so far, which tells two effects with the same identity apart.           *)
(***************************************************************************)
EXTENDS HistoryRules

CONSTANTS
    Plans,         \* the plans a run may start with
    Responses,     \* the tool-call lists a provider may answer with
    TokenBounds,   \* the token bounds a provider may report for one attempt
    Durations,     \* the elapsed times a runtime may report for one effect
    MaxElapsed     \* bound on the elapsed time a run may accumulate

ASSUME MachineAssumption ==
    /\ Plans \subseteq Plan
    /\ \A calls \in Responses : calls \in Seq(Call) /\ calls # << >>
    /\ TokenBounds \subseteq Nat \ {0}
    /\ Durations \subseteq Nat
    /\ MaxElapsed \in Nat

VARIABLES
    state,     \* the AgentRunState
    asked,     \* every effect asked for, with its position
    accepted   \* the asked effects whose outcomes were accepted, in order

vars == <<state, asked, accepted>>

Ask(s, position) ==
    IF NextEffect(s) = NoEffect THEN {} ELSE {[effect |-> NextEffect(s), at |-> position]}

Init ==
    /\ state \in {NewState(plan, <<UserMessage>>) : plan \in Plans}
    /\ accepted = << >>
    /\ asked = Ask(state, 0)

\* The runtime replaces its state, and next_effect names what it may do now.
Become(s) ==
    /\ state' = s
    /\ asked' = asked \cup Ask(s, Len(accepted'))

\* An outcome arrives for an asked effect; the state machine takes it or not.
Report(a, valid, s) ==
    /\ accepted' = IF valid THEN Append(accepted, a) ELSE accepted
    /\ Become(s)

-----------------------------------------------------------------------------
(* Outcomes of a provider effect, within the attempts its executor allows. *)

AttemptRecords(effect, bound) ==
    {attempts \in [count : 1..state.plan.provider_max_attempts,
                   reserved : {Reservation(state, bound)},
                   measured : BOOLEAN] :
        Expected(state, effect) => MayAttempt(state, attempts.reserved, attempts.count)}

ProviderResponds ==
    \E a \in asked, bound \in TokenBounds, calls \in Responses \cup {<< >>} :
        \E attempts \in AttemptRecords(a.effect, bound) :
            /\ a.effect.kind = "provider"
            /\ ValidateModelResponse(calls, calls = << >>)
            /\ Report(a, Expected(state, a.effect),
                      CommitProviderResponse(state, a.effect, calls, calls = << >>, attempts))

\* A host with an executor of its own reports one response and no attempts.
BareResponse ==
    \E a \in asked, calls \in Responses \cup {<< >>}, text \in BOOLEAN, measured \in BOOLEAN :
        /\ a.effect.kind = "provider"
        /\ state.plan.token_limit = Unset
        /\ DistinctIds(calls)
        /\ text => calls = << >>
        /\ Report(a, Expected(state, a.effect),
                  CommitProviderResponse(state, a.effect, calls, text,
                      [count |-> 0, reserved |-> 0, measured |-> measured]))

ProviderFails ==
    \E a \in asked, bound \in TokenBounds :
        \E attempts \in AttemptRecords(a.effect, bound) :
            /\ a.effect.kind = "provider"
            /\ Report(a, Expected(state, a.effect),
                      CommitProviderFailure(state, a.effect, attempts))

ProviderOverBudget ==
    \E a \in asked, bound \in TokenBounds :
        /\ a.effect.kind = "provider"
        /\ OverTokenBudget(state, bound)
        /\ Report(a, Expected(state, a.effect), CommitBudgetExhausted(state, a.effect))

-----------------------------------------------------------------------------
(* Outcomes of tool effects.  A child run reports the usage it measured. *)

ChildUsages == {EmptyUsage, [calls |-> 1, complete |-> FALSE]}

ToolReturns ==
    \E a \in asked, child \in ChildUsages :
        /\ a.effect.kind = "tool"
        /\ Report(a, Expected(state, a.effect), CommitTool(state, a.effect, child))

\* A batch outcome has as many outputs as the batch that was executed had calls.
BatchReturns ==
    \E a \in asked, child \in ChildUsages, outputs \in 2..Cardinality(CallId) :
        /\ a.effect.kind = "tool-batch"
        /\ Report(a, Expected(state, a.effect) /\ outputs = Len(state.pending_tools),
                  CommitBatch(state, a.effect, outputs, child))

-----------------------------------------------------------------------------
(* What a runtime does besides reporting outcomes. *)

CancelRun == accepted' = accepted /\ Become(Cancel(state))

FailRun == accepted' = accepted /\ Become(Fail(state))

ReportElapsed ==
    \E ms \in Durations :
        /\ state.elapsed_ms + ms <= MaxElapsed
        /\ accepted' = accepted
        /\ Become(RecordElapsed(state, ms))

CheckExhausted == accepted' = accepted /\ Become(FinishIfExhausted(state))

Next ==
    \/ ProviderResponds
    \/ BareResponse
    \/ ProviderFails
    \/ ProviderOverBudget
    \/ ToolReturns
    \/ BatchReturns
    \/ CancelRun
    \/ FailRun
    \/ ReportElapsed
    \/ CheckExhausted

Spec == Init /\ [][Next]_vars

-----------------------------------------------------------------------------
(* Properties. *)

\* The state is an AgentRunState, and the history variables are well formed
\* (crates/agentive/src/state/types.rs).
Asked == [effect : [kind : {"provider", "tool", "tool-batch"}, key : Nat \cup CallId],
          at : Nat]

TypeOK ==
    /\ state \in AgentRunState
    /\ asked \subseteq Asked
    /\ accepted \in Seq(Asked)

\* The provider calls a run starts and the calls it hands to its children
\* together never exceed the model-call limit, whatever mix of retries,
\* failures, single and batched delegations is committed (no_provider_budget,
\* delegation_budget_for and the executor's allowed_attempts agree).
ModelCallBudget == ChargedCalls(state) <= state.plan.model_call_limit

\* The token ledger never exceeds a hard token limit: retries reserve per
\* attempt, and the children's shares come out of what is left.
TokenBudget ==
    state.plan.token_limit # Unset => state.reserved_tokens <= state.plan.token_limit

\* Every snapshot a runtime can hold passes validate_effect_state_history, so
\* neither runtime ever rejects its own state: the calls its history leaves
\* unresolved are its pending tools, in provider order.
SnapshotsResume == ValidateEffectStateHistory(state)

\* A completed run has resolved every call and ends in the answer.
CompletedIsResolved ==
    state.status = "completed" =>
        /\ state.text
        /\ ValidateHistory(state.history)
        /\ state.history[Len(state.history)] = TextMessage

\* No call id occurs in two rounds of a run.  validate_model_response compares
\* the ids of one response only.
IdsOf(message) ==
    IF message.role = "calls" THEN {message.calls[i].id : i \in 1..Len(message.calls)} ELSE {}

IdsAreFresh ==
    \A i, j \in 1..Len(state.history) :
        IdsOf(state.history[i]) \cap IdsOf(state.history[j]) # {} => i = j

\* The outcome accepted at a position is the outcome of the effect that was
\* asked for at that position: nothing stale, duplicated or out of order is
\* ever committed (expect_effect and expect_batch), as far as effect identities
\* tell effects apart: those of provider calls always do, those of tool calls
\* unless the provider uses a call id again in a later round.
OutcomesInOrder ==
    \A i \in 1..Len(accepted) :
        accepted[i].effect.kind = "provider" \/ IdsAreFresh => accepted[i].at = i - 1

\* Once a run is terminal nothing but its elapsed time changes: a late
\* outcome, a cancellation or a failure cannot rewrite its status, answer,
\* history or usage.
TerminalIsFinal ==
    [][state.status \in Terminal =>
         state' = [state EXCEPT !.elapsed_ms = state'.elapsed_ms]]_vars

\* Delegations never starve their parent: a parent that could still call its
\* provider before its children's shares were reserved can do so afterwards
\* (the extra share of delegation_budget_for).
DelegationLeavesShare ==
    [][accepted' # accepted /\ state.pending_tools # << >> =>
         /\ RemainingCalls(state) > 0 => RemainingCalls(state') > 0
         /\ state.plan.token_limit # Unset /\ RemainingTokens(state) > 0 =>
              RemainingTokens(state') > 0]_vars
=============================================================================
