-------------------------- MODULE RunMachineProofs --------------------------
(***************************************************************************)
(* Proofs about one AgentRunState and about a tree of them.                *)
(*                                                                         *)
(* RunMachine, for every registry, plan, provider and host: the state is   *)
(* always well typed, the model-call and token budgets are never exceeded, *)
(* every snapshot resumes, a terminal run is final, and outcomes are       *)
(* committed in order.                                                     *)
(*                                                                         *)
(* DelegationTree, for every plan, provider and depth: a run and all it    *)
(* delegates to stay within the run's own limits.  The two share RunState  *)
(* and its lemmas and have no variable in common.                          *)
(***************************************************************************)
EXTENDS RunMachine, DelegationTree, RunStateProofs

-----------------------------------------------------------------------------
(* The specification. *)

\* The attempts of an expected provider effect, within allowed_attempts.
LEMMA AttemptsAdmitted ==
    ASSUME Good(state), NEW effect, effect.kind = "provider",
           NEW bound \in TokenBounds, NEW attempts \in AttemptRecords(effect, bound)
    PROVE  /\ attempts \in Attempts
           /\ Expected(state, effect) => Admitted(state, attempts)
<1>1. bound \in Nat \ {0}
  BY MachineAssumption
<1>2. Reservation(state, bound) \in Nat /\ state.plan.provider_max_attempts \in Nat
  BY <1>1, AdmittedReservation DEF Good, AgentRunState, Plan
<1>3. /\ attempts.count \in Nat \ {0}
      /\ attempts.reserved = Reservation(state, bound)
      /\ attempts \in Attempts
  BY <1>2 DEF AttemptRecords, Attempts
<1>4. ASSUME Expected(state, effect)
      PROVE  Admitted(state, attempts)
  <2>1. MayAttempt(state, attempts.reserved, attempts.count)
    BY <1>4 DEF AttemptRecords
  <2>2. attempts.count > 0
    BY <1>3
  <2>3. QED
    BY <1>1, <1>3, <2>1, <2>2, MayAttemptAdmitted
<1>5. QED
  BY <1>3, <1>4


Inv == TypeOK /\ ModelCallBudget /\ TokenBudget

\* The typed, budgeted states are the Good ones.
LEMMA InvIsGood == Inv <=> Good(state) /\ asked \subseteq Asked /\ accepted \in Seq(Asked)
BY DEF Inv, TypeOK, Good, WithinCalls, WithinTokens, ModelCallBudget, TokenBudget

\* next_effect names effects whose keys are rounds or call ids.
LEMMA AskType ==
    ASSUME NEW s \in AgentRunState, NEW position \in Nat
    PROVE  Ask(s, position) \subseteq Asked
<1>1. ASSUME NextEffect(s) # NoEffect
      PROVE  NextEffect(s) \in [kind : {"provider", "tool", "tool-batch"}, key : Nat \cup CallId]
  <2>1. CASE s.pending_tools # << >>
    <3>1. s.pending_tools[1].id \in CallId
      <4>1. s.pending_tools \in Seq(Call)
        BY DEF AgentRunState
      <4>2. s.pending_tools[1] \in Call
        BY <2>1, <4>1
      <4>3. QED
        BY <4>2 DEF Call
    <3>2. QED
      BY <1>1, <2>1, <3>1 DEF NextEffect, BatchEffect, ToolEffect
  <2>2. CASE s.pending_tools = << >>
    <3>1. s.model_calls \in Nat
      BY DEF AgentRunState
    <3>2. QED
      BY <1>1, <2>2, <3>1 DEF NextEffect, ProviderEffect
  <2>3. QED
    BY <2>1, <2>2
<1>2. QED
  BY <1>1 DEF Ask, Asked

\* A good successor keeps the invariant, and what it asks for is well formed.
LEMMA BecomeKeepsInv ==
    ASSUME Inv, NEW s, Good(s), Become(s), accepted' \in Seq(Asked)
    PROVE  Inv'
<1>1. asked' \subseteq Asked
  <2>1. Len(accepted') \in Nat
    OBVIOUS
  <2>2. QED
    BY <2>1, AskType DEF Become, Good, Inv, TypeOK
<1>2. Good(state)'
  BY DEF Become, Good, WithinCalls, WithinTokens, ChargedCalls
<1>3. QED
  BY <1>1, <1>2
  DEF Inv, TypeOK, Good, WithinCalls, WithinTokens, ModelCallBudget, TokenBudget

LEMMA ReportKeepsInv ==
    ASSUME Inv, NEW a \in asked, NEW valid, NEW s, Good(s), Report(a, valid, s)
    PROVE  Inv'
<1>1. accepted' \in Seq(Asked)
  BY DEF Report, Inv, TypeOK
<1>2. QED
  BY <1>1, BecomeKeepsInv DEF Report

\* What a child run may report is a usage ledger.
LEMMA ChildUsagesType == \A child \in ChildUsages : child \in RunUsage
<1>1. EmptyUsage \in RunUsage
  BY DEF EmptyUsage, RunUsage
<1>2. [calls |-> 1, complete |-> FALSE] \in RunUsage
  BY DEF RunUsage
<1>3. QED
  BY <1>1, <1>2 DEF ChildUsages

LEMMA InitGood == Init => Inv
<1> SUFFICES ASSUME Init PROVE Inv
  OBVIOUS
<1>1. Good(state)
  <2>1. <<UserMessage>> \in Seq(Message)
    BY DEF UserMessage, Message
  <2>2. QED
    BY <2>1, NewStateGood, MachineAssumption DEF Init
<1>2. accepted \in Seq(Asked)
  BY DEF Init
<1>3. asked \subseteq Asked
  BY <1>1, AskType DEF Init, Good
<1>4. QED
  BY <1>1, <1>2, <1>3, InvIsGood

LEMMA StepKeepsInv == Inv /\ [Next]_vars => Inv'
<1> SUFFICES ASSUME Inv, [Next]_vars PROVE Inv'
  OBVIOUS
<1>0. Good(state) /\ accepted \in Seq(Asked)
  BY InvIsGood
<1>c. /\ \A calls \in Responses \cup {<< >>} : calls \in Seq(Call)
      /\ ChildUsages \subseteq RunUsage
  <2>1. \A calls \in Responses : calls \in Seq(Call)
    BY MachineAssumption
  <2>2. << >> \in Seq(Call)
    OBVIOUS
  <2>3. QED
    BY <2>1, <2>2, ChildUsagesType
<1>1. CASE ProviderResponds
  <2>0. PICK a \in asked, bound \in TokenBounds, calls \in Responses \cup {<< >>} :
          \E attempts \in AttemptRecords(a.effect, bound) :
            /\ a.effect.kind = "provider"
            /\ Report(a, Expected(state, a.effect),
                      CommitProviderResponse(state, a.effect, calls, calls = << >>, attempts))
    BY <1>1 DEF ProviderResponds
  <2>1. PICK attempts \in AttemptRecords(a.effect, bound) :
          /\ a.effect.kind = "provider"
          /\ Report(a, Expected(state, a.effect),
                    CommitProviderResponse(state, a.effect, calls, calls = << >>, attempts))
    BY <2>0
  <2>2. Expected(state, a.effect) => Admitted(state, attempts)
    BY <1>0, <2>1, AttemptsAdmitted
  <2>3. calls \in Seq(Call) /\ (calls = << >>) \in BOOLEAN
    BY <1>c
  <2>4. Good(CommitProviderResponse(state, a.effect, calls, calls = << >>, attempts))
    BY <1>0, <2>2, <2>3, ProviderResponseGood
  <2>5. QED
    BY <2>1, <2>4, ReportKeepsInv
<1>2. CASE BareResponse
  <2>1. PICK a \in asked, calls \in Responses \cup {<< >>}, text \in BOOLEAN,
             measured \in BOOLEAN :
          /\ a.effect.kind = "provider"
          /\ state.plan.token_limit = Unset
          /\ Report(a, Expected(state, a.effect),
                    CommitProviderResponse(state, a.effect, calls, text,
                        [count |-> 0, reserved |-> 0, measured |-> measured]))
    BY <1>2 DEF BareResponse
  <2>2. Expected(state, a.effect) =>
          Admitted(state, [count |-> 0, reserved |-> 0, measured |-> measured])
    BY <1>0, <2>1, BareAdmitted
  <2>3. Good(CommitProviderResponse(state, a.effect, calls, text,
                 [count |-> 0, reserved |-> 0, measured |-> measured]))
    BY <1>0, <1>c, <2>2, ProviderResponseGood
  <2>4. QED
    BY <2>1, <2>3, ReportKeepsInv
<1>3. CASE ProviderFails
  <2>0. PICK a \in asked, bound \in TokenBounds :
          \E attempts \in AttemptRecords(a.effect, bound) :
            /\ a.effect.kind = "provider"
            /\ Report(a, Expected(state, a.effect),
                      CommitProviderFailure(state, a.effect, attempts))
    BY <1>3 DEF ProviderFails
  <2>1. PICK attempts \in AttemptRecords(a.effect, bound) :
          /\ a.effect.kind = "provider"
          /\ Report(a, Expected(state, a.effect),
                    CommitProviderFailure(state, a.effect, attempts))
    BY <2>0
  <2>2. Expected(state, a.effect) => Admitted(state, attempts)
    BY <1>0, <2>1, AttemptsAdmitted
  <2>3. Good(CommitProviderFailure(state, a.effect, attempts))
    BY <1>0, <2>2, ProviderFailureGood
  <2>4. QED
    BY <2>1, <2>3, ReportKeepsInv
<1>4. CASE ProviderOverBudget
  BY <1>0, <1>4, BudgetExhaustedGood, ReportKeepsInv DEF ProviderOverBudget
<1>5. CASE ToolReturns
  BY <1>0, <1>c, <1>5, ToolGood, ReportKeepsInv DEF ToolReturns
<1>6. CASE BatchReturns
  BY <1>0, <1>c, <1>6, BatchGood, ReportKeepsInv DEF BatchReturns
<1>7. CASE CancelRun
  BY <1>0, <1>7, QuietStepsGood, BecomeKeepsInv DEF CancelRun
<1>8. CASE FailRun
  BY <1>0, <1>8, QuietStepsGood, BecomeKeepsInv DEF FailRun
<1>9. CASE ReportElapsed
  BY <1>0, <1>9, MachineAssumption, QuietStepsGood, BecomeKeepsInv DEF ReportElapsed
<1>10. CASE CheckExhausted
  BY <1>0, <1>10, QuietStepsGood, BecomeKeepsInv DEF CheckExhausted
<1>11. CASE UNCHANGED vars
  BY <1>11 DEF vars, Inv, TypeOK, ModelCallBudget, TokenBudget, ChargedCalls
<1>12. QED
  BY <1>1, <1>2, <1>3, <1>4, <1>5, <1>6, <1>7, <1>8, <1>9, <1>10, <1>11 DEF Next

\* Every reachable state of every run is well typed and within both budgets.
THEOREM RunStaysGood == Spec => []Inv
BY InitGood, StepKeepsInv, PTL DEF Spec

\* The state is always an AgentRunState (state/types.rs).
THEOREM TypeCorrect == Spec => []TypeOK
<1>1. Inv => TypeOK
  BY DEF Inv
<1>2. QED
  BY <1>1, RunStaysGood, PTL

\* No mix of retries, failures and delegations ever starts or hands out more
\* provider calls than the model-call limit, for any limit and registry.
THEOREM ModelCallBudgetHolds == Spec => []ModelCallBudget
<1>1. Inv => ModelCallBudget
  BY DEF Inv
<1>2. QED
  BY <1>1, RunStaysGood, PTL

\* The reserved tokens never exceed a hard token limit.
THEOREM TokenBudgetHolds == Spec => []TokenBudget
<1>1. Inv => TokenBudget
  BY DEF Inv
<1>2. QED
  BY <1>1, RunStaysGood, PTL

-----------------------------------------------------------------------------
(* Terminal runs are final. *)

\* In a terminal state next_effect names nothing, so no outcome is expected and
\* every method but record_elapsed returns the state unchanged.
LEMMA TerminalMethods ==
    ASSUME NEW s, s.status \in Terminal
    PROVE  /\ \A effect : ~Expected(s, effect)
           /\ Cancel(s) = s /\ Fail(s) = s /\ FinishIfExhausted(s) = s
<1>1. s.status \notin Live
  BY DEF Terminal
<1>2. NextEffect(s) = NoEffect
  BY <1>1 DEF NextEffect
<1>3. QED
  BY <1>1, <1>2 DEF Expected, Cancel, Fail, FinishIfExhausted, Exhausted

LEMMA TerminalStep ==
    ASSUME Inv, [Next]_vars, state.status \in Terminal
    PROVE  state' = [state EXCEPT !.elapsed_ms = state'.elapsed_ms]
<1>0. state \in AgentRunState
  BY DEF Inv, TypeOK
<1>1. ASSUME state' = state
      PROVE  state' = [state EXCEPT !.elapsed_ms = state'.elapsed_ms]
  BY <1>0, <1>1 DEF AgentRunState
<1>2. CASE ReportElapsed
  <2>1. PICK ms \in Durations : state' = RecordElapsed(state, ms)
    BY <1>2 DEF ReportElapsed, Become
  <2>2. QED
    BY <1>0, <2>1 DEF RecordElapsed, AgentRunState
<1>3. \A effect : ~Expected(state, effect)
  BY TerminalMethods
<1>4. CASE ProviderResponds
  BY <1>1, <1>3, <1>4 DEF ProviderResponds, Report, Become, CommitProviderResponse
<1>5. CASE BareResponse
  BY <1>1, <1>3, <1>5 DEF BareResponse, Report, Become, CommitProviderResponse
<1>6. CASE ProviderFails
  BY <1>1, <1>3, <1>6 DEF ProviderFails, Report, Become, CommitProviderFailure
<1>7. CASE ProviderOverBudget
  BY <1>1, <1>3, <1>7 DEF ProviderOverBudget, Report, Become, CommitBudgetExhausted
<1>8. CASE ToolReturns
  BY <1>1, <1>3, <1>8 DEF ToolReturns, Report, Become, CommitTool
<1>9. CASE BatchReturns
  BY <1>1, <1>3, <1>9 DEF BatchReturns, Report, Become, CommitBatch
<1>10. CASE CancelRun \/ FailRun \/ CheckExhausted
  BY <1>1, <1>10, TerminalMethods DEF CancelRun, FailRun, CheckExhausted, Become
<1>11. CASE UNCHANGED vars
  BY <1>1, <1>11 DEF vars
<1>12. QED
  BY <1>2, <1>4, <1>5, <1>6, <1>7, <1>8, <1>9, <1>10, <1>11 DEF Next

\* Once a run is terminal only its elapsed time can change: late outcomes,
\* cancellations and failures are all discarded, for any number of them.
THEOREM TerminalRunsAreFinal == Spec => TerminalIsFinal
<1>1. Inv /\ [Next]_vars =>
        [state.status \in Terminal =>
           state' = [state EXCEPT !.elapsed_ms = state'.elapsed_ms]]_vars
  BY TerminalStep
<1>2. QED
  BY <1>1, RunStaysGood, PTL DEF Spec, TerminalIsFinal

-----------------------------------------------------------------------------
(* Delegations leave their parent a share. *)

LEMMA AcceptedToolLeavesShare ==
    ASSUME Inv, [Next]_vars, accepted' # accepted, state.pending_tools # << >>
    PROVE  LeavesShare(state, state')
<1>0. Good(state)
  BY InvIsGood
<1>1. \A effect : effect.kind = "provider" => ~Expected(state, effect)
  BY DEF Expected, NextEffect, ToolEffect, BatchEffect
<1>2. \A child \in ChildUsages : child \in RunUsage
  BY ChildUsagesType
<1>3. CASE ToolReturns
  BY <1>0, <1>2, <1>3, ToolGood DEF ToolReturns, Report, Become
<1>4. CASE BatchReturns
  BY <1>0, <1>2, <1>4, BatchGood DEF BatchReturns, Report, Become
<1>5. CASE ProviderResponds \/ BareResponse \/ ProviderFails \/ ProviderOverBudget
  BY <1>1, <1>5
  DEF ProviderResponds, BareResponse, ProviderFails, ProviderOverBudget, Report
<1>6. CASE CancelRun \/ FailRun \/ ReportElapsed \/ CheckExhausted
  BY <1>6 DEF CancelRun, FailRun, ReportElapsed, CheckExhausted
<1>7. CASE UNCHANGED vars
  BY <1>7 DEF vars
<1>8. QED
  BY <1>3, <1>4, <1>5, <1>6, <1>7 DEF Next

\* A parent that could call its provider before its children's shares were
\* reserved can do so afterwards, however many children run at once.
THEOREM DelegationNeverStarves == Spec => DelegationLeavesShare
<1>1. Inv /\ [Next]_vars =>
        [accepted' # accepted /\ state.pending_tools # << >> =>
           /\ RemainingCalls(state) > 0 => RemainingCalls(state') > 0
           /\ state.plan.token_limit # Unset /\ RemainingTokens(state) > 0 =>
                RemainingTokens(state') > 0]_vars
  BY AcceptedToolLeavesShare DEF LeavesShare
<1>2. QED
  BY <1>1, RunStaysGood, PTL DEF Spec, DelegationLeavesShare

-----------------------------------------------------------------------------
(* The history: every snapshot resumes, and a completed run is resolved. *)

LEMMA InitSound == Init => Sound(state)
BY NewStateSound, MachineAssumption DEF Init

LEMMA StepKeepsSound == Inv /\ Sound(state) /\ [Next]_vars => Sound(state')
<1> SUFFICES ASSUME Inv, Sound(state), [Next]_vars PROVE Sound(state')
  OBVIOUS
<1>0. Good(state) /\ state \in AgentRunState
  BY InvIsGood DEF Good
<1>c. \A calls \in Responses \cup {<< >>} : calls \in Seq(Call)
  <2>1. << >> \in Seq(Call)
    OBVIOUS
  <2>2. QED
    BY <2>1, MachineAssumption
<1>1. CASE ProviderResponds
  <2>0. PICK a \in asked, bound \in TokenBounds, calls \in Responses \cup {<< >>} :
          \E attempts \in AttemptRecords(a.effect, bound) :
            /\ a.effect.kind = "provider"
            /\ ValidateModelResponse(calls, calls = << >>)
            /\ Report(a, Expected(state, a.effect),
                      CommitProviderResponse(state, a.effect, calls, calls = << >>, attempts))
    BY <1>1 DEF ProviderResponds
  <2>1. PICK attempts \in AttemptRecords(a.effect, bound) :
          /\ a.effect.kind = "provider"
          /\ ValidateModelResponse(calls, calls = << >>)
          /\ state' = CommitProviderResponse(state, a.effect, calls, calls = << >>, attempts)
    BY <2>0 DEF Report, Become
  <2>2. Expected(state, a.effect) => Admitted(state, attempts)
    BY <1>0, <2>1, AttemptsAdmitted
  <2>3. calls \in Seq(Call) /\ (calls = << >>) \in BOOLEAN /\ DistinctIds(calls)
    BY <1>c, <2>1 DEF ValidateModelResponse
  <2>4. QED
    BY <1>0, <2>1, <2>2, <2>3, ProviderOutcomesSound
<1>2. CASE BareResponse
  <2>1. PICK a \in asked, calls \in Responses \cup {<< >>}, text \in BOOLEAN,
             measured \in BOOLEAN :
          /\ a.effect.kind = "provider"
          /\ state.plan.token_limit = Unset
          /\ DistinctIds(calls)
          /\ state' = CommitProviderResponse(state, a.effect, calls, text,
                          [count |-> 0, reserved |-> 0, measured |-> measured])
    BY <1>2 DEF BareResponse, Report, Become
  <2>2. Expected(state, a.effect) =>
          Admitted(state, [count |-> 0, reserved |-> 0, measured |-> measured])
    BY <1>0, <2>1, BareAdmitted
  <2>3. QED
    BY <1>0, <1>c, <2>1, <2>2, ProviderOutcomesSound
<1>3. CASE ProviderFails
  <2>0. PICK a \in asked, bound \in TokenBounds :
          \E attempts \in AttemptRecords(a.effect, bound) :
            /\ a.effect.kind = "provider"
            /\ Report(a, Expected(state, a.effect),
                      CommitProviderFailure(state, a.effect, attempts))
    BY <1>3 DEF ProviderFails
  <2>1. PICK attempts \in AttemptRecords(a.effect, bound) :
          /\ a.effect.kind = "provider"
          /\ state' = CommitProviderFailure(state, a.effect, attempts)
    BY <2>0 DEF Report, Become
  <2>2. Expected(state, a.effect) => Admitted(state, attempts)
    BY <1>0, <2>1, AttemptsAdmitted
  <2>3. QED
    BY <1>0, <2>1, <2>2, ProviderOutcomesSound
<1>4. CASE ProviderOverBudget
  BY <1>0, <1>4, BudgetExhaustedSound DEF ProviderOverBudget, Report, Become
<1>5. CASE ToolReturns
  BY <1>0, <1>5, ToolSound DEF ToolReturns, Report, Become
<1>6. CASE BatchReturns
  BY <1>0, <1>6, BatchSound DEF BatchReturns, Report, Become
<1>7. CASE CancelRun
  BY <1>0, <1>7, QuietStepsSound DEF CancelRun, Become
<1>8. CASE FailRun
  BY <1>0, <1>8, QuietStepsSound DEF FailRun, Become
<1>9. CASE ReportElapsed
  BY <1>0, <1>9, MachineAssumption, QuietStepsSound DEF ReportElapsed, Become
<1>10. CASE CheckExhausted
  BY <1>0, <1>10, QuietStepsSound DEF CheckExhausted, Become
<1>11. CASE UNCHANGED vars
  BY <1>11 DEF vars
<1>12. QED
  BY <1>1, <1>2, <1>3, <1>4, <1>5, <1>6, <1>7, <1>8, <1>9, <1>10, <1>11 DEF Next

LEMMA RunStaysSound == Spec => []Sound(state)
<1>1. Inv /\ Sound(state) /\ [Next]_vars => Sound(state)'
  BY StepKeepsSound
<1>2. QED
  BY <1>1, InitSound, RunStaysGood, PTL DEF Spec

\* Every snapshot any host can hold passes validate_effect_state_history: the
\* calls its history leaves unresolved are its pending tools, in provider order
\* (state/commits.rs against run/validation.rs).
THEOREM SnapshotsAlwaysResume == Spec => []SnapshotsResume
<1>1. Sound(state) => SnapshotsResume
  BY DEF Sound, SnapshotsResume
<1>2. QED
  BY <1>1, RunStaysSound, PTL

\* A completed run has an answer, which ends its history, and a history that
\* validate_history accepts as the start of the next run.
THEOREM CompletedRunsAreResolved == Spec => []CompletedIsResolved
<1>1. Sound(state) => CompletedIsResolved
  BY DEF Sound, Resolved, CompletedIsResolved, ValidateEffectStateHistory, ValidateHistory
<1>2. QED
  BY <1>1, RunStaysSound, PTL

-----------------------------------------------------------------------------
(* Outcomes are committed in order. *)

\* A step either leaves the history and the pending calls alone, or takes the
\* outcome of an effect that is next: a turn of the provider, or the answers of
\* the first pending calls.
Taken(a) ==
    /\ Expected(state, a.effect)
    /\ accepted' = Append(accepted, a)
    /\ \/ a.effect.kind = "provider" /\ Turns(state, state')
       \/ /\ a.effect.kind # "provider"
          /\ state.pending_tools # << >>
          /\ \E n \in 1..Len(state.pending_tools) : AnswersFirst(state, state', n)

LEMMA StepKinds ==
    ASSUME Inv, Next
    PROVE  /\ asked' = asked \cup Ask(state', Len(accepted'))
           /\ \/ accepted' = accepted /\ Holds(state, state')
              \/ \E a \in asked : Taken(a)
<1>0. Good(state) /\ state \in AgentRunState /\ Holds(state, state)
  BY InvIsGood, QuietStepsHold DEF Good
<1>c. \A calls \in Responses \cup {<< >>} : calls \in Seq(Call)
  <2>1. << >> \in Seq(Call)
    OBVIOUS
  <2>2. QED
    BY <2>1, MachineAssumption
<1> DEFINE Kinds == \/ accepted' = accepted /\ Holds(state, state')
                    \/ \E a \in asked : Taken(a)
<1>a. asked' = asked \cup Ask(state', Len(accepted'))
  BY DEF Next, ProviderResponds, BareResponse, ProviderFails, ProviderOverBudget, ToolReturns,
         BatchReturns, CancelRun, FailRun, ReportElapsed, CheckExhausted, Report, Become
<1> SUFFICES Kinds
  BY <1>a
<1>1. CASE ProviderResponds
  <2>1. PICK a \in asked, bound \in TokenBounds, calls \in Responses \cup {<< >>} :
          \E attempts \in AttemptRecords(a.effect, bound) :
            /\ a.effect.kind = "provider"
            /\ Report(a, Expected(state, a.effect),
                      CommitProviderResponse(state, a.effect, calls, calls = << >>, attempts))
    BY <1>1 DEF ProviderResponds
  <2>2. PICK attempts :
          /\ a.effect.kind = "provider"
          /\ Report(a, Expected(state, a.effect),
                    CommitProviderResponse(state, a.effect, calls, calls = << >>, attempts))
    BY <2>1
  <2>3. CASE Expected(state, a.effect)
    <3>1. Turns(state, state')
      BY <1>0, <1>c, <2>2, <2>3, ResponseTurns DEF Report, Become
    <3>2. accepted' = Append(accepted, a)
      BY <2>2, <2>3 DEF Report
    <3>3. Taken(a)
      BY <2>2, <2>3, <3>1, <3>2 DEF Taken
    <3>4. QED
      BY <3>3
  <2>4. CASE ~Expected(state, a.effect)
    BY <1>0, <2>2, <2>4 DEF Report, Become, CommitProviderResponse
  <2>5. QED
    BY <2>3, <2>4
<1>2. CASE BareResponse
  <2>1. PICK a \in asked, calls \in Responses \cup {<< >>}, text \in BOOLEAN,
             measured \in BOOLEAN :
          /\ a.effect.kind = "provider"
          /\ Report(a, Expected(state, a.effect),
                    CommitProviderResponse(state, a.effect, calls, text,
                        [count |-> 0, reserved |-> 0, measured |-> measured]))
    BY <1>2 DEF BareResponse
  <2>2. CASE Expected(state, a.effect)
    <3>1. Turns(state, state')
      BY <1>0, <1>c, <2>1, <2>2, ResponseTurns DEF Report, Become
    <3>2. accepted' = Append(accepted, a)
      BY <2>1, <2>2 DEF Report
    <3>3. Taken(a)
      BY <2>1, <2>2, <3>1, <3>2 DEF Taken
    <3>4. QED
      BY <3>3
  <2>3. CASE ~Expected(state, a.effect)
    BY <1>0, <2>1, <2>3 DEF Report, Become, CommitProviderResponse
  <2>4. QED
    BY <2>2, <2>3
<1>3. CASE ProviderFails
  <2>1. PICK a \in asked, bound \in TokenBounds :
          \E attempts \in AttemptRecords(a.effect, bound) :
            /\ a.effect.kind = "provider"
            /\ Report(a, Expected(state, a.effect),
                      CommitProviderFailure(state, a.effect, attempts))
    BY <1>3 DEF ProviderFails
  <2>2. PICK attempts :
          /\ a.effect.kind = "provider"
          /\ Report(a, Expected(state, a.effect),
                    CommitProviderFailure(state, a.effect, attempts))
    BY <2>1
  <2>3. CASE Expected(state, a.effect)
    <3>1. Turns(state, state')
      BY <1>0, <2>2, <2>3, ProviderEndsTurn DEF Report, Become
    <3>2. accepted' = Append(accepted, a)
      BY <2>2, <2>3 DEF Report
    <3>3. Taken(a)
      BY <2>2, <2>3, <3>1, <3>2 DEF Taken
    <3>4. QED
      BY <3>3
  <2>4. CASE ~Expected(state, a.effect)
    BY <1>0, <2>2, <2>4 DEF Report, Become, CommitProviderFailure
  <2>5. QED
    BY <2>3, <2>4
<1>4. CASE ProviderOverBudget
  <2>1. PICK a \in asked :
          /\ a.effect.kind = "provider"
          /\ Report(a, Expected(state, a.effect), CommitBudgetExhausted(state, a.effect))
    BY <1>4 DEF ProviderOverBudget
  <2>2. CASE Expected(state, a.effect)
    <3>1. Turns(state, state')
      BY <1>0, <2>1, <2>2, ProviderEndsTurn DEF Report, Become
    <3>2. accepted' = Append(accepted, a)
      BY <2>1, <2>2 DEF Report
    <3>3. Taken(a)
      BY <2>1, <2>2, <3>1, <3>2 DEF Taken
    <3>4. QED
      BY <3>3
  <2>3. CASE ~Expected(state, a.effect)
    BY <1>0, <2>1, <2>3 DEF Report, Become, CommitBudgetExhausted
  <2>4. QED
    BY <2>2, <2>3
<1>5. CASE ToolReturns
  <2>1. PICK a \in asked, child \in ChildUsages :
          /\ a.effect.kind = "tool"
          /\ Report(a, Expected(state, a.effect), CommitTool(state, a.effect, child))
    BY <1>5 DEF ToolReturns
  <2>2. CASE Expected(state, a.effect)
    <3>1. state.pending_tools # << >> /\ AnswersFirst(state, state', 1)
      BY <1>0, <2>1, <2>2, ToolAnswers DEF Report, Become
    <3>2. 1 \in 1..Len(state.pending_tools)
      <4>1. state.pending_tools \in Seq(Call)
        BY <1>0 DEF AgentRunState
      <4>2. QED
        BY <3>1, <4>1
    <3>3. accepted' = Append(accepted, a)
      BY <2>1, <2>2 DEF Report
    <3>4. Taken(a)
      BY <2>1, <2>2, <3>1, <3>2, <3>3 DEF Taken
    <3>5. QED
      BY <3>4
  <2>3. CASE ~Expected(state, a.effect)
    BY <1>0, <2>1, <2>3 DEF Report, Become, CommitTool
  <2>4. QED
    BY <2>2, <2>3
<1>6. CASE BatchReturns
  <2>1. PICK a \in asked, child \in ChildUsages, outputs \in 2..Cardinality(CallId) :
          /\ a.effect.kind = "tool-batch"
          /\ Report(a, Expected(state, a.effect) /\ outputs = Len(state.pending_tools),
                    CommitBatch(state, a.effect, outputs, child))
    BY <1>6 DEF BatchReturns
  <2>2. CASE Expected(state, a.effect) /\ outputs = Len(state.pending_tools)
    <3>1. /\ state.pending_tools # << >>
          /\ AnswersFirst(state, state', Len(state.pending_tools))
      BY <1>0, <2>1, <2>2, BatchAnswers DEF Report, Become
    <3>2. Len(state.pending_tools) \in 1..Len(state.pending_tools)
      <4>1. state.pending_tools \in Seq(Call)
        BY <1>0 DEF AgentRunState
      <4>2. QED
        BY <3>1, <4>1
    <3>3. accepted' = Append(accepted, a)
      BY <2>1, <2>2 DEF Report
    <3>4. Taken(a)
      BY <2>1, <2>2, <3>1, <3>2, <3>3 DEF Taken
    <3>5. QED
      BY <3>4
  <2>3. CASE ~(Expected(state, a.effect) /\ outputs = Len(state.pending_tools))
    BY <1>0, <2>1, <2>3 DEF Report, Become, CommitBatch
  <2>4. QED
    BY <2>2, <2>3
<1>7. CASE CancelRun \/ FailRun \/ ReportElapsed \/ CheckExhausted
  BY <1>0, <1>7, QuietStepsHold DEF CancelRun, FailRun, ReportElapsed, CheckExhausted, Become
<1>8. QED
  BY <1>1, <1>2, <1>3, <1>4, <1>5, <1>6, <1>7 DEF Next

\* A provider effect that is asked for names a round the state has reached.  The
\* round it is at was asked for at this position, with no tool pending.
ProvidersAreCurrent ==
    \A a \in asked : a.effect.kind = "provider" =>
        /\ a.effect.key \in Nat
        /\ a.effect.key <= state.model_calls
        /\ a.effect.key = state.model_calls /\ state.status \in Live =>
             a.at = Len(accepted) /\ state.pending_tools = << >>

\* A tool effect that was asked for names a call that is answered, or the next
\* one, and then it was asked for at this position.
ToolsAreCurrent ==
    \A a \in asked : a.effect.kind # "provider" =>
        \/ \E j \in 1..Len(state.history) :
              state.history[j].role = "result" /\ state.history[j].call.id = a.effect.key
        \/ /\ state.pending_tools # << >>
           /\ a.effect.key = state.pending_tools[1].id
           /\ a.at = Len(accepted)

OrderInv == ProvidersAreCurrent /\ ToolsAreCurrent /\ OutcomesInOrder

Fresh(h) == \A i, j \in 1..Len(h) : IdsOf(h[i]) \cap IdsOf(h[j]) # {} => i = j

\* While call ids are fresh, no answered call has the id of one that is pending.
LEMMA PendingIsUnanswered ==
    ASSUME NEW h \in Seq(Message), Correlated(h), Fresh(h),
           NEW pending \in Seq(Call), pending # << >>, Leaves(h, pending),
           NEW j \in 1..Len(h), h[j].role = "result"
    PROVE  h[j].call.id # pending[1].id
<1> SUFFICES ASSUME h[j].call.id = pending[1].id
             PROVE  FALSE
  OBVIOUS
<1>0. Len(h) \in Nat /\ j \in 1..Len(h)
  OBVIOUS
<1>1. PICK i \in 1..Len(h) :
        /\ Len(h) - i < Len(CallsOf(h[i]))
        /\ pending = SubSeq(CallsOf(h[i]), (Len(h) - i) + 1, Len(CallsOf(h[i])))
  BY <1>0 DEF Leaves
<1>2. CallsOf(h[i]) \in Seq(Call) /\ Len(CallsOf(h[i])) \in Nat
  BY CallsAtType
<1>3. /\ (Len(h) - i) + 1 \in 1..Len(CallsOf(h[i]))
      /\ pending[1] = CallsOf(h[i])[(Len(h) - i) + 1]
  BY <1>0, <1>1, <1>2
<1>4. PICK k \in 1..(j - 1) : j - k <= Len(CallsOf(h[k]))
  BY DEF Correlated, Answers
<1>5. k \in 1..Len(h) /\ j - k \in Nat \ {0} /\ k + (j - k) = j
  BY <1>0, <1>4
<1>6. CallsOf(h[k]) \in Seq(Call) /\ Len(CallsOf(h[k])) \in Nat
  BY <1>5, CallsAtType
<1>7. j - k \in 1..Len(CallsOf(h[k]))
  BY <1>4, <1>5, <1>6
<1>8. h[j] = ResultMessage(CallsOf(h[k])[j - k])
  BY <1>0, <1>5, <1>7 DEF Correlated, Answered
<1>9. CallsOf(h[k])[j - k].id = CallsOf(h[i])[(Len(h) - i) + 1].id
  BY <1>3, <1>8 DEF ResultMessage
<1>10. /\ CallsOf(h[k])[j - k].id \in IdsOf(h[k])
       /\ CallsOf(h[i])[(Len(h) - i) + 1].id \in IdsOf(h[i])
  BY <1>3, <1>7 DEF IdsOf, CallsOf
<1>11. k = i
  BY <1>5, <1>9, <1>10 DEF Fresh
<1>12. DistinctIds(CallsOf(h[i]))
  BY DEF Correlated
<1>13. j - k = (Len(h) - i) + 1
  BY <1>3, <1>7, <1>9, <1>11, <1>12 DEF DistinctIds
<1>14. QED
  BY <1>0, <1>11, <1>13

\* Freshness of a history is freshness of what it grew from.
LEMMA FreshBefore ==
    ASSUME NEW h \in Seq(Message), NEW g \in Seq(Message), Len(h) <= Len(g),
           \A j \in 1..Len(h) : g[j] = h[j], Fresh(g)
    PROVE  Fresh(h)
<1>1. \A j \in 1..Len(h) : j \in 1..Len(g)
  OBVIOUS
<1>2. QED
  BY <1>1 DEF Fresh

\* What is asked for after a step is current.
LEMMA AskIsCurrent ==
    ASSUME NEW s \in AgentRunState, NEW position \in Nat, NEW a \in Ask(s, position)
    PROVE  /\ a.at = position
           /\ s.status \in Live
           /\ a.effect.kind = "provider" =>
                a.effect.key = s.model_calls /\ s.pending_tools = << >>
           /\ a.effect.kind # "provider" =>
                s.pending_tools # << >> /\ a.effect.key = s.pending_tools[1].id
BY DEF Ask, NextEffect, NoEffect, ProviderEffect, ToolEffect, BatchEffect

\* An outcome is taken at the position its effect was asked for.
LEMMA TakenInOrder ==
    ASSUME Inv, Sound(state), OrderInv, NEW a \in asked, Expected(state, a.effect),
           a.effect.kind = "provider" \/ IdsAreFresh
    PROVE  a.at = Len(accepted)
<1>0. state \in AgentRunState /\ state.status \in Live
  BY InvIsGood, ExpectedLive DEF Good
<1>1. CASE a.effect.kind = "provider"
  <2>1. a.effect.key = state.model_calls
    BY <1>0, <1>1, ProviderNeedsBudget DEF ProviderEffect
  <2>2. QED
    BY <1>0, <1>1, <2>1 DEF OrderInv, ProvidersAreCurrent
<1>2. CASE a.effect.kind # "provider"
  <2>1. state.pending_tools # << >> /\ a.effect.key = state.pending_tools[1].id
    BY <1>2 DEF Expected, NextEffect, NoEffect, ProviderEffect, ToolEffect, BatchEffect
  <2>2. Fresh(state.history)
    BY <1>2 DEF IdsAreFresh, Fresh
  <2>3. /\ state.history \in Seq(Message) /\ state.pending_tools \in Seq(Call)
        /\ Correlated(state.history) /\ Leaves(state.history, state.pending_tools)
    BY <1>0 DEF AgentRunState, Sound, ValidateEffectStateHistory
  <2>4. ~\E j \in 1..Len(state.history) :
            state.history[j].role = "result" /\ state.history[j].call.id = a.effect.key
    BY <2>1, <2>2, <2>3, PendingIsUnanswered
  <2>5. QED
    BY <1>2, <2>4 DEF OrderInv, ToolsAreCurrent
<1>3. QED
  BY <1>1, <1>2

\* The effects asked for stay current.
LEMMA StepKeepsCurrent ==
    ASSUME Inv, Inv', ProvidersAreCurrent, ToolsAreCurrent, Next
    PROVE  ProvidersAreCurrent' /\ ToolsAreCurrent'
<1>0. /\ state \in AgentRunState /\ state' \in AgentRunState
      /\ Len(accepted) \in Nat /\ Len(accepted') \in Nat
      /\ state.model_calls \in Nat /\ state'.model_calls \in Nat
  BY DEF Inv, TypeOK, AgentRunState
<1>1. asked' = asked \cup Ask(state', Len(accepted'))
  BY StepKinds
<1>2. \/ accepted' = accepted /\ Holds(state, state')
      \/ Turns(state, state')
      \/ /\ state.pending_tools # << >>
         /\ \E n \in 1..Len(state.pending_tools) : AnswersFirst(state, state', n)
  BY StepKinds DEF Taken
<1>3. Grows(state.history, state'.history)
  BY <1>0, <1>2, HistoryGrows
<1>4. ASSUME NEW a \in asked', a.effect.kind = "provider"
      PROVE  /\ a.effect.key \in Nat
             /\ a.effect.key <= state'.model_calls
             /\ a.effect.key = state'.model_calls /\ state'.status \in Live =>
                  a.at = Len(accepted') /\ state'.pending_tools = << >>
  <2>1. CASE a \in asked
    <3>1. /\ a.effect.key \in Nat
          /\ a.effect.key <= state.model_calls
          /\ a.effect.key = state.model_calls /\ state.status \in Live =>
               a.at = Len(accepted) /\ state.pending_tools = << >>
      BY <1>4, <2>1 DEF ProvidersAreCurrent
    <3>2. CASE accepted' = accepted /\ Holds(state, state')
      BY <1>0, <3>1, <3>2 DEF Holds, Live
    <3>3. CASE Turns(state, state')
      BY <1>0, <3>1, <3>3 DEF Turns, Terminal
    <3>4. CASE /\ state.pending_tools # << >>
               /\ \E n \in 1..Len(state.pending_tools) : AnswersFirst(state, state', n)
      BY <1>0, <3>1, <3>4 DEF AnswersFirst
    <3>5. QED
      BY <1>2, <3>2, <3>3, <3>4
  <2>2. CASE a \in Ask(state', Len(accepted'))
    BY <1>0, <1>4, <2>2, AskIsCurrent
  <2>3. QED
    BY <1>1, <2>1, <2>2
<1>5. ASSUME NEW a \in asked', a.effect.kind # "provider"
      PROVE  \/ \E j \in 1..Len(state'.history) :
                  state'.history[j].role = "result" /\ state'.history[j].call.id = a.effect.key
             \/ /\ state'.pending_tools # << >>
                /\ a.effect.key = state'.pending_tools[1].id
                /\ a.at = Len(accepted')
  <2>1. CASE a \in asked
    <3>1. CASE \E j \in 1..Len(state.history) :
                 state.history[j].role = "result" /\ state.history[j].call.id = a.effect.key
      <4>1. PICK j \in 1..Len(state.history) :
              state.history[j].role = "result" /\ state.history[j].call.id = a.effect.key
        BY <3>1
      <4>2. j \in 1..Len(state'.history) /\ state'.history[j] = state.history[j]
        BY <1>3 DEF Grows
      <4>3. QED
        BY <4>1, <4>2
    <3>2. CASE /\ state.pending_tools # << >>
               /\ a.effect.key = state.pending_tools[1].id
               /\ a.at = Len(accepted)
      <4>1. CASE accepted' = accepted /\ Holds(state, state')
        BY <3>2, <4>1 DEF Holds
      <4>2. CASE Turns(state, state')
        BY <3>2, <4>2 DEF Turns
      <4>3. ASSUME NEW n \in 1..Len(state.pending_tools), AnswersFirst(state, state', n)
            PROVE  \E j \in 1..Len(state'.history) :
                     state'.history[j].role = "result" /\ state'.history[j].call.id = a.effect.key
        <5>1. Len(state.history) \in Nat /\ n \in Nat \ {0} /\ 1 \in 1..n
          BY <1>0 DEF AgentRunState
        <5>2. /\ Len(state.history) + 1 \in 1..Len(state'.history)
              /\ state'.history[Len(state.history) + 1] = ResultMessage(state.pending_tools[1])
          BY <4>3, <5>1 DEF AnswersFirst
        <5>3. QED
          BY <3>2, <5>2 DEF ResultMessage
      <4>4. QED
        BY <1>2, <4>1, <4>2, <4>3
    <3>3. QED
      BY <1>5, <2>1, <3>1, <3>2 DEF ToolsAreCurrent
  <2>2. CASE a \in Ask(state', Len(accepted'))
    BY <1>0, <1>5, <2>2, AskIsCurrent
  <2>3. QED
    BY <1>1, <2>1, <2>2
<1>6. QED
  BY <1>4, <1>5 DEF ProvidersAreCurrent, ToolsAreCurrent

LEMMA StepKeepsOutcomesInOrder ==
    ASSUME Inv, Inv', Sound(state), OrderInv, Next
    PROVE  OutcomesInOrder'
<1>0. /\ state \in AgentRunState /\ accepted \in Seq(Asked) /\ accepted' \in Seq(Asked)
      /\ Len(accepted) \in Nat
  BY DEF Inv, TypeOK
<1>1. Grows(state.history, state'.history)
  BY <1>0, StepKinds, HistoryGrows DEF Taken
<1>2. IdsAreFresh' => IdsAreFresh
  <2>1. Fresh(state'.history) => Fresh(state.history)
    BY <1>1, FreshBefore DEF Grows
  <2>2. QED
    BY <2>1 DEF Fresh, IdsAreFresh
<1>3. SUFFICES ASSUME NEW i \in 1..Len(accepted'),
                      accepted'[i].effect.kind = "provider" \/ IdsAreFresh'
               PROVE  accepted'[i].at = i - 1
  BY DEF OutcomesInOrder
<1>4. CASE accepted' = accepted
  BY <1>2, <1>3, <1>4 DEF OrderInv, OutcomesInOrder
<1>5. ASSUME NEW a \in asked, Taken(a)
      PROVE  accepted'[i].at = i - 1
  <2>1. /\ Len(accepted') = Len(accepted) + 1
        /\ \A k \in 1..Len(accepted) : accepted'[k] = accepted[k]
        /\ accepted'[Len(accepted) + 1] = a
    <3>1. a \in Asked /\ accepted' = Append(accepted, a)
      BY <1>5 DEF Taken, Inv, TypeOK
    <3>2. QED
      BY <1>0, <3>1, AppendProperties
  <2>2. CASE i \in 1..Len(accepted)
    BY <1>2, <1>3, <2>1, <2>2 DEF OrderInv, OutcomesInOrder
  <2>3. CASE i = Len(accepted) + 1
    <3>1. Expected(state, a.effect) /\ (a.effect.kind = "provider" \/ IdsAreFresh)
      BY <1>2, <1>3, <1>5, <2>1, <2>3 DEF Taken
    <3>2. a.at = Len(accepted)
      BY <3>1, TakenInOrder
    <3>3. QED
      BY <1>0, <2>1, <2>3, <3>2
  <2>4. QED
    BY <1>0, <2>1, <2>2, <2>3
<1>6. QED
  BY <1>4, <1>5, StepKinds

LEMMA InitOrder == Init => OrderInv
<1> SUFFICES ASSUME Init PROVE OrderInv
  OBVIOUS
<1>1. state \in AgentRunState /\ state.model_calls \in Nat
  BY InitGood, InvIsGood DEF Good, AgentRunState
<1>2. accepted = << >> /\ asked = Ask(state, 0) /\ Len(accepted) = 0
  BY DEF Init
<1>3. ProvidersAreCurrent /\ ToolsAreCurrent
  BY <1>1, <1>2, AskIsCurrent DEF ProvidersAreCurrent, ToolsAreCurrent
<1>4. OutcomesInOrder
  BY <1>2 DEF OutcomesInOrder
<1>5. QED
  BY <1>3, <1>4 DEF OrderInv

LEMMA StepKeepsOrder == Inv /\ Inv' /\ Sound(state) /\ OrderInv /\ [Next]_vars => OrderInv'
<1> SUFFICES ASSUME Inv, Inv', Sound(state), OrderInv, [Next]_vars PROVE OrderInv'
  OBVIOUS
<1>1. CASE Next
  BY <1>1, StepKeepsCurrent, StepKeepsOutcomesInOrder DEF OrderInv
<1>2. CASE UNCHANGED vars
  BY <1>2
  DEF vars, OrderInv, ProvidersAreCurrent, ToolsAreCurrent, OutcomesInOrder, IdsAreFresh
<1>3. QED
  BY <1>1, <1>2

\* Whatever a host redelivers, reorders, repeats or loses, the outcome accepted
\* at a position is the one asked for there: always for provider calls, for tool
\* calls as long as the provider does not use a call id in two rounds
\* (expect_effect and expect_batch in state/commits.rs).
THEOREM OutcomesAreInOrder == Spec => []OutcomesInOrder
<1>1. OrderInv => OutcomesInOrder
  BY DEF OrderInv
<1>2. QED
  BY <1>1, InitOrder, StepKeepsOrder, RunStaysGood, RunStaysSound, PTL DEF Spec

-----------------------------------------------------------------------------
(* The run keeps the contract of a run (RunContract), whatever its host does. *)

Contract == INSTANCE RunContract WITH
    status <- state.status, history <- state.history, result <- "none"

LEMMA InitIdle == Init => NoCallLeft(state)
BY DEF Init, NoCallLeft, NewState

LEMMA StepKeepsIdle == Inv /\ NoCallLeft(state) /\ [Next]_vars => NoCallLeft(state')
<1> SUFFICES ASSUME Inv, NoCallLeft(state), [Next]_vars PROVE NoCallLeft(state')
  OBVIOUS
<1>1. CASE UNCHANGED vars
  BY <1>1 DEF vars
<1>2. CASE Next
  BY <1>2, StepKinds, ExpectedLive, StaysIdle DEF Taken
<1>3. QED
  BY <1>1, <1>2

\* The contract's rules of a history are the ones of the state machine.
LEMMA ContractRules ==
    /\ \A h : Contract!Correlated(h) <=> Correlated(h)
    /\ \A h : Contract!ValidateHistory(h) <=> ValidateHistory(h)
    /\ \A h, pending : Contract!Leaves(h, pending) <=> Leaves(h, pending)
    /\ Contract!TextMessage = TextMessage
    /\ Contract!Live = Live
BY DEF Contract!Correlated, Correlated, Contract!Leaves, Leaves, Contract!CallsOf, CallsOf,
       Contract!DistinctIds, DistinctIds, Contract!Answered, Answered,
       Contract!ResultMessage, ResultMessage, Contract!Answers, Answers,
       Contract!ValidateHistory, ValidateHistory,
       Contract!TextMessage, TextMessage, Contract!Live, Live

\* A step that leaves status and history alone is a stutter of the contract, any
\* other one an Advance.
LEMMA StepKeepsContract ==
    Inv /\ Sound(state) /\ NoCallLeft(state) /\ Sound(state') /\ NoCallLeft(state') /\ [Next]_vars
        => [Contract!Next]_(Contract!vars)
<1> SUFFICES ASSUME Inv, Sound(state), NoCallLeft(state), Sound(state'), NoCallLeft(state'), [Next]_vars,
                    state'.status # state.status \/ state'.history # state.history
             PROVE  Contract!Next
  BY DEF Contract!vars
<1>0. state \in AgentRunState /\ Next
  BY DEF Inv, TypeOK, vars
<1>1. \/ Holds(state, state')
      \/ Turns(state, state')
      \/ /\ state.status \in Live
         /\ state.pending_tools # << >>
         /\ \E n \in 1..Len(state.pending_tools) : AnswersFirst(state, state', n)
  BY <1>0, StepKinds, ExpectedLive DEF Taken
<1>2. Grows(state.history, state'.history)
  BY <1>0, <1>1, HistoryGrows
<1>3. state.status \in Live /\ state'.status # "pending"
  BY <1>1 DEF Holds, Turns, AnswersFirst, NoCallLeft, Live
<1>4. /\ Correlated(state'.history)
      /\ state'.status \in {"completed", "incomplete"} => Leaves(state'.history, << >>)
      /\ state'.status = "completed" => state'.history[Len(state'.history)] = TextMessage
  BY DEF Sound, ValidateEffectStateHistory, Resolved, NoCallLeft
<1>5. Contract!IsPrefix(state.history, state'.history)
  BY <1>2, PrefixOfGrown DEF Contract!IsPrefix, IsPrefix
<1>6. Contract!Advance
  BY <1>3, <1>4, <1>5, ContractRules DEF Contract!Advance, Contract!Resumable
<1>7. QED
  BY <1>6 DEF Contract!Next

\* The state machine under any host keeps the contract of a run: its history only
\* grows and stays correlated, it never goes back to pending, a terminal status is
\* the last, and a run that completed or was exhausted leaves a history that
\* starts the next one (state/commits.rs and state/effects.rs; docs/SPEC.md:190).
THEOREM MachineKeepsContract == Spec => Contract!Spec
<1>1. Init => Contract!Init
  <2> SUFFICES ASSUME Init PROVE Contract!Init
    OBVIOUS
  <2>1. state.status = "pending" /\ state.history = <<UserMessage>>
    BY DEF Init, NewState
  <2>2. <<UserMessage>> \in Seq(Contract!Message)
    <3>1. UserMessage \in Contract!Message
      BY DEF UserMessage, Contract!Message
    <3>2. QED
      BY <3>1
  <2>3. QED
    BY <2>1, <2>2 DEF Contract!Init
<1>2. Spec => []NoCallLeft(state)
  <2>1. Inv /\ NoCallLeft(state) /\ [Next]_vars => NoCallLeft(state)'
    BY StepKeepsIdle
  <2>2. QED
    BY <2>1, InitIdle, RunStaysGood, PTL DEF Spec
<1>3. Inv /\ Sound(state) /\ NoCallLeft(state) /\ Sound(state)' /\ NoCallLeft(state)' /\ [Next]_vars
        => [Contract!Next]_(Contract!vars)
  BY StepKeepsContract
<1>4. QED
  BY <1>1, <1>2, <1>3, RunStaysGood, RunStaysSound, PTL DEF Spec, Contract!Spec

-----------------------------------------------------------------------------
(* Limits in a tree.  When the children of each run are handed no more     *)
(* than it does not use itself, nothing below a run uses more than the run *)
(* was given.  Sets of runs are sets of paths.                             *)

\* The runs of S that p started, those started by a member of A, and p with all
\* that is below it.
ChildrenIn(S, p) == {q \in S : q # Root /\ Front(q) = p}

HeirsIn(S, A) == {q \in S : q # Root /\ Front(q) \in A}

Below(S, p) == {q \in S : IsPrefix(p, q)}

\* Below a run are the run itself and what is below it by the parent.
LEMMA PathStep ==
    ASSUME NEW p \in Seq(Nat), NEW q \in Seq(Nat), q # << >>
    PROVE  IsPrefix(p, Front(q)) <=> IsPrefix(p, q) /\ q # p
<1>1. Len(p) \in Nat /\ Len(q) \in Nat \ {0}
  OBVIOUS
<1>2. Front(q) \in Seq(Nat) /\ Len(Front(q)) = Len(q) - 1
      /\ \A i \in 1..(Len(q) - 1) : Front(q)[i] = q[i]
  <2> DEFINE n == Len(q) - 1
  <2>1. n \in Nat /\ n \in 0..Len(q)
    BY <1>1
  <2> HIDE DEF n
  <2>2. SubSeq(q, 1, n) \in Seq(Nat) /\ Len(SubSeq(q, 1, n)) = n
        /\ \A i \in 1..n : SubSeq(q, 1, n)[i] = q[i]
    BY <1>1, <2>1
  <2>3. QED
    BY <2>2 DEF n, Front
<1>3. \A r \in Seq(Nat) : IsPrefix(p, r) <=>
         Len(p) <= Len(r) /\ \A i \in 1..Len(p) : p[i] = r[i]
  <2>1. SUFFICES ASSUME NEW r \in Seq(Nat), Len(p) <= Len(r)
                 PROVE  SubSeq(p, 1, Len(p)) = SubSeq(r, 1, Len(p))
                           <=> \A i \in 1..Len(p) : p[i] = r[i]
    BY DEF IsPrefix
  <2> DEFINE a == SubSeq(p, 1, Len(p))
             b == SubSeq(r, 1, Len(p))
  <2>2. /\ a \in Seq(Nat) /\ Len(a) = Len(p) /\ \A i \in 1..Len(p) : a[i] = p[i]
        /\ b \in Seq(Nat) /\ Len(b) = Len(p) /\ \A i \in 1..Len(p) : b[i] = r[i]
    BY <1>1, <2>1
  <2> HIDE DEF a, b
  <2>3. a = b <=> \A i \in 1..Len(p) : p[i] = r[i]
    BY <1>1, <2>2, SeqEqual
  <2>4. QED
    BY <2>3 DEF a, b
<1>4. IsPrefix(p, Front(q)) <=>
         Len(p) <= Len(q) - 1 /\ \A i \in 1..Len(p) : p[i] = Front(q)[i]
  BY <1>2, <1>3
<1>5. IsPrefix(p, q) <=> Len(p) <= Len(q) /\ \A i \in 1..Len(p) : p[i] = q[i]
  BY <1>3
<1>6. ASSUME Len(p) <= Len(q) - 1
      PROVE  (\A i \in 1..Len(p) : p[i] = Front(q)[i]) <=> (\A i \in 1..Len(p) : p[i] = q[i])
  <2>1. \A i \in 1..Len(p) : i \in 1..(Len(q) - 1)
    BY <1>1, <1>6
  <2>2. \A i \in 1..Len(p) : Front(q)[i] = q[i]
    BY <1>2, <2>1
  <2>3. QED
    BY <2>2
<1>7. ASSUME Len(p) = Len(q), \A i \in 1..Len(p) : p[i] = q[i]
      PROVE  q = p
  BY <1>7, SeqEqual
<1>8. QED
  BY <1>1, <1>4, <1>5, <1>6, <1>7

\* What a set of runs uses and what its heirs were given add up to at most what
\* it was given; when the set is p and all below it, its heirs are all but p.
LEMMA WithinByChildren ==
    ASSUME NEW S, IsFiniteSet(S), S \subseteq Seq(Nat),
           \A q \in S : q # Root => Front(q) \in S,
           NEW used, NEW limit, \A q \in S : used[q] \in Nat /\ limit[q] \in Nat,
           \A p \in S : used[p] + SumFunctionOnSet(limit, ChildrenIn(S, p)) <= limit[p],
           NEW p \in S
    PROVE  SumFunctionOnSet(used, Below(S, p)) <= limit[p]
<1> DEFINE Within(A) == SumFunctionOnSet(used, A) + SumFunctionOnSet(limit, HeirsIn(S, A))
                           <= SumFunctionOnSet(limit, A)
           F == {A \in SUBSET S : Within(A)}
           B == Below(S, p)
<1>1. {} \in F
  <2>1. HeirsIn(S, {}) = {}
    BY DEF HeirsIn
  <2>2. SumFunctionOnSet(used, {}) = 0 /\ SumFunctionOnSet(limit, {}) = 0
    BY SumOfNone
  <2>3. Within({})
    <3>1. SumFunctionOnSet(limit, HeirsIn(S, {})) = 0
      BY <2>1, <2>2, Zenon
    <3>2. 0 + 0 <= 0
      OBVIOUS
    <3>3. QED
      BY <2>2, <3>1, <3>2, Zenon
  <2>4. QED
    BY <2>3
<1>2. ASSUME NEW A \in F, NEW x \in S \ A
      PROVE  A \cup {x} \in F
  <2> DEFINE kids == ChildrenIn(S, x)
             heirs == HeirsIn(S, A)
             all == A \cup {x}
  <2>1. A \in SUBSET S /\ Within(A) /\ all \in SUBSET S /\ all \ {x} = A
    BY <1>2
  <2>2. HeirsIn(S, all) = heirs \cup kids /\ heirs \cap kids = {}
        /\ heirs \in SUBSET S /\ kids \in SUBSET S
    BY <1>2 DEF HeirsIn, ChildrenIn
  <2>3. IsFiniteSet(all) /\ IsFiniteSet(heirs) /\ IsFiniteSet(kids)
    BY <2>1, <2>2, FS_Subset
  <2> HIDE DEF kids, heirs, all
  <2>4. /\ SumFunctionOnSet(limit, heirs) \in Nat
        /\ SumFunctionOnSet(limit, kids) \in Nat
        /\ SumFunctionOnSet(limit, heirs \cup kids) =
              SumFunctionOnSet(limit, heirs) + SumFunctionOnSet(limit, kids)
    BY <2>2, <2>3, SumUnion
  <2>5. x \in all /\ \A q \in all : used[q] \in Nat /\ limit[q] \in Nat
    BY <2>1 DEF all
  <2>6. /\ SumFunctionOnSet(used, A) \in Nat
        /\ SumFunctionOnSet(used, all) = used[x] + SumFunctionOnSet(used, A)
    BY <2>1, <2>3, <2>5, SumSplits
  <2>7. /\ SumFunctionOnSet(limit, A) \in Nat
        /\ SumFunctionOnSet(limit, all) = limit[x] + SumFunctionOnSet(limit, A)
    BY <2>1, <2>3, <2>5, SumSplits
  <2>8. used[x] + SumFunctionOnSet(limit, kids) <= limit[x]
        /\ used[x] \in Nat /\ limit[x] \in Nat
    BY DEF kids
  <2>9. SumFunctionOnSet(used, A) + SumFunctionOnSet(limit, heirs) <= SumFunctionOnSet(limit, A)
    BY <2>1 DEF heirs
  <2>10. SumFunctionOnSet(used, all) + SumFunctionOnSet(limit, HeirsIn(S, all))
            <= SumFunctionOnSet(limit, all)
    <3> DEFINE ua == SumFunctionOnSet(used, A)
               la == SumFunctionOnSet(limit, A)
               hs == SumFunctionOnSet(limit, heirs)
               ks == SumFunctionOnSet(limit, kids)
    <3>1. SumFunctionOnSet(limit, HeirsIn(S, all)) = hs + ks
      BY <2>2, <2>4
    <3>2. hs \in Nat /\ ks \in Nat /\ ua \in Nat /\ la \in Nat
          /\ used[x] + ks <= limit[x] /\ used[x] \in Nat /\ limit[x] \in Nat
          /\ ua + hs <= la
      BY <2>4, <2>6, <2>7, <2>8, <2>9
    <3>3. SumFunctionOnSet(used, all) = used[x] + ua /\ SumFunctionOnSet(limit, all) = limit[x] + la
      BY <2>6, <2>7
    <3> HIDE DEF ua, la, hs, ks
    <3>4. QED
      BY <3>1, <3>2, <3>3
  <2>11. Within(all)
    BY <2>10
  <2>12. QED
    BY <2>1, <2>11 DEF all
<1>3. B \in SUBSET S /\ IsFiniteSet(B)
  BY FS_Subset DEF Below
<1>4. \A A \in SUBSET S : IsFiniteSet(A) => A \in F
  <2>1. SUFFICES ASSUME NEW A \in SUBSET S, IsFiniteSet(A) PROVE A \in F
    OBVIOUS
  <2> DEFINE G == F \cap SUBSET A
  <2>2. G \in SUBSET (SUBSET A) /\ {} \in G
    BY <1>1
  <2>3. \A T \in G : \A x \in A \ T : T \cup {x} \in G
    <3> HIDE DEF F
    <3>1. QED
      BY <1>2
  <2> HIDE DEF G
  <2>4. A \in G
    BY <2>1, <2>2, <2>3, FiniteSetInduction
  <2>5. QED
    BY <2>4 DEF G
<1>5. Within(B)
  BY <1>3, <1>4
<1>6. HeirsIn(S, B) = B \ {p}
  <2>1. \A q \in S : q # Root => (Front(q) \in B <=> q \in B /\ q # p)
    <3>1. SUFFICES ASSUME NEW q \in S, q # Root PROVE Front(q) \in B <=> q \in B /\ q # p
      OBVIOUS
    <3>2. IsPrefix(p, Front(q)) <=> IsPrefix(p, q) /\ q # p
      BY <3>1, PathStep DEF Root
    <3>3. QED
      BY <3>1, <3>2 DEF Below
  <2>2. \A q \in S : q = Root /\ q \in B => q = p
    <3>1. p \in Seq(Nat) /\ Len(p) \in Nat
      OBVIOUS
    <3>2. IsPrefix(p, << >>) => p = << >>
      BY <3>1 DEF IsPrefix
    <3>3. QED
      BY <3>2 DEF Root, Below
  <2>3. QED
    BY <2>1, <2>2 DEF HeirsIn, Below
<1>7. p \in B
  BY DEF Below, IsPrefix
<1> HIDE DEF B
<1>8. /\ SumFunctionOnSet(limit, B \ {p}) \in Nat
      /\ SumFunctionOnSet(limit, B) = limit[p] + SumFunctionOnSet(limit, B \ {p})
  BY <1>3, <1>7, SumSplits
<1>9. SumFunctionOnSet(used, B) \in Nat
  BY <1>3, <1>7, SumSplits
<1>10. SumFunctionOnSet(used, B) + SumFunctionOnSet(limit, B \ {p}) <= SumFunctionOnSet(limit, B)
  BY <1>5, <1>6
<1>11. limit[p] \in Nat
  OBVIOUS
<1>12. SumFunctionOnSet(used, B) <= limit[p]
  BY <1>8, <1>9, <1>10, <1>11
<1>13. QED
  BY <1>12 DEF B

-----------------------------------------------------------------------------
(* The books of one run: what it used and what it handed to its children,  *)
(* against what its state is charged and what its effect will charge.      *)

\* The types of a call of the executing effect and of a run.
Member == [stage : {"queued", "running", "done"}, child : Seq(Nat), usage : RunUsage]

RunRecord == [state : AgentRunState,
              stage : {"top", "calling", "tools", "returned"},
              attempt : Nat,
              members : Seq(Member),
              started : Nat,
              cancelled : BOOLEAN,
              dropped : BOOLEAN,
              made : Nat,
              tokens : Nat]

\* The members that hold a share: their children have been started.
Sharing(run) == {i \in DOMAIN run.members : run.members[i].child # Root}

\* What the executing effect adds to the calls charged when it commits, and to
\* the tokens.
DueCalls(run) ==
    CASE run.stage = "calling" -> run.attempt
      [] run.stage = "tools" -> Cardinality(Sharing(run)) * DelegatedCalls(run.state)
      [] OTHER -> 0

DueTokens(run) ==
    CASE run.stage = "calling" -> run.attempt * NextModelTokenReservation(run.state)
      [] run.stage = "tools" -> Cardinality(Sharing(run)) * DelegatedTokens(run.state)
      [] OTHER -> 0

\* The executing effect is the one that is next, within what was admitted.
InEffect(run) ==
    /\ run.stage = "calling" =>
          /\ NextEffect(run.state).kind = "provider"
          /\ run.attempt > 0
          /\ MayAttempt(run.state, NextModelTokenReservation(run.state), run.attempt)
    /\ run.stage = "tools" =>
          /\ NextEffect(run.state).kind \in {"tool", "tool-batch"}
          /\ Len(run.members) = IF NextEffect(run.state).kind = "tool"
                                THEN 1 ELSE Len(run.state.pending_tools)
          /\ \A i \in Sharing(run) : /\ run.state.pending_tools[i].tool \in Delegating
                                     /\ run.members[i].stage # "queued"

\* children and childTokens are the limits of the children ever started.
CallsBalance(run, children) ==
    run.made + children <=
        IF run.stage = "returned" THEN run.state.plan.model_call_limit
        ELSE ChargedCalls(run.state) + DueCalls(run)

TokensBalance(run, childTokens) ==
    run.state.plan.token_limit # Unset =>
        run.tokens + childTokens <=
            IF run.stage = "returned" THEN run.state.plan.token_limit
            ELSE run.state.reserved_tokens + DueTokens(run)

RunBalances(run, children, childTokens) ==
    /\ run \in RunRecord
    /\ Good(run.state)
    /\ children \in Nat
    /\ run.state.plan.token_limit # Unset => childTokens \in Nat
    /\ InEffect(run)
    /\ CallsBalance(run, children)
    /\ TokensBalance(run, childTokens)

LEMMA SharingFinite ==
    ASSUME NEW run \in RunRecord
    PROVE  IsFiniteSet(Sharing(run)) /\ Cardinality(Sharing(run)) \in Nat
<1>1. Len(run.members) \in Nat /\ DOMAIN run.members = 1..Len(run.members)
  BY DEF RunRecord
<1>2. IsFiniteSet(1..Len(run.members))
  BY <1>1, FS_Interval
<1>3. Sharing(run) \subseteq 1..Len(run.members)
  BY <1>1 DEF Sharing
<1>4. QED
  BY <1>2, <1>3, FS_Subset, FS_CardinalityType

\* Only pending delegations hold shares.
LEMMA SharingDelegates ==
    ASSUME NEW run \in RunRecord, InEffect(run), run.stage = "tools"
    PROVE  /\ Sharing(run) \subseteq PendingDelegations(run.state)
           /\ Cardinality(Sharing(run)) <= Cardinality(PendingDelegations(run.state))
           /\ NextEffect(run.state).kind = "tool" => Sharing(run) \subseteq {1}
<1> DEFINE s == run.state
           n == Len(run.members)
<1>1. s \in AgentRunState /\ n \in Nat /\ DOMAIN run.members = 1..n
  BY DEF RunRecord
<1>2. /\ Expected(s, NextEffect(s))
      /\ NextEffect(s).kind \in {"tool", "tool-batch"}
      /\ n = IF NextEffect(s).kind = "tool" THEN 1 ELSE Len(s.pending_tools)
      /\ \A i \in Sharing(run) : s.pending_tools[i].tool \in Delegating
  BY DEF InEffect, Expected, NoEffect
<1>3. s.pending_tools # << >> /\ Len(s.pending_tools) \in Nat
  <2>1. s.pending_tools # << >>
    BY <1>1, <1>2, ToolNeedsCall
  <2>2. s.pending_tools \in Seq(Call)
    BY <1>1 DEF AgentRunState
  <2>3. QED
    BY <2>1, <2>2
<1>4. s.pending_tools \in Seq(Call)
  BY <1>1 DEF AgentRunState
<1>5. Sharing(run) \subseteq 1..n
  BY <1>1 DEF Sharing
<1> HIDE DEF s, n
<1>6. n <= Len(s.pending_tools)
  BY <1>2, <1>3, <1>4
<1>7. Sharing(run) \subseteq PendingDelegations(s)
  BY <1>1, <1>2, <1>3, <1>5, <1>6 DEF PendingDelegations
<1>8. Cardinality(Sharing(run)) <= Cardinality(PendingDelegations(s))
  BY <1>1, <1>7, PendingFinite, FS_Subset
<1>9. NextEffect(s).kind = "tool" => Sharing(run) \subseteq {1}
  BY <1>2, <1>5
<1>10. QED
  BY <1>7, <1>8, <1>9 DEF s

\* What a run may read of its own budgets.
LEMMA BudgetFacts ==
    ASSUME NEW run \in RunRecord, Good(run.state)
    PROVE  LET s == run.state IN
           /\ s \in AgentRunState /\ s.plan \in Plan
           /\ s.plan.model_call_limit \in Nat /\ s.reserved_tokens \in Nat
           /\ ChargedCalls(s) \in Nat /\ RemainingCalls(s) \in Nat
           /\ ChargedCalls(s) + RemainingCalls(s) = s.plan.model_call_limit
           /\ s.plan.token_limit # Unset =>
                 /\ s.plan.token_limit \in Nat /\ RemainingTokens(s) \in Nat
                 /\ s.reserved_tokens + RemainingTokens(s) = s.plan.token_limit
           /\ DelegatedCalls(s) \in Nat /\ DelegatedTokens(s) \in Nat
           /\ NextModelTokenReservation(s) \in Nat \ {0}
<1> DEFINE s == run.state
<1>1. s \in AgentRunState
  BY DEF RunRecord
<1>2. s.plan \in Plan /\ s.reserved_tokens \in Nat /\ Len(s.history) \in Nat
  BY <1>1 DEF AgentRunState
<1>3. WithinCalls(s) /\ WithinTokens(s)
  BY DEF Good
<1> HIDE DEF s
<1>4. /\ ChargedCalls(s) \in Nat /\ RemainingCalls(s) \in Nat
      /\ s.plan.token_limit # Unset => RemainingTokens(s) \in Nat
      /\ DelegatedCalls(s) \in Nat /\ DelegatedTokens(s) \in Nat
  BY <1>1, RemainingType
<1>5. s.plan.model_call_limit \in Nat /\ s.plan.token_limit \in Nat \cup {Unset}
  BY <1>2 DEF Plan
<1>6. ChargedCalls(s) + RemainingCalls(s) = s.plan.model_call_limit
  BY <1>3, <1>4, <1>5 DEF WithinCalls, RemainingCalls, Minus
<1>7. ASSUME s.plan.token_limit # Unset
      PROVE  s.reserved_tokens + RemainingTokens(s) = s.plan.token_limit
  BY <1>2, <1>3, <1>5, <1>7 DEF WithinTokens, RemainingTokens, Minus
<1>8. NextModelTokenReservation(s) \in Nat \ {0}
  <2> DEFINE m == MessageTokens * Len(s.history)
  <2>1. m \in Nat
    BY <1>2, TokensAssumption
  <2> HIDE DEF m
  <2>2. RequestTokens + m \in Nat \ {0}
    BY <2>1, TokensAssumption
  <2>3. QED
    BY <2>2 DEF m, NextModelTokenReservation
<1>9. QED
  BY <1>1, <1>2, <1>4, <1>5, <1>6, <1>7, <1>8 DEF s

\* What the executing effect will charge is a number, and the budgets hold it.
LEMMA DueFits ==
    ASSUME NEW run \in RunRecord, Good(run.state), InEffect(run)
    PROVE  /\ DueCalls(run) \in Nat /\ DueTokens(run) \in Nat
           /\ DueCalls(run) <= RemainingCalls(run.state)
           /\ run.state.plan.token_limit # Unset =>
                 DueTokens(run) <= RemainingTokens(run.state)
<1> DEFINE s == run.state
           r == NextModelTokenReservation(s)
           k == Cardinality(Sharing(run))
<1>1. /\ s \in AgentRunState
      /\ RemainingCalls(s) \in Nat
      /\ s.plan.token_limit # Unset => RemainingTokens(s) \in Nat
      /\ DelegatedCalls(s) \in Nat /\ DelegatedTokens(s) \in Nat
      /\ r \in Nat \ {0}
  BY BudgetFacts
<1>2. k \in Nat /\ run.attempt \in Nat
  BY SharingFinite DEF RunRecord
<1> HIDE DEF s, r, k
<1>3. CASE run.stage = "calling"
  <2>1. run.attempt > 0 /\ MayAttempt(s, r, run.attempt)
    BY <1>3 DEF InEffect, s, r
  <2>2. DueCalls(run) = run.attempt /\ DueTokens(run) = run.attempt * r
    BY <1>3 DEF DueCalls, DueTokens, s, r
  <2>3. run.attempt <= RemainingCalls(s)
    BY <2>1 DEF MayAttempt
  <2>4. ASSUME s.plan.token_limit # Unset
        PROVE  run.attempt * r <= RemainingTokens(s)
    <3>1. run.attempt <= RemainingTokens(s) \div MaxOf(r, 1)
      BY <2>1, <2>4 DEF MayAttempt
    <3>2. QED
      BY <1>1, <1>2, <2>4, <3>1, AttemptsFit
  <2>5. run.attempt * r \in Nat
    BY <1>1, <1>2
  <2>6. QED
    BY <1>2, <2>2, <2>3, <2>4, <2>5 DEF s
<1>4. CASE run.stage = "tools"
  <2>1. DueCalls(run) = k * DelegatedCalls(s) /\ DueTokens(run) = k * DelegatedTokens(s)
    BY <1>4 DEF DueCalls, DueTokens, s, k
  <2>2. k < Shares(s) /\ Shares(s) \in Nat \ {0}
    <3>1. k <= Cardinality(PendingDelegations(s))
      BY <1>4, SharingDelegates DEF s, k
    <3>2. QED
      BY <1>1, <1>2, <3>1, SharesType DEF Shares
  <2>3. k * DelegatedCalls(s) <= RemainingCalls(s)
    BY <1>1, <1>2, <2>2, SharesFit DEF DelegatedCalls
  <2>4. ASSUME s.plan.token_limit # Unset
        PROVE  k * DelegatedTokens(s) <= RemainingTokens(s)
    <3>1. DelegatedTokens(s) = RemainingTokens(s) \div Shares(s)
      BY <2>4 DEF DelegatedTokens
    <3>2. QED
      BY <1>1, <1>2, <2>2, <2>4, <3>1, SharesFit
  <2>5. k * DelegatedCalls(s) \in Nat /\ k * DelegatedTokens(s) \in Nat
    BY <1>1, <1>2
  <2>6. QED
    BY <2>1, <2>3, <2>4, <2>5 DEF s
<1>5. CASE run.stage \notin {"calling", "tools"}
  <2>1. DueCalls(run) = 0 /\ DueTokens(run) = 0
    BY <1>5 DEF DueCalls, DueTokens
  <2>2. QED
    BY <1>1, <2>1 DEF s
<1>6. QED
  BY <1>3, <1>4, <1>5

\* What a run used and handed on is within its limits at any moment.
LEMMA RunWithinLimits ==
    ASSUME NEW run, NEW c, NEW ct, RunBalances(run, c, ct)
    PROVE  /\ run.made + c <= run.state.plan.model_call_limit
           /\ run.state.plan.token_limit # Unset =>
                 run.tokens + ct <= run.state.plan.token_limit
<1> DEFINE s == run.state
<1>1. run \in RunRecord /\ Good(s) /\ InEffect(run) /\ c \in Nat
      /\ run.made \in Nat /\ run.tokens \in Nat
  BY DEF RunBalances, RunRecord
<1>2. /\ DueCalls(run) \in Nat /\ DueTokens(run) \in Nat
      /\ DueCalls(run) <= RemainingCalls(s)
      /\ s.plan.token_limit # Unset => DueTokens(run) <= RemainingTokens(s)
  BY <1>1, DueFits
<1>3. /\ s.plan.model_call_limit \in Nat /\ s.reserved_tokens \in Nat
      /\ ChargedCalls(s) \in Nat /\ RemainingCalls(s) \in Nat
      /\ ChargedCalls(s) + RemainingCalls(s) = s.plan.model_call_limit
      /\ s.plan.token_limit # Unset =>
            /\ s.plan.token_limit \in Nat /\ RemainingTokens(s) \in Nat
            /\ s.reserved_tokens + RemainingTokens(s) = s.plan.token_limit
  BY <1>1, BudgetFacts
<1>4. run.made + c <= s.plan.model_call_limit
  BY <1>1, <1>2, <1>3 DEF RunBalances, CallsBalance
<1>5. ASSUME s.plan.token_limit # Unset
      PROVE  run.tokens + ct <= s.plan.token_limit
  <2>1. ct \in Nat
    BY <1>5 DEF RunBalances
  <2>2. QED
    BY <1>1, <1>2, <1>3, <1>5, <2>1 DEF RunBalances, TokensBalance
<1>6. QED
  BY <1>4, <1>5

\* The runs that the members of the executing effect name.
Started(run) == {Root} \cup {run.members[i].child : i \in DOMAIN run.members}

\* From run to next a run keeps its plan and its children, and its books balance.
Follows(run, next) ==
    /\ next.state.plan = run.state.plan
    /\ next.started = run.started
    /\ Started(next) \subseteq Started(run)
    /\ \A c, ct : RunBalances(run, c, ct) => RunBalances(next, c, ct)

\* The books are about these fields only.
SameBooks(run, next) ==
    /\ next \in RunRecord
    /\ next.state = run.state
    /\ next.stage = run.stage
    /\ next.attempt = run.attempt
    /\ next.members = run.members
    /\ next.started = run.started
    /\ next.made = run.made
    /\ next.tokens = run.tokens

LEMMA SameBooksFollow ==
    ASSUME NEW run, NEW next, SameBooks(run, next)
    PROVE  Follows(run, next)
<1>1. Started(next) = Started(run) /\ Sharing(next) = Sharing(run)
  BY DEF SameBooks, Started, Sharing
<1>2. DueCalls(next) = DueCalls(run) /\ DueTokens(next) = DueTokens(run)
  BY <1>1 DEF SameBooks, DueCalls, DueTokens
<1>3. InEffect(next) <=> InEffect(run)
  BY <1>1 DEF SameBooks, InEffect
<1>4. \A c, ct : RunBalances(run, c, ct) => RunBalances(next, c, ct)
  BY <1>2, <1>3 DEF SameBooks, RunBalances, CallsBalance, TokensBalance
<1>5. QED
  BY <1>1, <1>4 DEF SameBooks, Follows

LEMMA FlagsFollow ==
    ASSUME NEW run \in RunRecord
    PROVE  /\ Follows(run, run)
           /\ Follows(run, [run EXCEPT !.cancelled = TRUE])
           /\ Follows(run, [run EXCEPT !.dropped = TRUE])
<1>1. /\ SameBooks(run, run)
      /\ SameBooks(run, [run EXCEPT !.cancelled = TRUE])
      /\ SameBooks(run, [run EXCEPT !.dropped = TRUE])
  BY DEF SameBooks, RunRecord
<1>2. QED
  BY <1>1, SameBooksFollow

\* A run that returns has spent no more than its limits.
LEMMA ReturnFollows ==
    ASSUME NEW run \in RunRecord, NEW s, Good(s), s.plan = run.state.plan
    PROVE  Follows(run, Returned(run, s))
<1> DEFINE next == Returned(run, s)
<1>1. /\ next \in RunRecord
      /\ next.state = s /\ next.stage = "returned" /\ next.members = << >>
      /\ next.started = run.started /\ next.made = run.made /\ next.tokens = run.tokens
  <2>1. s \in AgentRunState /\ << >> \in Seq(Member)
    BY DEF Good
  <2>2. QED
    BY <2>1 DEF Returned, RunRecord
<1> HIDE DEF next
<1>2. DOMAIN next.members = {}
  BY <1>1
<1>3. Started(next) \subseteq Started(run)
  BY <1>2 DEF Started
<1>4. InEffect(next)
  BY <1>1 DEF InEffect
<1>5. ASSUME NEW c, NEW ct, RunBalances(run, c, ct)
      PROVE  RunBalances(next, c, ct)
  <2>1. /\ run.made + c <= run.state.plan.model_call_limit
        /\ run.state.plan.token_limit # Unset => run.tokens + ct <= run.state.plan.token_limit
    BY <1>5, RunWithinLimits
  <2>2. QED
    BY <1>1, <1>4, <1>5, <2>1 DEF RunBalances, CallsBalance, TokensBalance
<1>6. QED
  BY <1>1, <1>3, <1>5 DEF Follows, next

\* From run to next what the effect was due is charged to the state.
Settles(run, next) ==
    /\ next \in RunRecord
    /\ next.stage \notin {"returned", "calling", "tools"}
    /\ Started(next) \subseteq Started(run)
    /\ next.started = run.started /\ next.made = run.made /\ next.tokens = run.tokens
    /\ Good(next.state)
    /\ next.state.plan = run.state.plan
    /\ ChargedCalls(next.state) >= ChargedCalls(run.state) + DueCalls(run)
    /\ run.state.plan.token_limit # Unset =>
          next.state.reserved_tokens >= run.state.reserved_tokens + DueTokens(run)

LEMMA SettledFollows ==
    ASSUME NEW run \in RunRecord, run.stage # "returned", NEW next, Settles(run, next)
    PROVE  Follows(run, next)
<1>1. Started(next) \subseteq Started(run)
  BY DEF Settles
<1>2. InEffect(next)
  BY DEF Settles, InEffect
<1>3. DueCalls(next) = 0 /\ DueTokens(next) = 0
  BY DEF Settles, DueCalls, DueTokens
<1>4. ASSUME NEW c, NEW ct, RunBalances(run, c, ct)
      PROVE  RunBalances(next, c, ct)
  <2>1. /\ run.made \in Nat /\ run.tokens \in Nat /\ c \in Nat
        /\ run.state.plan.token_limit # Unset => ct \in Nat
        /\ Good(run.state) /\ InEffect(run)
    BY <1>4 DEF RunBalances, RunRecord
  <2>2. /\ DueCalls(run) \in Nat /\ DueTokens(run) \in Nat
        /\ ChargedCalls(run.state) \in Nat /\ run.state.reserved_tokens \in Nat
    BY <2>1, DueFits, BudgetFacts
  <2>3. ChargedCalls(next.state) \in Nat /\ next.state.reserved_tokens \in Nat
    BY BudgetFacts DEF Settles
  <2>4. run.made + c <= ChargedCalls(next.state) + DueCalls(next)
    <3>1. run.made + c <= ChargedCalls(run.state) + DueCalls(run)
      BY <1>4 DEF RunBalances, CallsBalance
    <3>2. ChargedCalls(next.state) >= ChargedCalls(run.state) + DueCalls(run)
      BY DEF Settles
    <3>3. QED
      BY <1>3, <2>1, <2>2, <2>3, <3>1, <3>2
  <2>5. ASSUME run.state.plan.token_limit # Unset
        PROVE  run.tokens + ct <= next.state.reserved_tokens + DueTokens(next)
    <3>1. run.tokens + ct <= run.state.reserved_tokens + DueTokens(run)
      BY <1>4, <2>5 DEF RunBalances, TokensBalance
    <3>2. next.state.reserved_tokens >= run.state.reserved_tokens + DueTokens(run)
      BY <2>5 DEF Settles
    <3>3. QED
      BY <1>3, <2>1, <2>2, <2>3, <2>5, <3>1, <3>2
  <2>6. QED
    BY <1>2, <2>1, <2>4, <2>5 DEF Settles, RunBalances, CallsBalance, TokensBalance
<1>5. QED
  BY <1>1, <1>4 DEF Settles, Follows

\* The first attempt of an admitted provider effect is within allowed_attempts.
LEMMA FirstAttemptFits ==
    ASSUME NEW run \in RunRecord, Good(run.state),
           NextEffect(run.state).kind = "provider",
           NEW r, r = NextModelTokenReservation(run.state),
           ~OverTokenBudget(run.state, r)
    PROVE  MayAttempt(run.state, r, 1)
<1> DEFINE s == run.state
<1>1. /\ s \in AgentRunState /\ s.plan \in Plan
      /\ s.plan.model_call_limit \in Nat
      /\ ChargedCalls(s) \in Nat /\ RemainingCalls(s) \in Nat
      /\ ChargedCalls(s) + RemainingCalls(s) = s.plan.model_call_limit
      /\ s.plan.token_limit # Unset => RemainingTokens(s) \in Nat
      /\ r \in Nat \ {0}
  BY BudgetFacts
<1>2. NextEffect(s).kind = "provider" /\ ~OverTokenBudget(s, r)
  OBVIOUS
<1> HIDE DEF s
<1>3. 1 <= s.plan.provider_max_attempts
  BY <1>1 DEF Plan
<1>4. 1 <= RemainingCalls(s)
  <2>1. Expected(s, NextEffect(s))
    BY <1>2 DEF Expected, NoEffect
  <2>2. ChargedCalls(s) < s.plan.model_call_limit
    BY <1>1, <1>2, <2>1, ProviderNeedsBudget
  <2>3. QED
    BY <1>1, <2>2
<1>5. ASSUME s.plan.token_limit # Unset
      PROVE  1 <= RemainingTokens(s) \div MaxOf(r, 1)
  <2>1. r <= RemainingTokens(s) /\ RemainingTokens(s) \in Nat
    BY <1>1, <1>2, <1>5 DEF OverTokenBudget
  <2>2. MaxOf(r, 1) = r
    BY <1>1 DEF MaxOf
  <2>3. 1 <= RemainingTokens(s) \div r
    BY <1>1, <2>1
  <2>4. QED
    BY <2>2, <2>3
<1>6. QED
  BY <1>3, <1>4, <1>5 DEF MayAttempt, s

\* An attempt is on the books before it is answered.
Tries(run, n, r) ==
    [run EXCEPT !.stage = "calling", !.attempt = n, !.made = @ + 1, !.tokens = @ + r]

LEMMA AttemptFollows ==
    ASSUME NEW run \in RunRecord, Good(run.state),
           NextEffect(run.state).kind = "provider",
           NEW n \in Nat,
           \/ run.stage = "top" /\ n = 1
           \/ run.stage = "calling" /\ n = run.attempt + 1,
           NEW r, r = NextModelTokenReservation(run.state),
           MayAttempt(run.state, r, n)
    PROVE  Follows(run, Tries(run, n, r))
<1> DEFINE next == Tries(run, n, r)
           s == run.state
<1>1. r \in Nat \ {0} /\ ChargedCalls(s) \in Nat /\ s.reserved_tokens \in Nat
  BY BudgetFacts
<1>2. run.made \in Nat /\ run.tokens \in Nat /\ run.attempt \in Nat
  BY DEF RunRecord
<1>3. /\ next \in RunRecord
      /\ next.state = s /\ next.stage = "calling" /\ next.attempt = n
      /\ next.members = run.members /\ next.started = run.started
      /\ next.made = run.made + 1 /\ next.tokens = run.tokens + r
  <2>1. run.made + 1 \in Nat /\ run.tokens + r \in Nat
    BY <1>1, <1>2
  <2>2. next \in RunRecord
    BY <2>1 DEF Tries, RunRecord
  <2>3. QED
    BY <2>2 DEF Tries, RunRecord
<1>4. n > 0
  BY <1>2
<1>5. \/ run.stage = "top" /\ n = 1
      \/ run.stage = "calling" /\ n = run.attempt + 1
  OBVIOUS
<1>6. NextEffect(s).kind = "provider" /\ MayAttempt(s, r, n) /\ Good(s)
      /\ r = NextModelTokenReservation(s)
  OBVIOUS
<1> HIDE DEF next, s
<1>7. Started(next) = Started(run)
  BY <1>3 DEF Started
<1>8. InEffect(next)
  BY <1>3, <1>4, <1>6 DEF InEffect
<1>9. DueCalls(next) = n /\ DueTokens(next) = n * r
  BY <1>3, <1>6 DEF DueCalls, DueTokens
<1>10. DueCalls(run) = n - 1 /\ DueTokens(run) = (n - 1) * r
  <2>1. CASE run.stage = "top"
    <3>1. n = 1
      BY <1>5, <2>1
    <3>2. DueCalls(run) = 0 /\ DueTokens(run) = 0
      BY <2>1 DEF DueCalls, DueTokens
    <3>3. 0 * r = 0
      BY <1>1
    <3>4. QED
      BY <3>1, <3>2, <3>3
  <2>2. CASE run.stage = "calling"
    <3>1. run.attempt = n - 1
      BY <1>2, <1>5, <2>2
    <3>2. DueCalls(run) = run.attempt /\ DueTokens(run) = run.attempt * r
      BY <1>6, <2>2 DEF DueCalls, DueTokens, s
    <3>3. QED
      BY <3>1, <3>2
  <2>3. QED
    BY <1>5, <2>1, <2>2
<1>11. /\ n * r \in Nat /\ (n - 1) * r \in Nat /\ n * r = (n - 1) * r + r
  <2> DEFINE m == n - 1
  <2>1. m \in Nat /\ n = m + 1
    BY <1>4
  <2> HIDE DEF m
  <2>2. (m + 1) * r = m * r + r /\ m * r \in Nat
    BY <1>1, <2>1
  <2>3. QED
    BY <1>1, <2>1, <2>2 DEF m
<1>12. ASSUME NEW c, NEW ct, RunBalances(run, c, ct)
       PROVE  RunBalances(next, c, ct)
  <2>1. /\ c \in Nat
        /\ s.plan.token_limit # Unset => ct \in Nat
        /\ run.made + c <= ChargedCalls(s) + (n - 1)
        /\ s.plan.token_limit # Unset =>
              run.tokens + ct <= s.reserved_tokens + (n - 1) * r
    BY <1>5, <1>10, <1>12 DEF RunBalances, CallsBalance, TokensBalance, s
  <2>2. (run.made + 1) + c <= ChargedCalls(s) + n
    BY <1>1, <1>2, <2>1
  <2>3. ASSUME s.plan.token_limit # Unset
        PROVE  (run.tokens + r) + ct <= s.reserved_tokens + n * r
    <3> DEFINE a == (n - 1) * r
               b == n * r
    <3> HIDE DEF a, b
    <3>1. a \in Nat /\ b = a + r
      BY <1>11 DEF a, b
    <3>2. run.tokens + ct <= s.reserved_tokens + a /\ ct \in Nat
      BY <2>1, <2>3 DEF a
    <3>3. (run.tokens + r) + ct <= s.reserved_tokens + b
      BY <1>1, <1>2, <3>1, <3>2
    <3>4. QED
      BY <3>3 DEF b
  <2>4. QED
    BY <1>3, <1>6, <1>8, <1>9, <2>1, <2>2, <2>3
    DEF RunBalances, CallsBalance, TokensBalance, s
<1>13. QED
  BY <1>3, <1>7, <1>12 DEF Follows, next, s

\* A next call that does not fit the tokens that are left ends the run.
LEMMA ExhaustionFollows ==
    ASSUME NEW run \in RunRecord, Good(run.state), run.stage = "top",
           NextEffect(run.state).kind = "provider",
           NEW t, t = CommitBudgetExhausted(run.state, NextEffect(run.state))
    PROVE  Follows(run, [run EXCEPT !.state = t])
<1> DEFINE s == run.state
           next == [run EXCEPT !.state = t]
<1>1. s \in AgentRunState /\ ChargedCalls(s) \in Nat /\ s.reserved_tokens \in Nat
  BY BudgetFacts
<1>2. Expected(s, NextEffect(s)) /\ NextEffect(s).kind = "provider"
  BY DEF Expected, NoEffect
<1>3. SameCounters(s, t)
  BY <1>1, <1>2, QuietStepsFields
<1>4. Good(t) /\ t \in AgentRunState
  BY BudgetExhaustedGood DEF Good
<1>5. /\ next \in RunRecord
      /\ next.state = t /\ next.stage = "top" /\ next.members = run.members
      /\ next.started = run.started /\ next.made = run.made /\ next.tokens = run.tokens
  BY <1>4 DEF RunRecord
<1> HIDE DEF next, s
<1>6. ChargedCalls(t) = ChargedCalls(s)
  BY <1>3 DEF SameCounters, ChargedCalls
<1>7. DueCalls(run) = 0 /\ DueTokens(run) = 0
  BY DEF DueCalls, DueTokens
<1>8. Settles(run, next)
  <2>1. Started(next) \subseteq Started(run)
    BY <1>5 DEF Started
  <2>2. ChargedCalls(t) >= ChargedCalls(s) + 0 /\ t.reserved_tokens >= s.reserved_tokens + 0
    BY <1>1, <1>3, <1>6 DEF SameCounters
  <2>3. t.plan = s.plan
    BY <1>3 DEF SameCounters
  <2>4. QED
    BY <1>4, <1>5, <1>7, <2>1, <2>2, <2>3 DEF Settles, s
<1>9. QED
  BY <1>8, SettledFollows DEF next

\* The outcome of a provider effect charges every attempt made.
LEMMA OutcomeFollows ==
    ASSUME NEW run \in RunRecord, Good(run.state), InEffect(run), run.stage = "calling",
           NEW attempts,
           attempts = [count |-> run.attempt,
                       reserved |-> NextModelTokenReservation(run.state),
                       measured |-> TRUE],
           NEW t, \/ \E calls \in Seq(Call) :
                        t = CommitProviderResponse(run.state, NextEffect(run.state), calls,
                                                   calls = << >>, attempts)
                  \/ t = CommitProviderFailure(run.state, NextEffect(run.state), attempts)
    PROVE  Follows(run, [run EXCEPT !.stage = "top", !.attempt = 0, !.state = t])
<1> DEFINE s == run.state
           n == run.attempt
           r == NextModelTokenReservation(s)
           e == NextEffect(s)
           next == [run EXCEPT !.stage = "top", !.attempt = 0, !.state = t]
<1>1. /\ s \in AgentRunState /\ ChargedCalls(s) \in Nat /\ s.reserved_tokens \in Nat
      /\ r \in Nat \ {0}
  BY BudgetFacts
<1>2. e.kind = "provider" /\ n > 0 /\ n \in Nat /\ MayAttempt(s, r, n)
  BY DEF InEffect, RunRecord
<1>3. Expected(s, e)
  BY <1>2 DEF Expected, NoEffect
<1>4. attempts \in Attempts /\ attempts.count = n /\ attempts.reserved = r
  BY <1>1, <1>2 DEF Attempts
<1>5. Good(s)
  OBVIOUS
<1>6. \/ \E calls \in Seq(Call) :
            t = CommitProviderResponse(s, e, calls, calls = << >>, attempts)
      \/ t = CommitProviderFailure(s, e, attempts)
  OBVIOUS
<1>7. DueCalls(run) = n /\ DueTokens(run) = n * r
  BY DEF DueCalls, DueTokens
<1>8. \A u \in AgentRunState :
         LET x == [run EXCEPT !.stage = "top", !.attempt = 0, !.state = u] IN
         /\ x \in RunRecord
         /\ x.state = u /\ x.stage = "top" /\ x.members = run.members
         /\ x.started = run.started /\ x.made = run.made /\ x.tokens = run.tokens
  BY DEF RunRecord
<1> HIDE DEF s, n, r, e
<1>9. Admitted(s, attempts)
  <2>1. r = Reservation(s, r)
    BY DEF Reservation, r
  <2>2. QED
    BY <1>1, <1>2, <1>4, <1>5, <2>1, MayAttemptAdmitted
<1>10. Good(t)
  <2>1. ASSUME NEW calls \in Seq(Call),
               t = CommitProviderResponse(s, e, calls, calls = << >>, attempts)
        PROVE  Good(t)
    <3> DEFINE text == (calls = << >>)
    <3>1. text \in BOOLEAN
      OBVIOUS
    <3> HIDE DEF text
    <3>2. Good(CommitProviderResponse(s, e, calls, text, attempts))
      BY <1>5, <1>9, <3>1, ProviderResponseGood
    <3>3. QED
      BY <2>1, <3>2 DEF text
  <2>2. CASE t = CommitProviderFailure(s, e, attempts)
    BY <1>5, <1>9, <2>2, ProviderFailureGood
  <2>3. QED
    BY <1>6, <2>1, <2>2
<1>11. t \in AgentRunState /\ Charged(s, t, attempts)
  <2>1. ASSUME NEW calls \in Seq(Call),
               t = CommitProviderResponse(s, e, calls, calls = << >>, attempts)
        PROVE  t \in AgentRunState /\ Charged(s, t, attempts)
    <3> DEFINE u == CommitProviderResponse(s, e, calls, calls = << >>, attempts)
    <3>1. u \in AgentRunState /\ Charged(s, u, attempts)
      BY <1>1, <1>2, <1>3, <1>4, ProviderFields
    <3> HIDE DEF u
    <3>2. t = u
      BY <2>1 DEF u
    <3>3. QED
      BY <3>1, <3>2
  <2>2. CASE t = CommitProviderFailure(s, e, attempts)
    <3> DEFINE u == CommitProviderFailure(s, e, attempts)
    <3>1. u \in AgentRunState /\ Charged(s, u, attempts)
      BY <1>1, <1>2, <1>3, <1>4, ProviderFields
    <3>2. QED
      BY <2>2, <3>1
  <2>3. QED
    BY <1>6, <2>1, <2>2
<1>12. CallCount(attempts) = n /\ ReservationFor(s, attempts) = n * r
  <2>1. CallCount(attempts) = n
    BY <1>2, <1>4 DEF CallCount, MaxOf
  <2>2. ReservationFor(s, attempts) = n * r
    BY <1>1, <1>2, <1>4 DEF ReservationFor
  <2>3. QED
    BY <2>1, <2>2
<1>13. /\ t.plan = s.plan
       /\ t.reserved_tokens = s.reserved_tokens + n * r
       /\ ChargedCalls(t) = ChargedCalls(s) + n
  <2>1. /\ t.plan = s.plan /\ t.model_calls = s.model_calls + 1
        /\ t.provider_calls_started = MaxOf(s.provider_calls_started, s.model_calls) + n
        /\ t.reserved_child_model_calls = s.reserved_child_model_calls
        /\ t.reserved_tokens = s.reserved_tokens + n * r
    BY <1>11, <1>12 DEF Charged
  <2>2. /\ s.model_calls \in Nat /\ s.provider_calls_started \in Nat
        /\ s.reserved_child_model_calls \in Nat
    BY <1>1 DEF AgentRunState
  <2>3. ChargedCalls(t) = ChargedCalls(s) + n
    BY <1>2, <2>1, <2>2 DEF ChargedCalls, MaxOf
  <2>4. QED
    BY <2>1, <2>3
<1>14. /\ next \in RunRecord
       /\ next.state = t /\ next.stage = "top" /\ next.members = run.members
       /\ next.started = run.started /\ next.made = run.made /\ next.tokens = run.tokens
  BY <1>8, <1>11
<1> HIDE DEF next
<1>15. Settles(run, next)
  <2>1. Started(next) \subseteq Started(run)
    BY <1>14 DEF Started
  <2>2. n * r \in Nat
    BY <1>1, <1>2
  <2>3. /\ ChargedCalls(t) >= ChargedCalls(s) + n
        /\ t.reserved_tokens >= s.reserved_tokens + n * r
    <3> DEFINE b == n * r
    <3> HIDE DEF b
    <3>1. b \in Nat /\ t.reserved_tokens = s.reserved_tokens + b
      BY <1>13, <2>2 DEF b
    <3>2. t.reserved_tokens >= s.reserved_tokens + b
      BY <1>1, <3>1
    <3>3. QED
      BY <1>1, <1>2, <1>13, <3>2 DEF b
  <2>4. QED
    BY <1>7, <1>10, <1>13, <1>14, <2>1, <2>3 DEF Settles, s, n, r
<1>16. QED
  BY <1>15, SettledFollows DEF next

\* A starting tool effect has handed on nothing yet.
LEMMA ToolsFollow ==
    ASSUME NEW run \in RunRecord, Good(run.state), run.stage = "top",
           NextEffect(run.state).kind \in {"tool", "tool-batch"},
           NEW n, n = IF NextEffect(run.state).kind = "tool"
                      THEN 1 ELSE Len(run.state.pending_tools)
    PROVE  Follows(run, [run EXCEPT !.stage = "tools", !.members = [i \in 1..n |-> Queued]])
<1> DEFINE s == run.state
           m == [i \in 1..n |-> Queued]
           next == [run EXCEPT !.stage = "tools", !.members = m]
<1>1. /\ s \in AgentRunState /\ ChargedCalls(s) \in Nat /\ s.reserved_tokens \in Nat
      /\ DelegatedCalls(s) \in Nat /\ DelegatedTokens(s) \in Nat
  BY BudgetFacts
<1>2. n \in Nat
  BY <1>1 DEF AgentRunState
<1>3. m \in Seq(Member) /\ Len(m) = n /\ DOMAIN m = 1..n /\ \A i \in 1..n : m[i] = Queued
  <2>1. Queued \in Member /\ Queued.child = Root
    <3>1. EmptyUsage \in RunUsage
      BY DEF EmptyUsage, RunUsage
    <3>2. Root \in Seq(Nat)
      BY DEF Root
    <3>3. QED
      BY <3>1, <3>2 DEF Queued, Member
  <2>2. QED
    BY <1>2, <2>1
<1> HIDE DEF m
<1>4. /\ next \in RunRecord
      /\ next.state = s /\ next.stage = "tools" /\ next.members = m
      /\ next.started = run.started /\ next.made = run.made /\ next.tokens = run.tokens
  <2>1. next \in RunRecord
    BY <1>3 DEF RunRecord
  <2>2. QED
    BY <2>1 DEF RunRecord
<1> HIDE DEF next
<1>5. Queued.child = Root
  BY DEF Queued
<1>6. Sharing(next) = {} /\ Started(next) = {Root} \cup {Root : i \in 1..n}
  BY <1>3, <1>4, <1>5 DEF Sharing, Started
<1>7. Started(next) \subseteq Started(run)
  BY <1>6 DEF Started
<1>8. DueCalls(next) = 0 /\ DueTokens(next) = 0
  <2> DEFINE k == Cardinality(Sharing(next))
  <2>1. k = 0
    BY <1>6, FS_EmptySet
  <2> HIDE DEF k
  <2>2. k * DelegatedCalls(s) = 0 /\ k * DelegatedTokens(s) = 0
    BY <1>1, <2>1
  <2>3. DueCalls(next) = k * DelegatedCalls(s) /\ DueTokens(next) = k * DelegatedTokens(s)
    BY <1>4 DEF DueCalls, DueTokens, k
  <2>4. QED
    BY <2>2, <2>3
<1>9. DueCalls(run) = 0 /\ DueTokens(run) = 0
  BY DEF DueCalls, DueTokens
<1>10. InEffect(next)
  BY <1>3, <1>4, <1>6 DEF InEffect
<1>11. ASSUME NEW c, NEW ct, RunBalances(run, c, ct)
       PROVE  RunBalances(next, c, ct)
  BY <1>4, <1>8, <1>9, <1>10, <1>11 DEF RunBalances, CallsBalance, TokensBalance
<1>12. QED
  BY <1>4, <1>7, <1>11 DEF Follows, next, m

\* A member that moves on without a child keeps its share, or its lack of one.
LEMMA MemberFollows ==
    ASSUME NEW run \in RunRecord, run.stage = "tools",
           NEW m \in Seq(Member), Len(m) = Len(run.members),
           \A j \in 1..Len(run.members) :
              /\ m[j].child = run.members[j].child
              /\ run.members[j].stage # "queued" => m[j].stage # "queued"
    PROVE  Follows(run, [run EXCEPT !.members = m])
<1> DEFINE next == [run EXCEPT !.members = m]
           n == Len(run.members)
<1>1. /\ n \in Nat /\ DOMAIN run.members = 1..n /\ DOMAIN m = 1..n
      /\ Len(m) = n
      /\ \A j \in 1..n : /\ m[j].child = run.members[j].child
                         /\ run.members[j].stage # "queued" => m[j].stage # "queued"
  BY DEF RunRecord
<1>2. /\ next \in RunRecord
      /\ next.state = run.state /\ next.stage = run.stage /\ next.attempt = run.attempt
      /\ next.members = m
      /\ next.started = run.started /\ next.made = run.made /\ next.tokens = run.tokens
  BY DEF RunRecord
<1> HIDE DEF next, n
<1>3. Sharing(next) = Sharing(run)
  BY <1>1, <1>2 DEF Sharing
<1>4. Started(next) = Started(run)
  BY <1>1, <1>2 DEF Started
<1>5. DueCalls(next) = DueCalls(run) /\ DueTokens(next) = DueTokens(run)
  BY <1>2, <1>3 DEF DueCalls, DueTokens
<1>6. ASSUME InEffect(run)
      PROVE  InEffect(next)
  <2>1. \A i \in Sharing(next) : /\ run.state.pending_tools[i].tool \in Delegating
                                 /\ m[i].stage # "queued"
    <3>1. \A i \in Sharing(run) : i \in 1..n
      BY <1>1 DEF Sharing
    <3>2. \A i \in Sharing(run) : /\ run.state.pending_tools[i].tool \in Delegating
                                  /\ run.members[i].stage # "queued"
      BY <1>6 DEF InEffect
    <3>3. QED
      BY <1>1, <1>3, <3>1, <3>2
  <2>2. Len(m) = n
    BY <1>1
  <2>3. QED
    BY <1>2, <1>6, <2>1, <2>2 DEF InEffect, n
<1>7. \A c, ct : RunBalances(run, c, ct) => RunBalances(next, c, ct)
  BY <1>2, <1>5, <1>6 DEF RunBalances, CallsBalance, TokensBalance
<1>8. QED
  BY <1>2, <1>4, <1>7 DEF Follows, next

\* The tokens a tool outcome charges are the shares of its delegations.
LEMMA ReserveTokens ==
    ASSUME NEW s \in AgentRunState, NEW n \in Nat,
           NEW t, t.reserved_tokens = ReserveChildren(s, n).reserved_tokens
    PROVE  t.reserved_tokens = s.reserved_tokens + n * DelegatedTokens(s)
BY DEF ReserveChildren, AgentRunState

\* What the commit of one call reserves, and of a batch.
LEMMA ToolTokens ==
    ASSUME NEW s \in AgentRunState, NEW effect, NEW child,
           effect.kind = "tool", Expected(s, effect)
    PROVE  LET n == IF s.pending_tools[1].tool \in Delegating THEN 1 ELSE 0
           IN  CommitTool(s, effect, child).reserved_tokens =
                  s.reserved_tokens + n * DelegatedTokens(s)
<1> DEFINE n == IF s.pending_tools[1].tool \in Delegating THEN 1 ELSE 0
           r == ReserveChildren(s, n)
           t == CommitTool(s, effect, child)
<1>1. n \in Nat
  OBVIOUS
<1>2. t = [r EXCEPT !.usage = MergeChild(r.usage, child),
                    !.history = Append(r.history, ResultMessage(s.pending_tools[1])),
                    !.pending_tools = Tail(r.pending_tools)]
  BY DEF CommitTool
<1>3. "reserved_tokens" \in DOMAIN r
  BY DEF ReserveChildren, AgentRunState
<1> HIDE DEF n, r, t
<1>4. t.reserved_tokens = r.reserved_tokens
  BY <1>2, <1>3
<1>5. t.reserved_tokens = s.reserved_tokens + n * DelegatedTokens(s)
  BY <1>1, <1>4, ReserveTokens DEF r
<1>6. QED
  BY <1>5 DEF t, n

LEMMA BatchTokens ==
    ASSUME NEW s \in AgentRunState, NEW effect, NEW outputs, NEW child,
           effect.kind = "tool-batch", Expected(s, effect), outputs = Len(s.pending_tools)
    PROVE  CommitBatch(s, effect, outputs, child).reserved_tokens =
              s.reserved_tokens + Cardinality(PendingDelegations(s)) * DelegatedTokens(s)
<1> DEFINE n == Cardinality(PendingDelegations(s))
           r == ReserveChildren(s, n)
           t == CommitBatch(s, effect, outputs, child)
<1>1. n \in Nat
  BY SharesType
<1>2. t = [r EXCEPT !.usage = MergeChild(r.usage, child),
                    !.history = r.history \o [i \in 1..Len(s.pending_tools) |->
                                                ResultMessage(s.pending_tools[i])],
                    !.pending_tools = << >>]
  BY DEF CommitBatch
<1>3. "reserved_tokens" \in DOMAIN r
  BY DEF ReserveChildren, AgentRunState
<1> HIDE DEF n, r, t
<1>4. t.reserved_tokens = r.reserved_tokens
  BY <1>2, <1>3
<1>5. t.reserved_tokens = s.reserved_tokens + n * DelegatedTokens(s)
  BY <1>1, <1>4, ReserveTokens DEF r
<1>6. QED
  BY <1>5 DEF t, n

\* Fewer shares cost no more.
LEMMA FewerShares ==
    ASSUME NEW k \in Nat, NEW n \in Nat, k <= n, NEW d \in Nat
    PROVE  k * d \in Nat /\ n * d \in Nat /\ k * d <= n * d
<1> DEFINE m == n - k
<1>1. m \in Nat /\ n = k + m
  OBVIOUS
<1> HIDE DEF m
<1>2. (k + m) * d = k * d + m * d /\ k * d \in Nat /\ m * d \in Nat
  BY <1>1
<1>3. QED
  BY <1>1, <1>2

\* A committed tool effect charges a share for each of its delegations, and
\* with it the share of each child that was started.
LEMMA CommitFollows ==
    ASSUME NEW run \in RunRecord, Good(run.state), InEffect(run), run.stage = "tools",
           NEW usage \in RunUsage,
           NEW t, t = IF NextEffect(run.state).kind = "tool"
                      THEN CommitTool(run.state, NextEffect(run.state), usage)
                      ELSE CommitBatch(run.state, NextEffect(run.state), Len(run.members), usage)
    PROVE  Follows(run, [run EXCEPT !.stage = "top", !.members = << >>, !.state = t])
<1> DEFINE s == run.state
           e == NextEffect(s)
           len == Len(run.members)
           k == Cardinality(Sharing(run))
           next == [run EXCEPT !.stage = "top", !.members = << >>, !.state = t]
<1>1. /\ s \in AgentRunState /\ ChargedCalls(s) \in Nat /\ s.reserved_tokens \in Nat
      /\ DelegatedCalls(s) \in Nat /\ DelegatedTokens(s) \in Nat
  BY BudgetFacts
<1>2. /\ e.kind \in {"tool", "tool-batch"}
      /\ len = IF e.kind = "tool" THEN 1 ELSE Len(s.pending_tools)
      /\ \A i \in Sharing(run) : s.pending_tools[i].tool \in Delegating
  BY DEF InEffect
<1>3. Expected(s, e)
  BY <1>2 DEF Expected, NoEffect
<1>4. k \in Nat
  BY SharingFinite
<1>5. DueCalls(run) = k * DelegatedCalls(s) /\ DueTokens(run) = k * DelegatedTokens(s)
  BY DEF DueCalls, DueTokens
<1>6. \A u \in AgentRunState :
         LET x == [run EXCEPT !.stage = "top", !.members = << >>, !.state = u] IN
         /\ x \in RunRecord
         /\ x.state = u /\ x.stage = "top" /\ x.members = << >>
         /\ x.started = run.started /\ x.made = run.made /\ x.tokens = run.tokens
  <2>1. << >> \in Seq(Member)
    OBVIOUS
  <2>2. QED
    BY <2>1 DEF RunRecord
<1>7. Good(s) /\ t = IF e.kind = "tool" THEN CommitTool(s, e, usage)
                                        ELSE CommitBatch(s, e, len, usage)
  OBVIOUS
<1>8. /\ k <= Cardinality(PendingDelegations(s))
      /\ e.kind = "tool" => Sharing(run) \subseteq {1}
  BY SharingDelegates
<1> HIDE DEF s, e, len
<1>9. PICK n \in Nat : /\ k <= n
                       /\ ChargedCalls(t) = ChargedCalls(s) + n * DelegatedCalls(s)
                       /\ t.reserved_tokens = s.reserved_tokens + n * DelegatedTokens(s)
  <2>1. CASE e.kind = "tool"
    <3> DEFINE n == IF s.pending_tools[1].tool \in Delegating THEN 1 ELSE 0
    <3>1. n \in Nat
      OBVIOUS
    <3>2. t = CommitTool(s, e, usage)
      BY <1>7, <2>1
    <3>3. ChargedCalls(t) = ChargedCalls(s) + n * DelegatedCalls(s)
      BY <1>1, <1>3, <2>1, <3>2, ToolCharges
    <3>4. t.reserved_tokens = s.reserved_tokens + n * DelegatedTokens(s)
      BY <1>1, <1>3, <2>1, <3>2, ToolTokens
    <3>5. k <= n
      <4>1. CASE n = 1
        <5>1. IsFiniteSet({1}) /\ Cardinality({1}) = 1
          BY FS_Singleton
        <5>2. k <= 1
          BY <1>8, <2>1, <5>1, FS_Subset
        <5>3. QED
          BY <4>1, <5>2
      <4>2. CASE n = 0
        <5>1. 1 \notin Sharing(run)
          BY <1>2, <4>2
        <5>2. Sharing(run) = {}
          BY <1>8, <2>1, <5>1
        <5>3. k = 0
          BY <5>2, FS_EmptySet
        <5>4. QED
          BY <4>2, <5>3
      <4>3. QED
        BY <4>1, <4>2
    <3> HIDE DEF n
    <3>6. QED
      BY <3>1, <3>3, <3>4, <3>5
  <2>2. CASE e.kind = "tool-batch"
    <3> DEFINE n == Cardinality(PendingDelegations(s))
    <3>1. n \in Nat
      BY <1>1, SharesType
    <3>2. t = CommitBatch(s, e, len, usage) /\ len = Len(s.pending_tools)
      BY <1>2, <1>7, <2>2
    <3>3. ChargedCalls(t) = ChargedCalls(s) + n * DelegatedCalls(s)
      BY <1>1, <1>3, <2>2, <3>2, BatchCharges
    <3>4. t.reserved_tokens = s.reserved_tokens + n * DelegatedTokens(s)
      BY <1>1, <1>3, <2>2, <3>2, BatchTokens
    <3>5. k <= n
      BY <1>8
    <3> HIDE DEF n
    <3>6. QED
      BY <3>1, <3>3, <3>4, <3>5
  <2>3. QED
    BY <1>2, <2>1, <2>2
<1>10. Good(t) /\ t \in AgentRunState /\ t.plan = s.plan
  <2>1. Good(t)
    BY <1>7, ToolGood, BatchGood
  <2>2. t.plan = s.plan
    BY <1>1, <1>7, PlanIsKept
  <2>3. QED
    BY <2>1, <2>2 DEF Good
<1>11. /\ next \in RunRecord
       /\ next.state = t /\ next.stage = "top" /\ next.members = << >>
       /\ next.started = run.started /\ next.made = run.made /\ next.tokens = run.tokens
  BY <1>6, <1>10
<1> HIDE DEF next, k
<1>12. Settles(run, next)
  <2>1. Started(next) \subseteq Started(run)
    <3>1. DOMAIN next.members = {}
      BY <1>11
    <3>2. QED
      BY <3>1 DEF Started
  <2>2. /\ k * DelegatedCalls(s) \in Nat /\ n * DelegatedCalls(s) \in Nat
        /\ k * DelegatedCalls(s) <= n * DelegatedCalls(s)
        /\ k * DelegatedTokens(s) \in Nat /\ n * DelegatedTokens(s) \in Nat
        /\ k * DelegatedTokens(s) <= n * DelegatedTokens(s)
    BY <1>1, <1>4, <1>9, FewerShares
  <2>3. ChargedCalls(t) >= ChargedCalls(s) + DueCalls(run)
    <3> DEFINE a == k * DelegatedCalls(s)
               b == n * DelegatedCalls(s)
    <3> HIDE DEF a, b
    <3>1. a \in Nat /\ b \in Nat /\ a <= b /\ ChargedCalls(t) = ChargedCalls(s) + b
          /\ DueCalls(run) = a
      BY <1>5, <1>9, <2>2 DEF a, b
    <3>2. QED
      BY <1>1, <3>1
  <2>4. t.reserved_tokens >= s.reserved_tokens + DueTokens(run)
    <3> DEFINE a == k * DelegatedTokens(s)
               b == n * DelegatedTokens(s)
    <3> HIDE DEF a, b
    <3>1. a \in Nat /\ b \in Nat /\ a <= b /\ t.reserved_tokens = s.reserved_tokens + b
          /\ DueTokens(run) = a
      BY <1>5, <1>9, <2>2 DEF a, b
    <3>2. QED
      BY <1>1, <3>1
  <2>5. QED
    BY <1>10, <1>11, <2>1, <2>3, <2>4 DEF Settles, s
<1>13. QED
  BY <1>12, SettledFollows DEF next

-----------------------------------------------------------------------------
(* A delegation: the child's limits are its share, which its parent's books *)
(* carry from then on.                                                     *)

LEMMA NewRunBalances ==
    ASSUME NEW plan \in Plan
    PROVE  /\ RunBalances(NewRun(plan), 0, 0)
           /\ NewRun(plan).state.plan = plan
           /\ Started(NewRun(plan)) = {Root}
<1> DEFINE s == NewState(plan, <<UserMessage>>)
           run == NewRun(plan)
<1>1. <<UserMessage>> \in Seq(Message)
  BY DEF UserMessage, Message
<1>2. Good(s)
  BY <1>1, NewStateGood
<1>3. s \in AgentRunState
  BY <1>2 DEF Good
<1>4. s.plan = plan /\ ChargedCalls(s) = 0 /\ s.reserved_tokens = 0
  BY DEF NewState, ChargedCalls, MaxOf
<1> HIDE DEF s
<1>5. /\ run.state = s /\ run.stage = "top" /\ run.members = << >>
      /\ run.made = 0 /\ run.tokens = 0
  BY DEF NewRun, s
<1>6. run \in RunRecord
  <2>1. << >> \in Seq(Member) /\ 0 \in Nat
    OBVIOUS
  <2>2. run = [state |-> s, stage |-> "top", attempt |-> 0, members |-> << >>, started |-> 0,
               cancelled |-> FALSE, dropped |-> FALSE, made |-> 0, tokens |-> 0]
    BY DEF NewRun, s
  <2> HIDE DEF run
  <2>3. QED
    BY <1>3, <2>1, <2>2 DEF RunRecord
<1> HIDE DEF run
<1>7. InEffect(run) /\ DueCalls(run) = 0 /\ DueTokens(run) = 0
  BY <1>5 DEF InEffect, DueCalls, DueTokens
<1>8. RunBalances(run, 0, 0)
  BY <1>2, <1>4, <1>5, <1>6, <1>7 DEF RunBalances, CallsBalance, TokensBalance
<1>9. DOMAIN run.members = {}
  BY <1>5
<1>10. Started(run) = {Root}
  BY <1>9 DEF Started
<1>11. QED
  BY <1>4, <1>5, <1>8, <1>10 DEF run

\* A child runs with its share for limits.
LEMMA SharePlanIs ==
    ASSUME NEW s \in AgentRunState
    PROVE  /\ SharePlan(s) \in Plan
           /\ SharePlan(s).model_call_limit = DelegatedCalls(s)
           /\ s.plan.token_limit = Unset => SharePlan(s).token_limit = Unset
           /\ s.plan.token_limit # Unset =>
                 /\ SharePlan(s).token_limit = DelegatedTokens(s)
                 /\ SharePlan(s).token_limit # Unset
<1>1. DelegatedCalls(s) \in Nat /\ DelegatedTokens(s) \in Nat
  BY RemainingType
<1>2. s.plan \in Plan
  BY DEF AgentRunState
<1> DEFINE calls == DelegatedCalls(s)
           limit == IF s.plan.token_limit = Unset THEN Unset ELSE DelegatedTokens(s)
           plan == SharePlan(s)
<1>3. calls \in Nat /\ limit \in Nat \cup {Unset}
  BY <1>1
<1>4. plan = [s.plan EXCEPT !.model_call_limit = calls, !.token_limit = limit]
  BY <1>2 DEF SharePlan, Plan
<1> HIDE DEF calls, limit, plan
<1>5. plan \in Plan /\ plan.model_call_limit = calls /\ plan.token_limit = limit
  BY <1>2, <1>3, <1>4 DEF Plan
<1>6. DelegatedTokens(s) # Unset
  BY <1>1 DEF Unset
<1>7. QED
  BY <1>5, <1>6 DEF calls, limit, plan

LEMMA AddsUp ==
    ASSUME NEW a \in Nat, NEW b \in Nat, NEW c \in Nat, NEW d \in Nat, NEW e \in Nat,
           a + b <= c + d
    PROVE  a + (b + e) <= c + (d + e)
OBVIOUS

\* A run that has started child for the call i of its effect.
HandsOn(run, i, child) ==
    [run EXCEPT !.started = @ + 1, !.members[i].stage = "running", !.members[i].child = child]

LEMMA HandsOnBalances ==
    ASSUME NEW run, NEW c, NEW ct, RunBalances(run, c, ct),
           run.stage = "tools",
           NEW i \in DOMAIN run.members, run.members[i].stage = "queued",
           run.state.pending_tools[i].tool \in Delegating,
           NEW child \in Seq(Nat), child # Root
    PROVE  LET next == HandsOn(run, i, child) IN
           /\ RunBalances(next, c + DelegatedCalls(run.state), ct + DelegatedTokens(run.state))
           /\ next.state = run.state
           /\ next.started = run.started + 1
           /\ Started(next) \subseteq Started(run) \cup {child}
<1> DEFINE s == run.state
           n == Len(run.members)
           m == [run.members EXCEPT ![i].stage = "running", ![i].child = child]
           next == HandsOn(run, i, child)
<1>1. /\ run \in RunRecord /\ Good(s) /\ InEffect(run) /\ c \in Nat
      /\ s.plan.token_limit # Unset => ct \in Nat
  BY DEF RunBalances
<1>2. /\ s \in AgentRunState /\ ChargedCalls(s) \in Nat /\ s.reserved_tokens \in Nat
      /\ DelegatedCalls(s) \in Nat /\ DelegatedTokens(s) \in Nat
  BY <1>1, BudgetFacts
<1>3. /\ run.members \in Seq(Member) /\ n \in Nat /\ DOMAIN run.members = 1..n
      /\ run.started \in Nat /\ run.made \in Nat /\ run.tokens \in Nat
  BY <1>1 DEF RunRecord
<1>4. /\ m \in Seq(Member) /\ Len(m) = n /\ DOMAIN m = 1..n
      /\ m[i].child = child /\ m[i].stage = "running"
      /\ \A j \in 1..n : j # i => m[j] = run.members[j]
  <2>1. run.members[i] \in Member
    BY <1>3
  <2> DEFINE x == [run.members[i] EXCEPT !.stage = "running", !.child = child]
  <2>2. x \in Member /\ x.child = child /\ x.stage = "running"
    BY <2>1 DEF Member
  <2>3. m = [run.members EXCEPT ![i] = x]
    BY <1>3
  <2> HIDE DEF x, m
  <2>4. QED
    BY <1>3, <2>2, <2>3
<1>5. /\ next \in RunRecord
      /\ next.state = s /\ next.stage = "tools" /\ next.members = m
      /\ next.started = run.started + 1 /\ next.made = run.made /\ next.tokens = run.tokens
  <2>1. next = [run EXCEPT !.started = run.started + 1, !.members = m]
    BY <1>1 DEF HandsOn, RunRecord
  <2> HIDE DEF next, m
  <2>2. run.started + 1 \in Nat
    BY <1>3
  <2>3. next \in RunRecord
    BY <1>1, <1>4, <2>1, <2>2 DEF RunRecord
  <2>4. QED
    BY <1>1, <2>1, <2>3 DEF RunRecord
<1> HIDE DEF next, m
<1>6. i \in 1..n /\ run.members[i].stage = "queued" /\ s.pending_tools[i].tool \in Delegating
  BY <1>3
<1>7. /\ NextEffect(s).kind \in {"tool", "tool-batch"}
      /\ n = IF NextEffect(s).kind = "tool" THEN 1 ELSE Len(s.pending_tools)
      /\ \A j \in Sharing(run) : /\ s.pending_tools[j].tool \in Delegating
                                 /\ run.members[j].stage # "queued"
  BY <1>1 DEF InEffect
<1> DEFINE k == Cardinality(Sharing(run))
<1>8. k \in Nat /\ IsFiniteSet(Sharing(run))
  BY <1>1, SharingFinite
<1>9. DueCalls(run) = k * DelegatedCalls(s) /\ DueTokens(run) = k * DelegatedTokens(s)
  BY DEF DueCalls, DueTokens
<1>10. i \notin Sharing(run) /\ Sharing(next) = Sharing(run) \cup {i}
  <2>1. i \notin Sharing(run)
    BY <1>6, <1>7
  <2>2. \A j \in 1..n : j \in Sharing(next) <=> j \in Sharing(run) \/ j = i
    BY <1>3, <1>4, <1>5, <1>6 DEF Sharing
  <2>3. Sharing(run) \subseteq 1..n /\ Sharing(next) \subseteq 1..n
    BY <1>3, <1>4, <1>5 DEF Sharing
  <2>4. QED
    BY <1>6, <2>1, <2>2, <2>3
<1>11. Cardinality(Sharing(next)) = k + 1
  BY <1>8, <1>10, FS_AddElement
<1> HIDE DEF k, s, n
<1>12. DueCalls(next) = DueCalls(run) + DelegatedCalls(s)
       /\ DueTokens(next) = DueTokens(run) + DelegatedTokens(s)
       /\ DueCalls(run) \in Nat /\ DueTokens(run) \in Nat
  <2>1. DueCalls(next) = (k + 1) * DelegatedCalls(s)
        /\ DueTokens(next) = (k + 1) * DelegatedTokens(s)
    BY <1>5, <1>11 DEF DueCalls, DueTokens
  <2>2. /\ (k + 1) * DelegatedCalls(s) = k * DelegatedCalls(s) + DelegatedCalls(s)
        /\ k * DelegatedCalls(s) \in Nat
    BY <1>2, <1>8
  <2>3. /\ (k + 1) * DelegatedTokens(s) = k * DelegatedTokens(s) + DelegatedTokens(s)
        /\ k * DelegatedTokens(s) \in Nat
    BY <1>2, <1>8
  <2>4. QED
    BY <1>9, <2>1, <2>2, <2>3
<1>13. InEffect(next)
  <2>1. \A j \in Sharing(next) : /\ s.pending_tools[j].tool \in Delegating
                                 /\ m[j].stage # "queued"
    <3>1. Sharing(run) \subseteq 1..n
      BY <1>3 DEF Sharing, n
    <3>2. QED
      BY <1>4, <1>6, <1>7, <1>10, <3>1
  <2>2. Len(m) = n
    BY <1>4
  <2>3. QED
    BY <1>5, <1>7, <2>1, <2>2 DEF InEffect
<1>14. RunBalances(next, c + DelegatedCalls(s), ct + DelegatedTokens(s))
  <2>1. /\ run.made + c <= ChargedCalls(s) + DueCalls(run)
        /\ s.plan.token_limit # Unset =>
              run.tokens + ct <= s.reserved_tokens + DueTokens(run)
    BY DEF RunBalances, CallsBalance, TokensBalance, s
  <2>2. /\ c + DelegatedCalls(s) \in Nat
        /\ s.plan.token_limit # Unset => ct + DelegatedTokens(s) \in Nat
    BY <1>1, <1>2
  <2>3. run.made + (c + DelegatedCalls(s)) <=
           ChargedCalls(s) + (DueCalls(run) + DelegatedCalls(s))
    BY <1>1, <1>2, <1>3, <1>12, <2>1, AddsUp
  <2>4. ASSUME s.plan.token_limit # Unset
        PROVE  run.tokens + (ct + DelegatedTokens(s)) <=
                  s.reserved_tokens + (DueTokens(run) + DelegatedTokens(s))
    <3>1. ct \in Nat /\ run.tokens + ct <= s.reserved_tokens + DueTokens(run)
      BY <1>1, <2>1, <2>4
    <3>2. QED
      BY <1>2, <1>3, <1>12, <3>1, AddsUp
  <2>5. Good(s)
    BY <1>1
  <2>6. QED
    BY <1>5, <1>12, <1>13, <2>2, <2>3, <2>4, <2>5
    DEF RunBalances, CallsBalance, TokensBalance
<1>15. Started(next) \subseteq Started(run) \cup {child}
  <2>1. \A j \in 1..n : m[j].child = child \/ m[j].child = run.members[j].child
    BY <1>4
  <2>2. DOMAIN next.members = 1..n /\ DOMAIN run.members = 1..n
    BY <1>3, <1>4, <1>5 DEF n
  <2>3. QED
    BY <1>5, <2>1, <2>2 DEF Started
<1>16. QED
  BY <1>5, <1>14, <1>15 DEF next, s

-----------------------------------------------------------------------------
(* The tree: every run's books balance against the limits of its children.  *)

\* The limits of the runs of a tree, and their sums over the children of one run.
CallLimits(t) == [q \in DOMAIN t |-> t[q].state.plan.model_call_limit]

TokenLimits(t) == [q \in DOMAIN t |-> t[q].state.plan.token_limit]

ChildCalls(t, p) == SumFunctionOnSet(CallLimits(t), ChildrenIn(DOMAIN t, p))

ChildTokens(t, p) == SumFunctionOnSet(TokenLimits(t), ChildrenIn(DOMAIN t, p))

\* A child is named after its parent and numbered by it; a token limit is
\* inherited or absent; and a member names a run of the tree.
Family(t) ==
    /\ DOMAIN t \subseteq Seq(Nat)
    /\ IsFiniteSet(DOMAIN t)
    /\ Root \in DOMAIN t
    /\ \A q \in DOMAIN t : q # Root => /\ Front(q) \in DOMAIN t
                                       /\ Last(q) \in 1..t[Front(q)].started
    /\ \A q \in DOMAIN t :
          t[q].state.plan.token_limit = Unset <=> t[Root].state.plan.token_limit = Unset
    /\ \A q \in DOMAIN t : Started(t[q]) \subseteq DOMAIN t

SoundTree(t) ==
    /\ Family(t)
    /\ \A p \in DOMAIN t : RunBalances(t[p], ChildCalls(t, p), ChildTokens(t, p))

\* The inductive invariant.
TreeSound == SoundTree(tree)

\* A step in which no run starts a child.
LEMMA AllFollow ==
    ASSUME NEW t, SoundTree(t), NEW u, DOMAIN u = DOMAIN t,
           \A q \in DOMAIN t : Follows(t[q], u[q])
    PROVE  SoundTree(u)
<1> DEFINE S == DOMAIN t
<1>1. \A q \in S : /\ u[q].state.plan = t[q].state.plan
                   /\ u[q].started = t[q].started
                   /\ Started(u[q]) \subseteq Started(t[q])
                   /\ \A c, ct : RunBalances(t[q], c, ct) => RunBalances(u[q], c, ct)
  BY DEF Follows
<1>2. /\ Family(t)
      /\ \A q \in S : RunBalances(t[q], ChildCalls(t, q), ChildTokens(t, q))
  BY DEF SoundTree
<1>3. DOMAIN u = S
  OBVIOUS
<1> HIDE DEF S
<1>4. Family(u)
  BY <1>1, <1>2, <1>3 DEF Family, S
<1>5. CallLimits(u) = CallLimits(t) /\ TokenLimits(u) = TokenLimits(t)
  BY <1>1, <1>3 DEF CallLimits, TokenLimits, S
<1>6. \A q \in S : ChildCalls(u, q) = ChildCalls(t, q) /\ ChildTokens(u, q) = ChildTokens(t, q)
  BY <1>3, <1>5 DEF ChildCalls, ChildTokens, S
<1>7. ASSUME NEW q \in S
      PROVE  RunBalances(u[q], ChildCalls(u, q), ChildTokens(u, q))
  <2> DEFINE c == ChildCalls(t, q)
             ct == ChildTokens(t, q)
  <2>1. RunBalances(t[q], c, ct) /\ ChildCalls(u, q) = c /\ ChildTokens(u, q) = ct
    BY <1>2, <1>6
  <2> HIDE DEF c, ct
  <2>2. RunBalances(u[q], c, ct)
    BY <1>1, <2>1
  <2>3. QED
    BY <2>1, <2>2
<1>8. QED
  BY <1>3, <1>4, <1>7 DEF SoundTree

\* Without a token limit the tokens are not on the books.
LEMMA NoTokenBooks ==
    ASSUME NEW run, NEW c, NEW ct, RunBalances(run, c, ct), NEW d,
           run.state.plan.token_limit # Unset => d = ct
    PROVE  RunBalances(run, c, d)
BY DEF RunBalances, TokensBalance

\* What a balanced tree says of one run.
LEMMA LimitTypes ==
    ASSUME NEW t, SoundTree(t), NEW q \in DOMAIN t
    PROVE  /\ t[q] \in RunRecord /\ Good(t[q].state) /\ InEffect(t[q])
           /\ CallLimits(t)[q] = t[q].state.plan.model_call_limit
           /\ CallLimits(t)[q] \in Nat
           /\ TokenLimits(t)[q] = t[q].state.plan.token_limit
           /\ t[q].state.plan.token_limit # Unset => TokenLimits(t)[q] \in Nat
<1>1. t[q] \in RunRecord /\ Good(t[q].state) /\ InEffect(t[q])
  BY DEF SoundTree, RunBalances
<1>2. /\ t[q].state.plan.model_call_limit \in Nat
      /\ t[q].state.plan.token_limit # Unset => t[q].state.plan.token_limit \in Nat
  BY <1>1, BudgetFacts
<1>3. QED
  BY <1>1, <1>2 DEF CallLimits, TokenLimits

\* The name of a child.
NextChild(t, p) == Append(p, t[p].started + 1)

\* That name is new to the tree.
LEMMA ChildName ==
    ASSUME NEW t, Family(t), NEW p \in DOMAIN t, t[p].started \in Nat,
           NEW child, child = NextChild(t, p)
    PROVE  /\ child \in Seq(Nat) /\ child # Root
           /\ Front(child) = p /\ Last(child) = t[p].started + 1
           /\ child \notin DOMAIN t /\ child # p
<1> DEFINE k == t[p].started + 1
<1>1. p \in Seq(Nat) /\ k \in Nat
  BY DEF Family
<1>2. k \notin 1..t[p].started
  OBVIOUS
<1>3. child = Append(p, k)
  BY DEF NextChild
<1> HIDE DEF k
<1>4. child \in Seq(Nat) /\ Len(child) = Len(p) + 1 /\ child[Len(child)] = k
      /\ Len(p) \in Nat
  BY <1>1, <1>3
<1>5. child # Root
  <2>1. Len(child) # 0
    BY <1>4
  <2>2. QED
    BY <2>1 DEF Root
<1>6. Front(child) = p
  BY <1>1, <1>3, <1>4 DEF Front
<1>7. Last(child) = k
  BY <1>4 DEF Last
<1>8. child \notin DOMAIN t
  BY <1>2, <1>5, <1>6, <1>7 DEF Family
<1>9. QED
  BY <1>4, <1>5, <1>6, <1>7, <1>8 DEF k

\* A sum gains the term of a new member.
LEMMA SumGains ==
    ASSUME NEW S, IsFiniteSet(S), NEW x, x \notin S, NEW fun, NEW gun, gun[x] \in Nat,
           \A q \in S : fun[q] \in Nat /\ gun[q] = fun[q]
    PROVE  SumFunctionOnSet(gun, S \cup {x}) = SumFunctionOnSet(fun, S) + gun[x]
<1> DEFINE T == S \cup {x}
<1>1. IsFiniteSet(T)
  BY FS_AddElement
<1>2. T \ {x} = S /\ x \in T /\ \A q \in T : gun[q] \in Nat
  OBVIOUS
<1> HIDE DEF T
<1>3. SumFunctionOnSet(gun, T) = gun[x] + SumFunctionOnSet(gun, T \ {x})
  BY <1>1, <1>2, SumSplits
<1>4. SumFunctionOnSet(gun, S) = SumFunctionOnSet(fun, S) /\ SumFunctionOnSet(fun, S) \in Nat
  BY SumAgrees
<1>5. SumFunctionOnSet(gun, T) = gun[x] + SumFunctionOnSet(fun, S)
  BY <1>2, <1>3, <1>4
<1>6. SumFunctionOnSet(gun, T) = SumFunctionOnSet(fun, S) + gun[x]
  <2> DEFINE k == SumFunctionOnSet(fun, S)
             n == gun[x]
  <2>1. k \in Nat /\ n \in Nat /\ SumFunctionOnSet(gun, T) = n + k
    BY <1>4, <1>5
  <2> HIDE DEF k, n
  <2>2. SumFunctionOnSet(gun, T) = k + n
    BY <2>1
  <2>3. QED
    BY <2>2 DEF k, n
<1>7. QED
  BY <1>6 DEF T

\* What a run hands on to a new child enters its books as the child's limits.
LEMMA ChildBooks ==
    ASSUME NEW t, SoundTree(t), NEW p \in DOMAIN t,
           NEW child \in Seq(Nat), child # Root, child \notin DOMAIN t,
           Front(child) = p, Last(child) = t[p].started + 1,
           NEW calls \in Nat, NEW tokens \in Nat,
           NEW u, DOMAIN u = DOMAIN t \cup {child},
           \A q \in DOMAIN t : q # p => u[q] = t[q],
           u[p].state = t[p].state,
           u[p].started = t[p].started + 1,
           Started(u[p]) \subseteq Started(t[p]) \cup {child},
           RunBalances(u[p], ChildCalls(t, p) + calls, ChildTokens(t, p) + tokens),
           RunBalances(u[child], 0, 0),
           Started(u[child]) = {Root},
           u[child].state.plan.model_call_limit = calls,
           u[child].state.plan.token_limit = Unset <=> t[p].state.plan.token_limit = Unset,
           t[p].state.plan.token_limit # Unset =>
              u[child].state.plan.token_limit = tokens
    PROVE  SoundTree(u)
<1> DEFINE S == DOMAIN t
           U == S \cup {child}
           s == t[p].state
<1>1. /\ Family(t)
      /\ \A q \in S : RunBalances(t[q], ChildCalls(t, q), ChildTokens(t, q))
  BY DEF SoundTree
<1>2. t[p].started \in Nat
  BY LimitTypes DEF RunRecord
<1>4. /\ child \in Seq(Nat) /\ child # Root
      /\ Front(child) = p /\ Last(child) = t[p].started + 1
      /\ child \notin S /\ child # p
  OBVIOUS
<1>5. /\ u[p].state = s
      /\ u[p].started = t[p].started + 1
      /\ Started(u[p]) \subseteq Started(t[p]) \cup {child}
  OBVIOUS
<1>6. u[child].state.plan.token_limit = Unset <=> s.plan.token_limit = Unset
  OBVIOUS
<1>7. Started(u[child]) = {Root}
  OBVIOUS
<1>8. /\ DOMAIN u = U
      /\ \A q \in S : q # p => u[q] = t[q]
  OBVIOUS
<1>9. \A q \in S : u[q].state = t[q].state
  BY <1>5, <1>8
<1>10. p \in S
  OBVIOUS
<1>20. /\ u[child].state.plan.model_call_limit = calls
       /\ s.plan.token_limit # Unset => u[child].state.plan.token_limit = tokens
  OBVIOUS
<1> HIDE DEF S, U, s
<1>11. Family(u)
  <2>1. /\ S \subseteq Seq(Nat) /\ IsFiniteSet(S) /\ Root \in S
        /\ \A q \in S : q # Root => Front(q) \in S /\ Last(q) \in 1..t[Front(q)].started
        /\ \A q \in S : t[q].state.plan.token_limit = Unset
                           <=> t[Root].state.plan.token_limit = Unset
        /\ \A q \in S : Started(t[q]) \subseteq S
    BY <1>1 DEF Family, S
  <2>2. U \subseteq Seq(Nat) /\ IsFiniteSet(U) /\ Root \in U
    BY <1>4, <2>1, FS_AddElement DEF U
  <2>3. \A q \in U : q # Root => Front(q) \in U /\ Last(q) \in 1..u[Front(q)].started
    <3>1. SUFFICES ASSUME NEW q \in U, q # Root
                   PROVE  Front(q) \in S /\ Last(q) \in 1..u[Front(q)].started
      BY DEF U
    <3>2. /\ u[p].started \in Nat /\ t[p].started \in Nat
          /\ u[p].started = t[p].started + 1
      BY <1>2, <1>5
    <3>3. CASE q = child
      BY <1>4, <1>8, <1>10, <3>2, <3>3
    <3>4. CASE q \in S
      <4>1. Front(q) \in S /\ Last(q) \in 1..t[Front(q)].started
        BY <2>1, <3>1, <3>4
      <4>2. CASE Front(q) = p
        <5>1. Last(q) \in 1..t[p].started
          BY <4>1, <4>2
        <5>2. Last(q) \in 1..u[p].started
          BY <3>2, <5>1
        <5>3. QED
          BY <1>8, <4>1, <4>2, <5>2
      <4>3. CASE Front(q) # p
        BY <1>8, <4>1, <4>3
      <4>4. QED
        BY <4>2, <4>3
    <3>5. QED
      BY <3>1, <3>3, <3>4 DEF U
  <2>4. \A q \in U : u[q].state.plan.token_limit = Unset
                        <=> u[Root].state.plan.token_limit = Unset
    <3>1. u[Root].state = t[Root].state
      BY <1>9, <2>1
    <3>2. \A q \in S : u[q].state.plan.token_limit = Unset
                          <=> u[Root].state.plan.token_limit = Unset
      BY <1>9, <2>1, <3>1
    <3>3. u[child].state.plan.token_limit = Unset <=> s.plan.token_limit = Unset
      BY <1>6
    <3>4. u[p].state = s
      BY <1>5
    <3>5. QED
      BY <1>10, <3>2, <3>3, <3>4 DEF U
  <2>5. \A q \in U : Started(u[q]) \subseteq U
    <3>1. Started(u[child]) \subseteq U
      BY <1>7, <2>2
    <3>2. Started(u[p]) \subseteq U
      BY <1>5, <1>10, <2>1 DEF U
    <3>3. \A q \in S : q # p => Started(u[q]) \subseteq U
      BY <1>8, <2>1 DEF U
    <3>4. QED
      BY <3>1, <3>2, <3>3 DEF U
  <2>6. QED
    BY <1>8, <2>2, <2>3, <2>4, <2>5 DEF Family
<1>12. /\ \A q \in S : /\ CallLimits(u)[q] = CallLimits(t)[q]
                       /\ TokenLimits(u)[q] = TokenLimits(t)[q]
       /\ CallLimits(u)[child] = calls
       /\ s.plan.token_limit # Unset => TokenLimits(u)[child] = tokens
  <2>1. \A q \in S : /\ CallLimits(u)[q] = CallLimits(t)[q]
                     /\ TokenLimits(u)[q] = TokenLimits(t)[q]
    BY <1>8, <1>9 DEF CallLimits, TokenLimits, S, U
  <2>2. child \in DOMAIN u
    BY <1>8 DEF U
  <2>3. QED
    BY <1>20, <2>1, <2>2 DEF CallLimits, TokenLimits
<1>13. /\ \A q \in S : CallLimits(t)[q] \in Nat
       /\ s.plan.token_limit # Unset => \A q \in S : TokenLimits(t)[q] \in Nat
  <2>1. \A q \in S : /\ CallLimits(t)[q] \in Nat
                     /\ t[q].state.plan.token_limit # Unset => TokenLimits(t)[q] \in Nat
    BY LimitTypes DEF S
  <2>2. \A q \in S : t[q].state.plan.token_limit = Unset <=> s.plan.token_limit = Unset
    BY <1>1, <1>10 DEF Family, S, s
  <2>3. QED
    BY <2>1, <2>2
<1> DEFINE cu == CallLimits(u)
           cc == CallLimits(t)
           tu == TokenLimits(u)
           tt == TokenLimits(t)
<1>21. /\ \A q \in S : cc[q] \in Nat /\ cu[q] = cc[q]
       /\ s.plan.token_limit # Unset => \A q \in S : tt[q] \in Nat /\ tu[q] = tt[q]
       /\ cu[child] = calls
       /\ s.plan.token_limit # Unset => tu[child] = tokens
  BY <1>12, <1>13
<1> HIDE DEF cu, cc, tu, tt
<1>14. \A q \in S : ChildrenIn(S, q) \subseteq S /\ IsFiniteSet(ChildrenIn(S, q))
  <2>1. IsFiniteSet(S)
    BY <1>1 DEF Family, S
  <2>2. QED
    BY <2>1, FS_Subset DEF ChildrenIn
<1>15. ASSUME NEW fun, NEW gun, \A q \in S : fun[q] \in Nat /\ gun[q] = fun[q], NEW q \in S
       PROVE  SumFunctionOnSet(gun, ChildrenIn(S, q)) = SumFunctionOnSet(fun, ChildrenIn(S, q))
              /\ SumFunctionOnSet(fun, ChildrenIn(S, q)) \in Nat
  BY <1>14, <1>15, SumAgrees
<1>16. ASSUME NEW q \in S, q # p
       PROVE  RunBalances(u[q], ChildCalls(u, q), ChildTokens(u, q))
  <2>1. ChildrenIn(U, q) = ChildrenIn(S, q)
    BY <1>4, <1>16 DEF ChildrenIn, U
  <2>2. ChildCalls(u, q) = ChildCalls(t, q)
    <3>1. SumFunctionOnSet(cu, ChildrenIn(S, q)) = SumFunctionOnSet(cc, ChildrenIn(S, q))
      BY <1>15, <1>21
    <3>2. QED
      BY <1>8, <2>1, <3>1 DEF ChildCalls, S, cu, cc
  <2>3. s.plan.token_limit # Unset => ChildTokens(u, q) = ChildTokens(t, q)
    <3>1. SUFFICES ASSUME s.plan.token_limit # Unset
                   PROVE  ChildTokens(u, q) = ChildTokens(t, q)
      OBVIOUS
    <3>2. SumFunctionOnSet(tu, ChildrenIn(S, q)) = SumFunctionOnSet(tt, ChildrenIn(S, q))
      <4>1. \A r \in S : tt[r] \in Nat /\ tu[r] = tt[r]
        BY <1>21, <3>1
      <4>2. QED
        BY <1>15, <4>1
    <3>3. QED
      BY <1>8, <2>1, <3>2 DEF ChildTokens, S, tu, tt
  <2>4. t[q].state.plan.token_limit = Unset <=> s.plan.token_limit = Unset
    BY <1>1, <1>10, <1>16 DEF Family, S, s
  <2>5. RunBalances(t[q], ChildCalls(t, q), ChildTokens(t, q))
    BY <1>1, <1>16
  <2>6. RunBalances(t[q], ChildCalls(t, q), ChildTokens(u, q))
    BY <2>3, <2>4, <2>5, NoTokenBooks
  <2>7. QED
    BY <1>8, <1>16, <2>2, <2>6
<1>17. RunBalances(u[p], ChildCalls(u, p), ChildTokens(u, p))
  <2> DEFINE kids == ChildrenIn(S, p)
             all == ChildrenIn(U, p)
  <2>1. child \in all /\ all \ {child} = kids /\ all = kids \cup {child} /\ child \notin kids
    BY <1>4 DEF ChildrenIn, U
  <2>2. IsFiniteSet(kids) /\ kids \subseteq S
    BY <1>10, <1>14
  <2> HIDE DEF kids, all
  <2>3. ChildCalls(u, p) = ChildCalls(t, p) + calls
    <3>1. SumFunctionOnSet(cu, kids \cup {child}) = SumFunctionOnSet(cc, kids) + cu[child]
      <4>1. /\ child \notin kids /\ cu[child] \in Nat
            /\ \A q \in kids : cc[q] \in Nat /\ cu[q] = cc[q]
        BY <1>21, <2>1, <2>2
      <4>2. IsFiniteSet(kids)
        BY <2>2
      <4>3. QED
        BY ONLY <4>1, <4>2, SumGains
    <3>2. ChildCalls(u, p) = SumFunctionOnSet(cu, all) /\ ChildCalls(t, p) = SumFunctionOnSet(cc, kids)
      BY <1>8 DEF ChildCalls, kids, all, S, cu, cc
    <3>3. QED
      BY <1>21, <2>1, <3>1, <3>2
  <2>4. ASSUME s.plan.token_limit # Unset
        PROVE  ChildTokens(u, p) = ChildTokens(t, p) + tokens
    <3>1. SumFunctionOnSet(tu, kids \cup {child}) = SumFunctionOnSet(tt, kids) + tu[child]
      <4>1. /\ child \notin kids /\ tu[child] \in Nat
            /\ \A q \in kids : tt[q] \in Nat /\ tu[q] = tt[q]
        BY <1>21, <2>1, <2>2, <2>4
      <4>2. IsFiniteSet(kids)
        BY <2>2
      <4>3. QED
        BY ONLY <4>1, <4>2, SumGains
    <3>2. ChildTokens(u, p) = SumFunctionOnSet(tu, all) /\ ChildTokens(t, p) = SumFunctionOnSet(tt, kids)
      BY <1>8 DEF ChildTokens, kids, all, S, tu, tt
    <3>3. QED
      BY <1>21, <2>1, <2>4, <3>1, <3>2
  <2>5. RunBalances(u[p], ChildCalls(u, p), ChildTokens(t, p) + tokens)
    BY <2>3
  <2>6. RunBalances(u[p], ChildCalls(u, p), ChildTokens(u, p))
    BY <1>5, <2>4, <2>5, NoTokenBooks
  <2>7. QED
    BY <2>6
<1>18. RunBalances(u[child], ChildCalls(u, child), ChildTokens(u, child))
  <2>1. ChildrenIn(U, child) = {}
    <3>1. \A q \in U : q # Root => Front(q) \in S
      BY <1>1, <1>4, <1>10 DEF Family, S, U
    <3>2. QED
      BY <1>4, <3>1 DEF ChildrenIn
  <2>2. ChildCalls(u, child) = 0 /\ ChildTokens(u, child) = 0
    BY <1>8, <2>1, SumOfNone DEF ChildCalls, ChildTokens
  <2>3. QED
    BY <2>2
<1>19. QED
  <2>1. \A q \in DOMAIN u : RunBalances(u[q], ChildCalls(u, q), ChildTokens(u, q))
    BY <1>8, <1>16, <1>17, <1>18 DEF U
  <2>2. QED
    BY <1>11, <2>1 DEF SoundTree

\* A run starts a child: what it hands on is the child's limits.
LEMMA ChildJoins ==
    ASSUME NEW t, SoundTree(t), NEW p \in DOMAIN t, t[p].stage = "tools",
           NEW i \in DOMAIN t[p].members, t[p].members[i].stage = "queued",
           t[p].state.pending_tools[i].tool \in Delegating,
           NEW child, child = NextChild(t, p),
           NEW u, DOMAIN u = DOMAIN t \cup {child},
           u[child] = NewRun(SharePlan(t[p].state)),
           child # p => u[p] = HandsOn(t[p], i, child),
           \A q \in DOMAIN t : q # child /\ q # p => u[q] = t[q]
    PROVE  SoundTree(u)
<1> DEFINE run == t[p]
           s == run.state
           c == ChildCalls(t, p)
           ct == ChildTokens(t, p)
           plan == SharePlan(s)
<1>1. Family(t) /\ RunBalances(run, c, ct)
  BY DEF SoundTree
<1>2. run \in RunRecord /\ Good(s) /\ run.started \in Nat
  BY LimitTypes DEF RunRecord
<1>3. s \in AgentRunState /\ DelegatedCalls(s) \in Nat /\ DelegatedTokens(s) \in Nat
  BY <1>2, BudgetFacts
<1>4. /\ child \in Seq(Nat) /\ child # Root
      /\ Front(child) = p /\ Last(child) = run.started + 1
      /\ child \notin DOMAIN t /\ child # p
  BY <1>1, <1>2, ChildName
<1>5. /\ run.stage = "tools" /\ i \in DOMAIN run.members
      /\ run.members[i].stage = "queued"
      /\ run.state.pending_tools[i].tool \in Delegating
  OBVIOUS
<1>6. u[child] = NewRun(plan) /\ u[p] = HandsOn(run, i, child)
      /\ \A q \in DOMAIN t : q # p => u[q] = t[q]
  BY <1>4
<1> HIDE DEF run, c, ct
<1>7. /\ RunBalances(u[p], c + DelegatedCalls(s), ct + DelegatedTokens(s))
      /\ u[p].state = s
      /\ u[p].started = run.started + 1
      /\ Started(u[p]) \subseteq Started(run) \cup {child}
  <2> DEFINE x == HandsOn(run, i, child)
  <2>1. /\ RunBalances(x, c + DelegatedCalls(s), ct + DelegatedTokens(s))
        /\ x.state = run.state
        /\ x.started = run.started + 1
        /\ Started(x) \subseteq Started(run) \cup {child}
    BY ONLY <1>1, <1>4, <1>5, HandsOnBalances
  <2>2. u[p] = x
    BY <1>6
  <2> HIDE DEF x
  <2>3. QED
    BY <2>1, <2>2
<1> HIDE DEF s, plan
<1>8. /\ plan \in Plan
      /\ plan.model_call_limit = DelegatedCalls(s)
      /\ s.plan.token_limit = Unset => plan.token_limit = Unset
      /\ s.plan.token_limit # Unset =>
            /\ plan.token_limit = DelegatedTokens(s)
            /\ plan.token_limit # Unset
  BY <1>3, SharePlanIs DEF plan
<1>9. /\ RunBalances(u[child], 0, 0)
      /\ u[child].state.plan = plan
      /\ Started(u[child]) = {Root}
  BY <1>6, <1>8, NewRunBalances
<1>10. /\ u[child].state.plan.model_call_limit = DelegatedCalls(s)
       /\ u[child].state.plan.token_limit = Unset <=> s.plan.token_limit = Unset
       /\ s.plan.token_limit # Unset => u[child].state.plan.token_limit = DelegatedTokens(s)
  BY <1>8, <1>9
<1>11. QED
  <2>1. t[p].state = s /\ t[p] = run /\ ChildCalls(t, p) = c /\ ChildTokens(t, p) = ct
    BY DEF s, run, c, ct
  <2>2. SoundTree(t) /\ p \in DOMAIN t /\ DOMAIN u = DOMAIN t \cup {child}
    OBVIOUS
  <2>3. /\ child \in Seq(Nat) /\ child # Root /\ child \notin DOMAIN t
        /\ Front(child) = p /\ Last(child) = t[p].started + 1
        /\ DelegatedCalls(s) \in Nat /\ DelegatedTokens(s) \in Nat
    BY <1>3, <1>4, <2>1
  <2>4. /\ \A q \in DOMAIN t : q # p => u[q] = t[q]
        /\ u[p].state = t[p].state
        /\ u[p].started = t[p].started + 1
        /\ Started(u[p]) \subseteq Started(t[p]) \cup {child}
        /\ RunBalances(u[p], ChildCalls(t, p) + DelegatedCalls(s),
                       ChildTokens(t, p) + DelegatedTokens(s))
    BY <1>6, <1>7, <2>1
  <2>5. /\ RunBalances(u[child], 0, 0) /\ Started(u[child]) = {Root}
        /\ u[child].state.plan.model_call_limit = DelegatedCalls(s)
        /\ u[child].state.plan.token_limit = Unset <=> t[p].state.plan.token_limit = Unset
        /\ t[p].state.plan.token_limit # Unset =>
              u[child].state.plan.token_limit = DelegatedTokens(s)
    BY <1>9, <1>10, <2>1
  <2> DEFINE calls == DelegatedCalls(s)
             tokens == DelegatedTokens(s)
  <2> HIDE DEF calls, tokens
  <2>6. /\ calls \in Nat /\ tokens \in Nat
        /\ RunBalances(u[p], ChildCalls(t, p) + calls, ChildTokens(t, p) + tokens)
        /\ u[child].state.plan.model_call_limit = calls
        /\ t[p].state.plan.token_limit # Unset => u[child].state.plan.token_limit = tokens
    BY <2>3, <2>4, <2>5 DEF calls, tokens
  <2>7. QED
    BY ONLY <2>2, <2>3, <2>4, <2>5, <2>6, ChildBooks

\* A step that moves one run alone.
Moves(t, u, p) ==
    /\ DOMAIN u = DOMAIN t
    /\ Follows(t[p], u[p])
    /\ \A q \in DOMAIN t : q # p => u[q] = t[q]

\* Such a step keeps every run's books.
LEMMA MoveSound ==
    ASSUME NEW t, SoundTree(t), NEW p \in DOMAIN t, NEW u, Moves(t, u, p)
    PROVE  SoundTree(u)
<1>1. \A q \in DOMAIN t : Follows(t[q], u[q])
  <2>1. SUFFICES ASSUME NEW q \in DOMAIN t PROVE Follows(t[q], u[q])
    OBVIOUS
  <2>2. CASE q = p
    BY <2>2 DEF Moves
  <2>3. CASE q # p
    <3>1. Follows(t[q], t[q])
      BY LimitTypes, FlagsFollow
    <3>2. QED
      BY <2>3, <3>1 DEF Moves
  <2>4. QED
    BY <2>2, <2>3
<1>2. QED
  BY <1>1, AllFollow DEF Moves

LEMMA ReplaceMoves ==
    ASSUME NEW p \in Runs, NEW next, Follows(tree[p], next), Replace(p, next)
    PROVE  Moves(tree, tree', p)
BY DEF Replace, Runs, Moves

\* A run back at the top of its loop after a provider call.
Tops(run, t) == [run EXCEPT !.stage = "top", !.attempt = 0, !.state = t]

\* The loop of one run: each of its steps moves that run alone.
LEMMA LoopMoves ==
    ASSUME SoundTree(tree), NEW p \in Runs,
           \/ StopCancelled(p) \/ Stop(p) \/ ExhaustTokens(p) \/ CallProvider(p)
           \/ RetryProvider(p) \/ Answer(p) \/ CallFails(p) \/ ProviderMisbehaves(p)
           \/ SeeCancel(p)
    PROVE  Moves(tree, tree', p)
<1> DEFINE run == tree[p]
           s == run.state
           e == NextEffect(s)
           r == NextModelTokenReservation(s)
<1>1. run \in RunRecord /\ Good(s) /\ InEffect(run)
  BY LimitTypes DEF Runs
<1>2. s \in AgentRunState
  BY <1>1 DEF Good
<1>3. /\ Good(Cancel(s)) /\ Cancel(s).plan = s.plan
      /\ Good(Fail(s)) /\ Fail(s).plan = s.plan
      /\ Good(FinishIfExhausted(s)) /\ FinishIfExhausted(s).plan = s.plan
  BY <1>1, <1>2, QuietStepsGood, PlanIsKept, QuietStepsFields DEF SameCounters
<1>4. CASE StopCancelled(p) \/ Stop(p) \/ ProviderMisbehaves(p) \/ SeeCancel(p)
  <2>1. PICK t \in {Cancel(s), Fail(s), FinishIfExhausted(s)} : Replace(p, Returned(run, t))
    BY <1>4 DEF StopCancelled, Stop, ProviderMisbehaves, SeeCancel
  <2>2. Good(t) /\ t.plan = s.plan
    BY <1>3, <2>1
  <2> HIDE DEF run
  <2>3. Follows(run, Returned(run, t))
    BY <1>1, <2>2, ReturnFollows
  <2>4. QED
    BY <2>1, <2>3, ReplaceMoves DEF run
<1>5. CASE ExhaustTokens(p)
  <2> DEFINE t == CommitBudgetExhausted(s, e)
             next == [run EXCEPT !.state = t]
  <2>1. run.stage = "top" /\ e.kind = "provider" /\ Replace(p, next)
    BY <1>5 DEF ExhaustTokens, ToProvider, AtTop
  <2>2. Follows(run, next)
    BY <1>1, <2>1, ExhaustionFollows
  <2> HIDE DEF next
  <2>3. QED
    BY <2>1, <2>2, ReplaceMoves
<1>6. ASSUME NEW n \in Nat, Attempt(p, n), MayAttempt(s, r, n), e.kind = "provider",
             \/ run.stage = "top" /\ n = 1
             \/ run.stage = "calling" /\ n = run.attempt + 1
      PROVE  Moves(tree, tree', p)
  <2>1. Replace(p, Tries(run, n, r))
    BY <1>6 DEF Attempt, Tries, Reserved
  <2>2. Follows(run, Tries(run, n, r))
    BY <1>1, <1>6, AttemptFollows
  <2>3. QED
    BY <2>1, <2>2, ReplaceMoves
<1>7. CASE CallProvider(p)
  <2>1. /\ run.stage = "top" /\ e.kind = "provider"
        /\ ~OverTokenBudget(s, r) /\ Attempt(p, 1)
    BY <1>7 DEF CallProvider, ToProvider, AtTop, Reserved
  <2>2. MayAttempt(s, r, 1)
    BY <1>1, <2>1, FirstAttemptFits
  <2>3. QED
    BY <1>6, <2>1, <2>2
<1>8. CASE RetryProvider(p)
  <2>1. /\ run.stage = "calling" /\ run.attempt \in Nat
        /\ MayAttempt(s, r, run.attempt + 1) /\ Attempt(p, run.attempt + 1)
    BY <1>1, <1>8 DEF RetryProvider, Calling, Reserved, RunRecord
  <2>2. e.kind = "provider"
    BY <1>1, <2>1 DEF InEffect
  <2>3. QED
    BY <1>6, <2>1, <2>2
<1>9. CASE Answer(p) \/ CallFails(p)
  <2> DEFINE a == [count |-> run.attempt, reserved |-> r, measured |-> TRUE]
  <2>1. run.stage = "calling"
    BY <1>9 DEF Answer, CallFails, Calling
  <2>2. ASSUME NEW t, Replace(p, Tops(run, t)),
               \/ \E calls \in Seq(Call) :
                     t = CommitProviderResponse(s, e, calls, calls = << >>, a)
               \/ t = CommitProviderFailure(s, e, a)
        PROVE  Moves(tree, tree', p)
    <3>1. Follows(run, Tops(run, t))
      BY <1>1, <2>1, <2>2, OutcomeFollows DEF Tops
    <3>2. QED
      BY <2>2, <3>1, ReplaceMoves
  <2>3. CASE CallFails(p)
    <3>1. Replace(p, Tops(run, CommitProviderFailure(s, e, a)))
      BY <1>1, <2>3 DEF CallFails, Attempted, Reserved, RunRecord, Tops
    <3>2. QED
      BY <2>2, <3>1
  <2>4. CASE Answer(p)
    <3>1. PICK calls \in TreeResponses \cup {<< >>} :
             Replace(p, Tops(run, CommitProviderResponse(s, e, calls, calls = << >>, a)))
      BY <1>1, <2>4 DEF Answer, Attempted, Reserved, RunRecord, Tops
    <3>2. calls \in Seq(Call)
      <4>1. << >> \in Seq(Call)
        OBVIOUS
      <4>2. \A x \in TreeResponses : x \in Seq(Call)
        BY TreeAssumption
      <4>3. QED
        BY <4>1, <4>2
    <3>3. QED
      BY <2>2, <3>1, <3>2
  <2>5. QED
    BY <1>9, <2>3, <2>4
<1>10. QED
  BY <1>4, <1>5, <1>7, <1>8, <1>9

\* Tool effects: starting the calls, and committing what they brought.
LEMMA ToolsMove ==
    ASSUME SoundTree(tree), NEW p \in Runs, StartTools(p)
    PROVE  Moves(tree, tree', p)
<1> DEFINE run == tree[p]
           e == NextEffect(run.state)
           n == IF e.kind = "tool-batch" THEN Len(run.state.pending_tools) ELSE 1
           next == [run EXCEPT !.stage = "tools", !.members = [i \in 1..n |-> Queued]]
<1>1. run \in RunRecord /\ Good(run.state)
  BY LimitTypes DEF Runs
<1>2. run.stage = "top" /\ e.kind \in {"tool", "tool-batch"} /\ Replace(p, next)
  BY DEF StartTools, AtTop
<1>3. n = IF e.kind = "tool" THEN 1 ELSE Len(run.state.pending_tools)
  BY <1>2
<1>4. Follows(run, next)
  <2> HIDE DEF run, n
  <2>1. QED
    BY <1>1, <1>2, <1>3, ToolsFollow DEF e
<1> HIDE DEF next
<1>5. QED
  BY <1>2, <1>4, ReplaceMoves DEF run

\* The merged usage of an effect is a ledger.
LEMMA MembersUsageType ==
    ASSUME NEW p, tree[p] \in RunRecord
    PROVE  MembersUsage(p) \in RunUsage
<1> DEFINE m == tree[p].members
           D == DOMAIN m
           f == [i \in D |-> m[i].usage.calls]
<1>1. m \in Seq(Member)
  BY DEF RunRecord
<1> HIDE DEF m
<1>2. D = 1..Len(m) /\ Len(m) \in Nat
  BY <1>1
<1>3. IsFiniteSet(D)
  BY <1>2, FS_Interval
<1>4. \A i \in D : f[i] \in Nat
  <2>1. \A i \in D : m[i] \in Member
    BY <1>1, <1>2
  <2>2. \A i \in D : m[i].usage.calls \in Nat
    BY <2>1 DEF Member, RunUsage
  <2>3. QED
    BY <2>2
<1>5. SumFunction(f) \in Nat
  <2>1. DOMAIN f = D
    OBVIOUS
  <2> HIDE DEF f, D
  <2>2. SumFunctionOnSet(f, D) \in Nat
    BY <1>3, <1>4, SumAgrees
  <2>3. QED
    BY <2>1, <2>2 DEF SumFunction
<1>6. MembersUsage(p) = [calls |-> SumFunction(f), complete |-> \A i \in D : m[i].usage.complete]
  BY DEF MembersUsage, Members, m
<1> HIDE DEF f
<1>7. (\A i \in D : m[i].usage.complete) \in BOOLEAN
  OBVIOUS
<1>8. QED
  BY <1>5, <1>6, <1>7 DEF RunUsage

LEMMA CommitMoves ==
    ASSUME SoundTree(tree), NEW p \in Runs, CommitTools(p)
    PROVE  Moves(tree, tree', p)
<1> DEFINE run == tree[p]
           s == run.state
           usage == MembersUsage(p)
           t == IF NextEffect(s).kind = "tool"
                THEN CommitTool(s, NextEffect(s), usage)
                ELSE CommitBatch(s, NextEffect(s), Len(run.members), usage)
           next == [run EXCEPT !.stage = "top", !.members = << >>, !.state = t]
<1>1. run \in RunRecord /\ Good(s) /\ InEffect(run)
  BY LimitTypes DEF Runs
<1>2. run.stage = "tools" /\ Replace(p, next)
  BY DEF CommitTools
<1>3. usage \in RunUsage
  BY <1>1, MembersUsageType
<1>4. Follows(run, next)
  <2> HIDE DEF run, usage
  <2>1. QED
    BY <1>1, <1>2, <1>3, CommitFollows
<1> HIDE DEF next
<1>5. QED
  BY <1>2, <1>4, ReplaceMoves DEF run

\* A member of the executing effect.
LEMMA MemberType ==
    ASSUME SoundTree(tree), NEW p \in Runs, NEW i \in Members(p)
    PROVE  /\ tree[p] \in RunRecord
           /\ tree[p].members \in Seq(Member)
           /\ Members(p) = 1..Len(tree[p].members)
           /\ tree[p].members[i] \in Member
           /\ tree[p].members[i].child \in Runs
<1>1. tree[p] \in RunRecord
  BY LimitTypes DEF Runs
<1>2. tree[p].members \in Seq(Member)
  BY <1>1 DEF RunRecord
<1>3. Started(tree[p]) \subseteq Runs
  BY DEF SoundTree, Family, Runs
<1>4. QED
  BY <1>1, <1>2, <1>3 DEF Members, Started

\* Any step of a member that keeps its child and starts no run.
LEMMA MemberMoves ==
    ASSUME SoundTree(tree), NEW p \in Runs, NEW i \in Members(p), tree[p].stage = "tools",
           NEW member \in Member, member.child = tree[p].members[i].child,
           member.stage # "queued",
           tree' = [tree EXCEPT ![p].members[i] = member]
    PROVE  Moves(tree, tree', p)
<1> DEFINE run == tree[p]
           m == [run.members EXCEPT ![i] = member]
           next == [run EXCEPT !.members = m]
<1>1. run \in RunRecord /\ run.members \in Seq(Member) /\ i \in 1..Len(run.members)
  BY MemberType
<1>2. Replace(p, next)
  BY DEF Replace
<1>3. /\ m \in Seq(Member) /\ Len(m) = Len(run.members)
      /\ \A j \in 1..Len(run.members) : /\ m[j].child = run.members[j].child
                                        /\ run.members[j].stage # "queued" => m[j].stage # "queued"
  <2> HIDE DEF run
  <2>1. run.members[i].child = member.child
    BY DEF run
  <2>2. QED
    BY <1>1, <2>1
<1>4. Follows(run, next)
  <2>1. run.stage = "tools"
    OBVIOUS
  <2> HIDE DEF run, m
  <2>2. QED
    BY <1>1, <1>3, <2>1, MemberFollows
<1> HIDE DEF next
<1>5. QED
  BY <1>2, <1>4, ReplaceMoves DEF run

LEMMA MembersMove ==
    ASSUME SoundTree(tree), NEW p \in Runs, NEW i \in Members(p),
           \/ RefuseDelegation(p, i) \/ StartTool(p, i) \/ ToolDone(p, i) \/ ChildReturns(p, i)
    PROVE  Moves(tree, tree', p)
<1> DEFINE old == tree[p].members[i]
<1>1. /\ old \in Member /\ old.child \in Runs /\ tree[p] \in RunRecord
      /\ tree[p].members \in Seq(Member)
  BY MemberType
<1>2. CASE StartTool(p, i)
  <2> DEFINE member == [old EXCEPT !.stage = "running"]
  <2>1. tree[p].stage = "tools" /\ tree' = [tree EXCEPT ![p].members[i] = member]
    BY <1>2 DEF StartTool, Startable, InTools
  <2>2. member \in Member /\ member.child = old.child /\ member.stage # "queued"
    BY <1>1 DEF Member
  <2> HIDE DEF member
  <2>3. QED
    BY <2>1, <2>2, MemberMoves
<1>3. ASSUME NEW usage \in RunUsage, tree[p].stage = "tools", MemberDone(p, i, usage)
      PROVE  Moves(tree, tree', p)
  <2> DEFINE member == [old EXCEPT !.stage = "done", !.usage = usage]
  <2>1. tree' = [tree EXCEPT ![p].members[i] = member]
    <3> DEFINE half == [tree EXCEPT ![p].members[i].stage = "done"]
               run == [tree[p] EXCEPT !.members[i].stage = "done"]
    <3>1. p \in DOMAIN tree /\ i \in DOMAIN tree[p].members
      BY DEF Runs, Members
    <3>2. DOMAIN tree[p] = DOMAIN run /\ "members" \in DOMAIN tree[p]
      BY <1>1 DEF RunRecord
    <3>3. half = [tree EXCEPT ![p] = run] /\ DOMAIN half = DOMAIN tree
      OBVIOUS
    <3>4. run = [tree[p] EXCEPT !.members = [tree[p].members EXCEPT ![i].stage = "done"]]
      OBVIOUS
    <3>5. tree' = [half EXCEPT ![p].members[i].usage = usage]
      BY <1>3 DEF MemberDone
    <3> HIDE DEF half
    <3>6. half[p] = run
      BY <3>1, <3>3
    <3>7. tree' = [half EXCEPT ![p] = [run EXCEPT !.members[i].usage = usage]]
      BY <3>5, <3>6
    <3>8. run.members = [tree[p].members EXCEPT ![i] = [old EXCEPT !.stage = "done"]]
      BY <3>2, <3>4
    <3>9. run.members[i] = [old EXCEPT !.stage = "done"]
      BY <3>1, <3>8
    <3>10. [run EXCEPT !.members[i].usage = usage]
              = [run EXCEPT !.members = [run.members EXCEPT ![i] = member]]
      BY <3>9
    <3>11. [run.members EXCEPT ![i] = member] = [tree[p].members EXCEPT ![i] = member]
      BY <3>8
    <3>12. [run EXCEPT !.members = [tree[p].members EXCEPT ![i] = member]]
              = [tree[p] EXCEPT !.members = [tree[p].members EXCEPT ![i] = member]]
      BY <3>4
    <3> HIDE DEF run, member
    <3>13. tree' = [half EXCEPT ![p] = [tree[p] EXCEPT !.members[i] = member]]
      BY <3>7, <3>10, <3>11, <3>12
    <3>14. QED
      BY <3>3, <3>13
  <2>2. member \in Member /\ member.child = old.child /\ member.stage # "queued"
    BY <1>1 DEF Member
  <2> HIDE DEF member
  <2>3. QED
    BY <1>3, <2>1, <2>2, MemberMoves
<1>4. EmptyUsage \in RunUsage
  BY DEF EmptyUsage, RunUsage
<1>5. CASE RefuseDelegation(p, i) \/ ToolDone(p, i)
  BY <1>3, <1>4, <1>5 DEF RefuseDelegation, ToolDone, Startable, InTools
<1>6. CASE ChildReturns(p, i)
  <2>1. tree[old.child] \in RunRecord
    BY <1>1, LimitTypes DEF Runs
  <2>2. tree[old.child].state.usage \in RunUsage
    BY <2>1 DEF RunRecord, AgentRunState
  <2>3. QED
    BY <1>3, <1>6, <2>2 DEF ChildReturns, InTools
<1>7. QED
  BY <1>2, <1>5, <1>6

\* A run is told to stop, by its handle or by the delegation it serves.
LEMMA ToldMoves ==
    ASSUME SoundTree(tree), NEW q \in Runs, tree' = [tree EXCEPT ![q].cancelled = TRUE]
    PROVE  SoundTree(tree')
<1>1. Follows(tree[q], [tree[q] EXCEPT !.cancelled = TRUE])
  BY LimitTypes, FlagsFollow DEF Runs
<1>2. Moves(tree, tree', q)
  BY <1>1, ReplaceMoves DEF Replace
<1>3. QED
  BY <1>2, MoveSound DEF Runs

\* A delegation tells its child.
LEMMA TellSound ==
    ASSUME SoundTree(tree), NEW p \in Runs, NEW i \in Members(p), TellChild(p, i)
    PROVE  SoundTree(tree')
<1> DEFINE q == tree[p].members[i].child
<1>1. q \in Runs
  BY MemberType
<1>2. tree' = [tree EXCEPT ![q].cancelled = TRUE]
  BY DEF TellChild
<1> HIDE DEF q
<1>3. QED
  BY <1>1, <1>2, ToldMoves

\* An ordinary tool ends its effect: the run returns, and its children are told
\* or dropped.
LEMMA ToolCancelledSound ==
    ASSUME SoundTree(tree), NEW p \in Runs, NEW i \in Members(p), ToolCancelled(p, i)
    PROVE  SoundTree(tree')
<1>1. DOMAIN tree' = DOMAIN tree
  BY DEF ToolCancelled, Runs
<1>2. ASSUME NEW q \in Runs
      PROVE  \/ q = p /\ tree'[q] = Returned(tree[p], Cancel(tree[p].state))
             \/ tree'[q] = [tree[q] EXCEPT !.cancelled = TRUE]
             \/ tree'[q] = [tree[q] EXCEPT !.dropped = TRUE]
             \/ tree'[q] = tree[q]
  BY <1>2 DEF ToolCancelled
<1>3. ASSUME NEW q \in Runs
      PROVE  Follows(tree[q], tree'[q])
  <2>1. tree[q] \in RunRecord /\ Good(tree[q].state)
    BY LimitTypes DEF Runs
  <2>2. Good(Cancel(tree[q].state)) /\ Cancel(tree[q].state).plan = tree[q].state.plan
    BY <2>1, QuietStepsGood, PlanIsKept DEF Good
  <2>3. Follows(tree[q], Returned(tree[q], Cancel(tree[q].state)))
    BY <2>1, <2>2, ReturnFollows
  <2>4. QED
    BY <1>2, <2>1, <2>3, FlagsFollow
<1>4. QED
  BY <1>1, <1>3, AllFollow DEF Runs

\* A delegation starts its child.
LEMMA StartSound ==
    ASSUME SoundTree(tree), NEW p \in Runs, NEW i \in Members(p), StartChild(p, i)
    PROVE  SoundTree(tree')
<1> DEFINE child == NextChild(tree, p)
           run == tree[p]
<1>1. /\ run.stage = "tools" /\ run.members[i].stage = "queued"
      /\ run.state.pending_tools[i].tool \in Delegating
      /\ i \in DOMAIN run.members
  BY DEF StartChild, Startable, InTools, Delegates, Members
<1>2. tree' = [q \in Runs \cup {child} |->
                 IF q = child
                 THEN NewRun(SharePlan(run.state))
                 ELSE IF q = p THEN HandsOn(run, i, child) ELSE tree[q]]
  BY DEF StartChild, NextChild, HandsOn
<1> HIDE DEF child
<1>3. /\ DOMAIN tree' = DOMAIN tree \cup {child}
      /\ tree'[child] = NewRun(SharePlan(tree[p].state))
      /\ child # p => tree'[p] = HandsOn(tree[p], i, child)
      /\ \A q \in DOMAIN tree : q # child /\ q # p => tree'[q] = tree[q]
  BY <1>2 DEF Runs
<1>4. child = NextChild(tree, p) /\ p \in DOMAIN tree /\ SoundTree(tree)
  BY DEF child, Runs
<1> DEFINE t == tree
           u == tree'
<1>5. /\ SoundTree(t) /\ p \in DOMAIN t /\ t[p].stage = "tools"
      /\ i \in DOMAIN t[p].members /\ t[p].members[i].stage = "queued"
      /\ t[p].state.pending_tools[i].tool \in Delegating
      /\ child = NextChild(t, p)
      /\ DOMAIN u = DOMAIN t \cup {child}
      /\ u[child] = NewRun(SharePlan(t[p].state))
      /\ child # p => u[p] = HandsOn(t[p], i, child)
      /\ \A q \in DOMAIN t : q # child /\ q # p => u[q] = t[q]
  BY <1>1, <1>3, <1>4
<1> HIDE DEF t, u
<1>6. SoundTree(u)
  BY ONLY <1>5, ChildJoins
<1>7. QED
  BY <1>6 DEF u

\* The first run, alone.
LEMMA FirstSound == TreeInit => TreeSound
<1>1. SUFFICES ASSUME NEW plan \in RootPlans, tree = [p \in {Root} |-> NewRun(plan)]
               PROVE  SoundTree(tree)
  BY DEF TreeInit, TreeSound
<1>2. plan \in Plan
  BY TreeAssumption
<1>3. /\ RunBalances(NewRun(plan), 0, 0)
      /\ Started(NewRun(plan)) = {Root}
  BY <1>2, NewRunBalances
<1>4. DOMAIN tree = {Root} /\ tree[Root] = NewRun(plan)
  BY <1>1
<1>5. Family(tree)
  <2>1. Root \in Seq(Nat)
    BY DEF Root
  <2>3. IsFiniteSet({Root})
    BY FS_Singleton
  <2>2. QED
    BY <1>3, <1>4, <2>1, <2>3 DEF Family
<1>6. ChildCalls(tree, Root) = 0 /\ ChildTokens(tree, Root) = 0
  <2>1. ChildrenIn({Root}, Root) = {}
    BY DEF ChildrenIn
  <2>2. QED
    BY <1>4, <2>1, SumOfNone DEF ChildCalls, ChildTokens
<1>7. QED
  BY <1>3, <1>4, <1>5, <1>6 DEF SoundTree

\* Every step of every run.
LEMMA StepSound ==
    ASSUME SoundTree(tree), NEW p \in Runs, TaskStep(p) \/ OutsideStep(p)
    PROVE  SoundTree(tree')
<1>1. ASSUME Moves(tree, tree', p)
      PROVE  SoundTree(tree')
  BY <1>1, MoveSound DEF Runs
<1>2. CASE \/ StopCancelled(p) \/ Stop(p) \/ ExhaustTokens(p) \/ CallProvider(p)
           \/ RetryProvider(p) \/ Answer(p) \/ CallFails(p) \/ ProviderMisbehaves(p)
           \/ SeeCancel(p)
  BY <1>1, <1>2, LoopMoves
<1>3. CASE StartTools(p) \/ CommitTools(p)
  BY <1>1, <1>3, ToolsMove, CommitMoves
<1>4. ASSUME NEW i \in Members(p),
             \/ RefuseDelegation(p, i) \/ StartTool(p, i) \/ ToolDone(p, i) \/ ChildReturns(p, i)
      PROVE  SoundTree(tree')
  BY <1>1, <1>4, MembersMove
<1>5. ASSUME NEW i \in Members(p), TellChild(p, i) \/ ToolCancelled(p, i) \/ StartChild(p, i)
      PROVE  SoundTree(tree')
  BY <1>5, TellSound, ToolCancelledSound, StartSound
<1>6. QED
  BY <1>2, <1>3, <1>4, <1>5 DEF TaskStep, OutsideStep

\* The books of every run balance in every state: what its own calls have used
\* and the limits of all children it ever started are covered by what it has
\* charged and what its executing effect will charge (reserve_delegation,
\* delegation_budget, allowed_attempts).
THEOREM TreeStaysSound == TreeSpec => []TreeSound
<1>1. TreeSound /\ [TreeNext]_tree => TreeSound'
  <2>1. SUFFICES ASSUME SoundTree(tree), [TreeNext]_tree
                 PROVE  SoundTree(tree')
    BY DEF TreeSound
  <2>2. CASE UNCHANGED tree
    BY <2>1, <2>2
  <2>3. CASE CancelRoot
    <3>1. Root \in Runs
      BY <2>1 DEF SoundTree, Family, Runs
    <3>2. QED
      BY <2>1, <2>3, <3>1, ToldMoves DEF CancelRoot
  <2>4. ASSUME NEW p \in Runs, TaskStep(p) \/ OutsideStep(p)
        PROVE  SoundTree(tree')
    BY <2>1, <2>4, StepSound
  <2>5. QED
    BY <2>1, <2>2, <2>3, <2>4 DEF TreeNext, Rest
<1>2. QED
  BY FirstSound, <1>1, PTL DEF TreeSpec

\* A run and everything below it, to any depth, stay within the run's own
\* limits of model calls and of tokens, in-flight and retried calls included.
THEOREM TreeStaysWithinLimits == TreeSpec => []TreeWithinLimits
<1>1. TreeSound => TreeWithinLimits
  <2>1. SUFFICES ASSUME SoundTree(tree), NEW p \in Runs
                 PROVE  /\ CallsMade(p) <= tree[p].state.plan.model_call_limit
                        /\ \/ tree[p].state.plan.token_limit = Unset
                           \/ TokensUsed(p) <= tree[p].state.plan.token_limit
    BY DEF TreeSound, TreeWithinLimits
  <2> DEFINE S == DOMAIN tree
             made == [q \in S |-> tree[q].made]
             spent == [q \in S |-> tree[q].tokens]
             calls == CallLimits(tree)
             limits == TokenLimits(tree)
  <2>2. /\ IsFiniteSet(S) /\ S \subseteq Seq(Nat) /\ p \in S
        /\ \A q \in S : q # Root => Front(q) \in S
        /\ \A q \in S : tree[q].state.plan.token_limit = Unset
                           <=> tree[p].state.plan.token_limit = Unset
    BY <2>1 DEF SoundTree, Family, Runs
  <2>3. \A q \in S : /\ tree[q] \in RunRecord
                     /\ RunBalances(tree[q], ChildCalls(tree, q), ChildTokens(tree, q))
    BY <2>1, LimitTypes DEF SoundTree
  <2>4. \A q \in S : /\ made[q] \in Nat /\ spent[q] \in Nat
                     /\ made[q] = tree[q].made /\ spent[q] = tree[q].tokens
    BY <2>3 DEF RunRecord
  <2>5. \A q \in S : /\ calls[q] \in Nat
                     /\ calls[q] = tree[q].state.plan.model_call_limit
                     /\ limits[q] = tree[q].state.plan.token_limit
                     /\ tree[q].state.plan.token_limit # Unset => limits[q] \in Nat
    BY <2>1, LimitTypes
  <2>6. \A q \in S : /\ ChildCalls(tree, q) = SumFunctionOnSet(calls, ChildrenIn(S, q))
                     /\ ChildTokens(tree, q) = SumFunctionOnSet(limits, ChildrenIn(S, q))
    BY DEF ChildCalls, ChildTokens
  <2>7. /\ CallsMade(p) = SumFunctionOnSet(made, Below(S, p))
        /\ TokensUsed(p) = SumFunctionOnSet(spent, Below(S, p))
    <3> DEFINE B == Below(S, p)
               f == [q \in B |-> tree[q].made]
               g == [q \in B |-> tree[q].tokens]
    <3>1. Subtree(p) = B
      BY DEF Subtree, Below, Runs
    <3>2. CallsMade(p) = SumFunctionOnSet(f, B) /\ TokensUsed(p) = SumFunctionOnSet(g, B)
      BY <3>1 DEF CallsMade, TokensUsed, SumFunction
    <3>3. IsFiniteSet(B) /\ B \subseteq S
      BY <2>2, FS_Subset DEF Below
    <3>4. \A q \in B : /\ made[q] \in Nat /\ f[q] = made[q]
                       /\ spent[q] \in Nat /\ g[q] = spent[q]
      BY <2>4, <3>3
    <3> HIDE DEF B, f, g, made, spent
    <3>5. SumFunctionOnSet(f, B) = SumFunctionOnSet(made, B)
      BY <3>3, <3>4, SumAgrees
    <3>6. SumFunctionOnSet(g, B) = SumFunctionOnSet(spent, B)
      BY <3>3, <3>4, SumAgrees
    <3>7. QED
      BY <3>2, <3>5, <3>6 DEF B
  <2> HIDE DEF S, made, spent, calls, limits
  <2>8. \A q \in S :
           /\ made[q] + SumFunctionOnSet(calls, ChildrenIn(S, q)) <= calls[q]
           /\ tree[q].state.plan.token_limit # Unset =>
                 spent[q] + SumFunctionOnSet(limits, ChildrenIn(S, q)) <= limits[q]
    BY <2>3, <2>4, <2>5, <2>6, RunWithinLimits
  <2>9. SumFunctionOnSet(made, Below(S, p)) <= calls[p]
    <3>1. \A q \in S : made[q] \in Nat /\ calls[q] \in Nat
      BY <2>4, <2>5
    <3>2. \A q \in S : made[q] + SumFunctionOnSet(calls, ChildrenIn(S, q)) <= calls[q]
      BY <2>8
    <3>3. QED
      BY ONLY <2>2, <3>1, <3>2, WithinByChildren
  <2>10. ASSUME tree[p].state.plan.token_limit # Unset
         PROVE  SumFunctionOnSet(spent, Below(S, p)) <= limits[p]
    <3>1. \A q \in S : spent[q] \in Nat /\ limits[q] \in Nat
      BY <2>2, <2>4, <2>5, <2>10
    <3>2. \A q \in S : spent[q] + SumFunctionOnSet(limits, ChildrenIn(S, q)) <= limits[q]
      BY <2>2, <2>8, <2>10
    <3>3. QED
      BY ONLY <2>2, <3>1, <3>2, WithinByChildren
  <2>11. QED
    BY <2>2, <2>5, <2>7, <2>9, <2>10
<1>2. QED
  BY TreeStaysSound, <1>1, PTL
=============================================================================
