--------------------------- MODULE RunStateProofs ---------------------------
(***************************************************************************)
(* Lemmas about the methods of AgentRunState and the canonical history,    *)
(* for every registry and every state: they hold whatever runtime calls    *)
(* the methods, and the proofs about the state machine under any host and  *)
(* about the local run rest on them.                                       *)
(***************************************************************************)
EXTENDS HistoryRules, FiniteSetTheorems, SequenceTheorems, TLAPS

-----------------------------------------------------------------------------
(* Admission arithmetic. *)

\* The pending delegations are finitely many.
LEMMA PendingFinite ==
    ASSUME NEW s \in AgentRunState
    PROVE  IsFiniteSet(PendingDelegations(s))
<1>1. Len(s.pending_tools) \in Nat
  BY DEF AgentRunState
<1>2. IsFiniteSet(1..Len(s.pending_tools))
  BY <1>1, FS_Interval
<1>3. PendingDelegations(s) \subseteq 1..Len(s.pending_tools)
  BY DEF PendingDelegations
<1>4. QED
  BY <1>2, <1>3, FS_Subset

\* Cardinality of the pending delegations is a natural number, so there is at
\* least one share (delegation_budget_for's divisor is never zero).
LEMMA SharesType ==
    ASSUME NEW s \in AgentRunState
    PROVE  /\ Cardinality(PendingDelegations(s)) \in Nat
           /\ Shares(s) \in Nat \ {0}
<1>1. Cardinality(PendingDelegations(s)) \in Nat
  BY PendingFinite, FS_CardinalityType
<1>2. QED
  BY <1>1 DEF Shares

\* What remains of a budget is a natural number, and so is a child's share.
LEMMA RemainingType ==
    ASSUME NEW s \in AgentRunState
    PROVE  /\ ChargedCalls(s) \in Nat
           /\ RemainingCalls(s) \in Nat
           /\ s.plan.token_limit # Unset => RemainingTokens(s) \in Nat
           /\ DelegatedCalls(s) \in Nat
           /\ DelegatedTokens(s) \in Nat
<1>1. ChargedCalls(s) \in Nat /\ RemainingCalls(s) \in Nat
  BY DEF AgentRunState, Plan, ChargedCalls, RemainingCalls, MaxOf, Minus
<1>2. s.plan.token_limit # Unset => RemainingTokens(s) \in Nat
  BY DEF AgentRunState, Plan, RemainingTokens, Minus, Unset
<1>3. Shares(s) \in Nat \ {0}
  BY SharesType
<1>4. DelegatedCalls(s) \in Nat
  BY <1>1, <1>3 DEF DelegatedCalls
<1>5. DelegatedTokens(s) \in Nat
  BY <1>2, <1>3 DEF DelegatedTokens
<1>6. QED
  BY <1>1, <1>2, <1>4, <1>5

\* An integer share of a budget, taken by all but one of the shares, fits it.
LEMMA SharesFit ==
    ASSUME NEW budget \in Nat, NEW shares \in Nat \ {0}, NEW n \in Nat, n < shares
    PROVE  n * (budget \div shares) <= budget
BY SMT

\* The shares of fewer children than there are shares never use a budget up.
LEMMA SharesLeaveRest ==
    ASSUME NEW budget \in Nat \ {0}, NEW shares \in Nat \ {0}, NEW n \in Nat, n < shares
    PROVE  n * (budget \div shares) < budget
<1> DEFINE q == budget \div shares
<1>1. q \in Nat /\ shares * q <= budget
  BY SMT
<1>2. CASE q = 0
  BY <1>2
<1>3. CASE q > 0
  <2> HIDE DEF q
  <2>1. n * q < shares * q
    BY <1>1, <1>3, SMT
  <2>2. QED
    BY <1>1, <2>1 DEF q
<1>4. QED
  BY <1>1, <1>2, <1>3

\* n attempts of r tokens fit a budget that n <= budget / max(r, 1) admits.
LEMMA AttemptsFit ==
    ASSUME NEW budget \in Nat, NEW r \in Nat, NEW n \in Nat, n <= budget \div MaxOf(r, 1)
    PROVE  n * r <= budget
<1>1. CASE r >= 1
  <2>1. MaxOf(r, 1) = r
    BY <1>1 DEF MaxOf
  <2>2. n <= budget \div r
    BY <2>1
  <2>3. QED
    BY <1>1, <2>2, SMT
<1>2. CASE r = 0
  BY <1>2
<1>3. QED
  BY <1>1, <1>2

-----------------------------------------------------------------------------
(* Each method keeps the state typed and within its budgets. *)

WithinCalls(s) == ChargedCalls(s) <= s.plan.model_call_limit

WithinTokens(s) == s.plan.token_limit # Unset => s.reserved_tokens <= s.plan.token_limit

Good(s) == s \in AgentRunState /\ WithinCalls(s) /\ WithinTokens(s)

\* From s to t, a run that had budget left still has some.
LeavesShare(s, t) ==
    /\ RemainingCalls(s) > 0 => RemainingCalls(t) > 0
    /\ s.plan.token_limit # Unset /\ RemainingTokens(s) > 0 => RemainingTokens(t) > 0

\* A run starts with nothing charged (AgentRunState::with_plan).
LEMMA NewStateGood ==
    ASSUME NEW plan \in Plan, NEW history \in Seq(Message)
    PROVE  Good(NewState(plan, history))
<1> DEFINE s == NewState(plan, history)
<1>1. s \in AgentRunState
  BY DEF NewState, AgentRunState, EmptyUsage, RunUsage, Status
<1>2. WithinCalls(s) /\ WithinTokens(s)
  BY DEF NewState, Plan, WithinCalls, WithinTokens, ChargedCalls, MaxOf, Unset
<1>3. QED
  BY <1>1, <1>2 DEF Good

\* Terminal transitions and elapsed time charge nothing.
LEMMA QuietStepsGood ==
    ASSUME NEW s, Good(s)
    PROVE  /\ Good(Cancel(s))
           /\ Good(Fail(s))
           /\ Good(FinishIfExhausted(s))
           /\ \A ms \in Nat : Good(RecordElapsed(s, ms))
<1>1. Good(Cancel(s))
  BY DEF Good, Cancel, AgentRunState, RunUsage, Status, WithinCalls, WithinTokens, ChargedCalls
<1>2. Good(Fail(s))
  BY DEF Good, Fail, AgentRunState, Status, WithinCalls, WithinTokens, ChargedCalls, MaxOf
<1>3. Good([s EXCEPT !.status = "incomplete", !.usage.complete = FALSE])
  BY DEF Good, AgentRunState, RunUsage, Status, WithinCalls, WithinTokens, ChargedCalls
<1>4. Good(FinishIfExhausted(s))
  BY <1>1, <1>3 DEF FinishIfExhausted
<1>5. ASSUME NEW ms \in Nat PROVE Good(RecordElapsed(s, ms))
  <2> DEFINE t == RecordElapsed(s, ms)
  <2>1. t \in AgentRunState
    <3>1. s \in AgentRunState /\ s.elapsed_ms + ms \in Nat
      BY DEF Good, AgentRunState
    <3>2. t = [s EXCEPT !.elapsed_ms = s.elapsed_ms + ms]
      BY DEF RecordElapsed
    <3> HIDE DEF t
    <3>3. QED
      BY <3>1, <3>2 DEF AgentRunState
  <2>2. /\ t.plan = s.plan
        /\ ChargedCalls(t) = ChargedCalls(s)
        /\ t.reserved_tokens = s.reserved_tokens
    BY DEF Good, RecordElapsed, AgentRunState, ChargedCalls
  <2>3. QED
    BY <2>1, <2>2 DEF Good, WithinCalls, WithinTokens
<1>6. QED
  BY <1>1, <1>2, <1>4, <1>5

\* An expected provider effect means that at least one call is left.
LEMMA ProviderNeedsBudget ==
    ASSUME NEW s \in AgentRunState, NEW effect,
           effect.kind = "provider", Expected(s, effect)
    PROVE  /\ ChargedCalls(s) < s.plan.model_call_limit
           /\ effect = ProviderEffect(s.model_calls)
<1>1. ChargedCalls(s) \in Nat
  BY RemainingType
<1>2. /\ ~NoProviderBudget(s)
      /\ effect = ProviderEffect(s.model_calls)
  BY DEF Expected, NextEffect, NoEffect, BatchEffect, ToolEffect, ProviderEffect
<1>3. QED
  BY <1>1, <1>2 DEF NoProviderBudget, AgentRunState, Plan

\* Attempts that the executor admits leave the charged state within its budgets.
Admitted(s, attempts) ==
    /\ attempts \in Attempts
    /\ CallCount(attempts) <= RemainingCalls(s)
    /\ s.plan.token_limit # Unset => ReservationFor(s, attempts) <= RemainingTokens(s)

LEMMA ReservationType ==
    ASSUME NEW s \in AgentRunState, NEW attempts \in Attempts
    PROVE  ReservationFor(s, attempts) \in Nat /\ CallCount(attempts) \in Nat \ {0}
<1>1. Len(s.history) \in Nat
  BY DEF AgentRunState
<1>2. NextModelTokenReservation(s) \in Nat
  BY <1>1, TokensAssumption DEF NextModelTokenReservation
<1>3. CallCount(attempts) \in Nat \ {0}
  BY DEF Attempts, CallCount, MaxOf
<1>4. QED
  BY <1>2, <1>3 DEF ReservationFor, Attempts

LEMMA ChargeType ==
    ASSUME NEW s \in AgentRunState, NEW attempts \in Attempts
    PROVE  ChargeProvider(s, attempts) \in AgentRunState
<1> DEFINE t == ChargeProvider(s, attempts)
<1>1. ReservationFor(s, attempts) \in Nat /\ CallCount(attempts) \in Nat \ {0}
  BY ReservationType
<1> DEFINE usage == [calls |-> s.usage.calls + CallCount(attempts),
                     complete |-> s.usage.complete /\ attempts.measured]
<1>2. usage \in RunUsage
  BY <1>1 DEF AgentRunState, RunUsage
<1>3. /\ s.reserved_tokens + ReservationFor(s, attempts) \in Nat
      /\ MaxOf(s.provider_calls_started, s.model_calls) + CallCount(attempts) \in Nat
      /\ s.model_calls + 1 \in Nat
  BY <1>1 DEF AgentRunState, MaxOf
<1>4. t = [s EXCEPT !.reserved_tokens = s.reserved_tokens + ReservationFor(s, attempts),
                    !.provider_calls_started =
                        MaxOf(s.provider_calls_started, s.model_calls) + CallCount(attempts),
                    !.model_calls = s.model_calls + 1,
                    !.usage = usage]
  BY DEF ChargeProvider
<1> HIDE DEF t, usage
<1>5. t \in AgentRunState
  BY <1>2, <1>3, <1>4 DEF AgentRunState
<1>6. QED
  BY <1>5 DEF t

LEMMA ChargeGood ==
    ASSUME NEW s, Good(s), NEW attempts, Admitted(s, attempts)
    PROVE  Good(ChargeProvider(s, attempts))
<1> DEFINE t == ChargeProvider(s, attempts)
<1> USE DEF Good
<1>1. ReservationFor(s, attempts) \in Nat /\ CallCount(attempts) \in Nat \ {0}
  BY ReservationType DEF Admitted
<1>2. t \in AgentRunState
  BY ChargeType DEF Admitted
<1>3. ChargedCalls(t) = ChargedCalls(s) + CallCount(attempts)
  BY <1>1 DEF ChargeProvider, ChargedCalls, AgentRunState, MaxOf
<1>4. WithinCalls(t)
  <2>1. t.plan = s.plan
    BY DEF ChargeProvider, AgentRunState
  <2>2. ChargedCalls(s) \in Nat
    BY RemainingType
  <2>3. CallCount(attempts) <= RemainingCalls(s)
    BY DEF Admitted
  <2>4. QED
    BY <1>1, <1>3, <2>1, <2>2, <2>3
    DEF WithinCalls, RemainingCalls, Minus, AgentRunState, Plan
<1>5. WithinTokens(t)
  BY <1>1 DEF ChargeProvider, WithinTokens, Admitted, RemainingTokens, Minus, AgentRunState, Plan, Unset
<1>6. QED
  BY <1>2, <1>4, <1>5

\* Usage, history, pending calls, status and answer charge nothing.
Bookkeep(s, usage, history, pending, status, text) ==
    [s EXCEPT !.usage = usage, !.history = history, !.pending_tools = pending,
              !.status = status, !.text = text]

LEMMA BookkeepingGood ==
    ASSUME NEW s, Good(s),
           NEW usage \in RunUsage, NEW history \in Seq(Message), NEW pending \in Seq(Call),
           NEW status \in Status, NEW text \in BOOLEAN
    PROVE  /\ Good(Bookkeep(s, usage, history, pending, status, text))
           /\ \A p : LeavesShare(p, s) =>
                     LeavesShare(p, Bookkeep(s, usage, history, pending, status, text))
<1> DEFINE t == Bookkeep(s, usage, history, pending, status, text)
<1>1. t \in AgentRunState
  BY DEF Good, AgentRunState, Bookkeep
<1>2. /\ t.plan = s.plan
      /\ ChargedCalls(t) = ChargedCalls(s)
      /\ t.reserved_tokens = s.reserved_tokens
  BY DEF Good, AgentRunState, ChargedCalls, Bookkeep
<1>3. Good(t)
  BY <1>1, <1>2 DEF Good, WithinCalls, WithinTokens
<1>4. RemainingCalls(t) = RemainingCalls(s) /\ RemainingTokens(t) = RemainingTokens(s)
  BY <1>2 DEF RemainingCalls, RemainingTokens
<1>5. QED
  BY <1>3, <1>4 DEF LeavesShare

LEMMA AcceptGood ==
    ASSUME NEW s, Good(s), NEW calls \in Seq(Call), NEW text \in BOOLEAN
    PROVE  Good(AcceptResponse(s, calls, text))
<1> DEFINE unmeasured == [s.usage EXCEPT !.complete = FALSE]
<1>0. s \in AgentRunState
  BY DEF Good
<1>1. s.history \in Seq(Message) /\ s.pending_tools \in Seq(Call) /\ s.usage \in RunUsage
  BY <1>0 DEF AgentRunState
<1>2. /\ Append(s.history, CallsMessage(calls)) \in Seq(Message)
      /\ Append(s.history, TextMessage) \in Seq(Message)
      /\ unmeasured \in RunUsage
  <2>1. CallsMessage(calls) \in Message /\ TextMessage \in Message
    BY DEF CallsMessage, TextMessage, Message
  <2>2. unmeasured \in RunUsage
    BY <1>1 DEF RunUsage
  <2>3. QED
    BY <1>1, <2>1, <2>2
<1>3. CASE calls # << >>
  <2>1. AcceptResponse(s, calls, text) =
          Bookkeep(s, s.usage, Append(s.history, CallsMessage(calls)), calls, "running", s.text)
    BY <1>0, <1>3 DEF Bookkeep, AcceptResponse, AgentRunState
  <2>2. s.text \in BOOLEAN /\ "running" \in Status
    BY <1>0 DEF AgentRunState, Status
  <2>3. QED
    BY <1>1, <1>2, <2>1, <2>2, BookkeepingGood
<1>4. CASE calls = << >> /\ text
  <2>1. AcceptResponse(s, calls, text) =
          Bookkeep(s, s.usage, Append(s.history, TextMessage), s.pending_tools, "completed", TRUE)
    BY <1>0, <1>4 DEF Bookkeep, AcceptResponse, AgentRunState
  <2>2. "completed" \in Status
    BY DEF Status
  <2>3. QED
    BY <1>1, <1>2, <2>1, <2>2, BookkeepingGood
<1>5. CASE calls = << >> /\ ~text
  <2>1. AcceptResponse(s, calls, text) =
          Bookkeep(s, unmeasured, s.history, s.pending_tools, "incomplete", s.text)
    BY <1>0, <1>5 DEF Bookkeep, AcceptResponse, AgentRunState
  <2>2. s.text \in BOOLEAN /\ "incomplete" \in Status
    BY <1>0 DEF AgentRunState, Status
  <2> HIDE DEF unmeasured
  <2>3. QED
    BY <1>1, <1>2, <2>1, <2>2, BookkeepingGood
<1>6. QED
  BY <1>3, <1>4, <1>5

\* The shares of fewer children than there are shares fit what remains.
LEMMA ReserveGood ==
    ASSUME NEW s, Good(s), NEW n \in Nat, n < Shares(s)
    PROVE  Good(ReserveChildren(s, n)) /\ LeavesShare(s, ReserveChildren(s, n))
<1>0. s.plan \in Plan /\ s.reserved_tokens \in Nat
  BY DEF Good, AgentRunState
<1> DEFINE t == ReserveChildren(s, n)
<1> USE DEF Good
<1>1. /\ ChargedCalls(s) \in Nat
      /\ RemainingCalls(s) \in Nat
      /\ s.plan.token_limit # Unset => RemainingTokens(s) \in Nat
      /\ DelegatedCalls(s) \in Nat
      /\ DelegatedTokens(s) \in Nat
      /\ Shares(s) \in Nat \ {0}
  BY RemainingType, SharesType
<1>2. n * DelegatedCalls(s) \in Nat /\ n * DelegatedTokens(s) \in Nat
  BY <1>1
<1>3. t \in AgentRunState
  <2>1. /\ s.reserved_child_model_calls + n * DelegatedCalls(s) \in Nat
        /\ s.reserved_tokens + n * DelegatedTokens(s) \in Nat
    BY <1>2 DEF AgentRunState
  <2>2. t = [s EXCEPT !.reserved_child_model_calls =
                          s.reserved_child_model_calls + n * DelegatedCalls(s),
                      !.reserved_tokens = s.reserved_tokens + n * DelegatedTokens(s)]
    BY DEF ReserveChildren
  <2> HIDE DEF t
  <2>3. QED
    BY <2>1, <2>2 DEF AgentRunState
<1>4. t.plan = s.plan /\ ChargedCalls(t) = ChargedCalls(s) + n * DelegatedCalls(s)
  BY <1>2 DEF ReserveChildren, ChargedCalls, AgentRunState, MaxOf
<1>5. WithinCalls(t)
  <2>1. n * DelegatedCalls(s) <= RemainingCalls(s)
    BY <1>1, SharesFit DEF DelegatedCalls
  <2>2. s.plan.model_call_limit \in Nat /\ ChargedCalls(s) <= s.plan.model_call_limit
    BY DEF AgentRunState, Plan, WithinCalls
  <2>3. RemainingCalls(s) = s.plan.model_call_limit - ChargedCalls(s)
    BY <1>1, <2>2 DEF RemainingCalls, Minus
  <2> HIDE DEF t, Good
  <2>4. QED
    BY <1>1, <1>2, <1>4, <2>1, <2>2, <2>3 DEF WithinCalls
<1>6. t.reserved_tokens = s.reserved_tokens + n * DelegatedTokens(s)
  BY DEF ReserveChildren, AgentRunState
<1>7. WithinTokens(t)
  <2> SUFFICES ASSUME s.plan.token_limit # Unset
               PROVE  t.reserved_tokens <= s.plan.token_limit
    BY <1>4 DEF WithinTokens
  <2>1. n * DelegatedTokens(s) <= RemainingTokens(s)
    BY <1>1, SharesFit DEF DelegatedTokens
  <2>2. QED
    BY <1>2, <1>6, <2>1 DEF WithinTokens, RemainingTokens, Minus, AgentRunState, Plan, Unset
<1>8. ASSUME RemainingCalls(s) > 0
      PROVE  RemainingCalls(t) > 0
  <2>1. n * DelegatedCalls(s) < RemainingCalls(s)
    <3> HIDE DEF t, Good
    <3>1. QED
      BY <1>1, <1>8, SharesLeaveRest DEF DelegatedCalls
  <2>2. s.plan.model_call_limit \in Nat
    BY DEF AgentRunState, Plan
  <2> HIDE DEF t, Good
  <2>3. QED
    BY <1>1, <1>2, <1>4, <1>8, <2>1, <2>2 DEF RemainingCalls, Minus
<1>9. ASSUME s.plan.token_limit # Unset, RemainingTokens(s) > 0
      PROVE  RemainingTokens(t) > 0
  <2>1. n * DelegatedTokens(s) < RemainingTokens(s)
    <3>1. DelegatedTokens(s) = RemainingTokens(s) \div Shares(s)
      BY <1>9 DEF DelegatedTokens
    <3> HIDE DEF t, Good
    <3>2. QED
      BY <1>1, <1>9, <3>1, SharesLeaveRest
  <2>2. s.plan.token_limit \in Nat /\ s.reserved_tokens \in Nat
    BY <1>0, <1>9 DEF Plan, Unset
  <2> HIDE DEF t, Good
  <2>3. QED
    BY <1>2, <1>4, <1>6, <1>9, <2>1, <2>2 DEF RemainingTokens, Minus
<1>10. QED
  BY <1>3, <1>5, <1>7, <1>8, <1>9 DEF LeavesShare

-----------------------------------------------------------------------------
(* Each commit keeps the state good. *)

LEMMA ProviderResponseGood ==
    ASSUME NEW s, Good(s), NEW effect, NEW calls \in Seq(Call), NEW text \in BOOLEAN,
           NEW attempts, Expected(s, effect) => Admitted(s, attempts)
    PROVE  Good(CommitProviderResponse(s, effect, calls, text, attempts))
BY ChargeGood, AcceptGood DEF CommitProviderResponse

LEMMA ProviderFailureGood ==
    ASSUME NEW s, Good(s), NEW effect,
           NEW attempts, Expected(s, effect) => Admitted(s, attempts)
    PROVE  Good(CommitProviderFailure(s, effect, attempts))
BY ChargeGood, QuietStepsGood DEF CommitProviderFailure

LEMMA BudgetExhaustedGood ==
    ASSUME NEW s, Good(s), NEW effect
    PROVE  Good(CommitBudgetExhausted(s, effect))
<1>1. Good([s EXCEPT !.status = "incomplete", !.usage.complete = FALSE])
  BY DEF Good, AgentRunState, RunUsage, Status, WithinCalls, WithinTokens, ChargedCalls
<1>2. QED
  BY <1>1 DEF CommitBudgetExhausted

\* Merging a child's usage keeps the ledger a ledger.
LEMMA MergeChildType ==
    ASSUME NEW usage \in RunUsage, NEW child \in RunUsage
    PROVE  MergeChild(usage, child) \in RunUsage
<1>1. (usage.complete /\ child.complete) \in BOOLEAN
  OBVIOUS
<1>2. usage.calls + child.calls \in Nat
  BY DEF RunUsage
<1>3. QED
  BY <1>1, <1>2 DEF MergeChild, RunUsage

\* A tool effect is expected only while its call is the first pending one.
LEMMA ToolNeedsCall ==
    ASSUME NEW s \in AgentRunState, NEW effect, Expected(s, effect),
           effect.kind \in {"tool", "tool-batch"}
    PROVE  s.pending_tools # << >>
BY DEF Expected, NextEffect, NoEffect, ProviderEffect

LEMMA ToolGood ==
    ASSUME NEW s, Good(s), NEW effect, NEW child \in RunUsage
    PROVE  /\ Good(CommitTool(s, effect, child))
           /\ LeavesShare(s, CommitTool(s, effect, child))
<1>0. s \in AgentRunState
  BY DEF Good
<1>1. CASE ~(effect.kind = "tool" /\ Expected(s, effect))
  BY <1>1 DEF CommitTool, LeavesShare
<1>2. CASE effect.kind = "tool" /\ Expected(s, effect)
  <2> DEFINE call == s.pending_tools[1]
             n == IF call.tool \in Delegating THEN 1 ELSE 0
             r == ReserveChildren(s, n)
  <2>1. s.pending_tools # << >>
    BY <1>0, <1>2, ToolNeedsCall
  <2>2. s.pending_tools \in Seq(Call) /\ s.history \in Seq(Message) /\ s.usage \in RunUsage
    BY <1>0 DEF AgentRunState
  <2>3. n < Shares(s)
    <3>1. CASE call.tool \in Delegating
      <4>1. 1 \in PendingDelegations(s)
        BY <2>1, <2>2, <3>1 DEF PendingDelegations
      <4>2. IsFiniteSet(PendingDelegations(s))
        BY <1>0, PendingFinite
      <4>3. Cardinality(PendingDelegations(s)) # 0
        BY <4>1, <4>2, FS_EmptySet
      <4>4. QED
        BY <1>0, <4>3, <3>1, SharesType DEF Shares
    <3>2. CASE call.tool \notin Delegating
      BY <1>0, <3>2, SharesType
    <3>3. QED
      BY <3>1, <3>2
  <2>4. Good(r) /\ LeavesShare(s, r)
    <3>1. n \in Nat
      OBVIOUS
    <3> HIDE DEF n
    <3>2. QED
      BY <2>3, <3>1, ReserveGood
  <2>5. /\ r.usage = s.usage /\ r.history = s.history /\ r.pending_tools = s.pending_tools
        /\ r.status = s.status /\ r.text = s.text
    BY <1>0 DEF ReserveChildren, AgentRunState
  <2>6. /\ MergeChild(s.usage, child) \in RunUsage
        /\ Append(s.history, ResultMessage(call)) \in Seq(Message)
        /\ Tail(s.pending_tools) \in Seq(Call)
        /\ s.status \in Status /\ s.text \in BOOLEAN
    <3>1. call \in Call
      BY <2>1, <2>2
    <3>2. ResultMessage(call) \in Message
      BY <3>1 DEF ResultMessage, Message
    <3>3. QED
      BY <1>0, <2>1, <2>2, <3>2, MergeChildType DEF AgentRunState
  <2>7. CommitTool(s, effect, child) =
          Bookkeep(r, MergeChild(s.usage, child), Append(s.history, ResultMessage(call)),
                   Tail(s.pending_tools), s.status, s.text)
    <3>1. CommitTool(s, effect, child) =
            [r EXCEPT !.usage = MergeChild(r.usage, child),
                      !.history = Append(r.history, ResultMessage(call)),
                      !.pending_tools = Tail(r.pending_tools)]
      BY <1>2 DEF CommitTool
    <3>2. r \in AgentRunState
      BY <2>4 DEF Good
    <3> HIDE DEF r, call
    <3>3. QED
      BY <2>5, <3>1, <3>2 DEF Bookkeep, AgentRunState
  <2> HIDE DEF r, call
  <2>8. QED
    BY <2>4, <2>6, <2>7, BookkeepingGood
<1>3. QED
  BY <1>1, <1>2

LEMMA BatchGood ==
    ASSUME NEW s, Good(s), NEW effect, NEW outputs, NEW child \in RunUsage
    PROVE  /\ Good(CommitBatch(s, effect, outputs, child))
           /\ LeavesShare(s, CommitBatch(s, effect, outputs, child))
<1>0. s \in AgentRunState
  BY DEF Good
<1>1. CASE ~(/\ effect.kind = "tool-batch"
             /\ Expected(s, effect)
             /\ outputs = Len(s.pending_tools))
  BY <1>1 DEF CommitBatch, LeavesShare
<1>2. CASE effect.kind = "tool-batch" /\ Expected(s, effect) /\ outputs = Len(s.pending_tools)
  <2> DEFINE n == Cardinality(PendingDelegations(s))
             r == ReserveChildren(s, n)
             results == [i \in 1..Len(s.pending_tools) |-> ResultMessage(s.pending_tools[i])]
  <2>1. n \in Nat /\ n < Shares(s)
    BY <1>0, SharesType DEF Shares
  <2>2. Good(r) /\ LeavesShare(s, r)
    <3> HIDE DEF n
    <3>1. QED
      BY <2>1, ReserveGood
  <2>3. /\ r.usage = s.usage /\ r.history = s.history /\ r.pending_tools = s.pending_tools
        /\ r.status = s.status /\ r.text = s.text
    BY <1>0 DEF ReserveChildren, AgentRunState
  <2>4. results \in Seq(Message)
    <3>1. s.pending_tools \in Seq(Call) /\ Len(s.pending_tools) \in Nat
      BY <1>0 DEF AgentRunState
    <3>2. ASSUME NEW i \in 1..Len(s.pending_tools)
          PROVE  ResultMessage(s.pending_tools[i]) \in Message
      BY <3>1 DEF ResultMessage, Message
    <3>3. QED
      BY <3>1, <3>2
  <2>5. /\ MergeChild(s.usage, child) \in RunUsage
        /\ s.history \o results \in Seq(Message)
        /\ << >> \in Seq(Call)
        /\ s.status \in Status /\ s.text \in BOOLEAN
    <3>1. s.usage \in RunUsage /\ s.history \in Seq(Message)
      BY <1>0 DEF AgentRunState
    <3> HIDE DEF results
    <3>2. s.history \o results \in Seq(Message)
      BY <2>4, <3>1
    <3>3. QED
      BY <1>0, <3>1, <3>2, MergeChildType DEF AgentRunState
  <2>6. CommitBatch(s, effect, outputs, child) =
          Bookkeep(r, MergeChild(s.usage, child), s.history \o results, << >>, s.status, s.text)
    <3>1. CommitBatch(s, effect, outputs, child) =
            [r EXCEPT !.usage = MergeChild(r.usage, child),
                      !.history = r.history \o results,
                      !.pending_tools = << >>]
      BY <1>2 DEF CommitBatch
    <3>2. r \in AgentRunState
      BY <2>2 DEF Good
    <3> HIDE DEF r, results
    <3>3. QED
      BY <2>3, <3>1, <3>2 DEF Bookkeep, AgentRunState
  <2> HIDE DEF r, results
  <2>7. QED
    BY <2>2, <2>5, <2>6, BookkeepingGood
<1>3. QED
  BY <1>1, <1>2

-----------------------------------------------------------------------------
(* The executor admits only attempts that fit the budgets. *)

\* What every attempt of an admitted provider effect reserves.
LEMMA AdmittedReservation ==
    ASSUME NEW s \in AgentRunState, NEW bound \in Nat \ {0}
    PROVE  Reservation(s, bound) \in Nat
<1>1. Len(s.history) \in Nat
  BY DEF AgentRunState
<1>2. NextModelTokenReservation(s) \in Nat
  BY <1>1, TokensAssumption DEF NextModelTokenReservation
<1>3. QED
  BY <1>2 DEF Reservation

\* The attempts within allowed_attempts fit what is left of both budgets.
LEMMA MayAttemptAdmitted ==
    ASSUME NEW s, Good(s), NEW bound \in Nat \ {0},
           NEW attempts \in Attempts, attempts.count > 0,
           attempts.reserved = Reservation(s, bound),
           MayAttempt(s, attempts.reserved, attempts.count)
    PROVE  Admitted(s, attempts)
<1>0. s \in AgentRunState
  BY DEF Good
<1>1. /\ RemainingCalls(s) \in Nat
      /\ s.plan.token_limit # Unset => RemainingTokens(s) \in Nat
  BY <1>0, RemainingType
<1>2. attempts.count \in Nat \ {0}
  BY DEF Attempts
<1>3. CallCount(attempts) = attempts.count
  BY <1>2 DEF CallCount, MaxOf
<1>4. CallCount(attempts) <= RemainingCalls(s)
  BY <1>3 DEF MayAttempt
<1>5. ASSUME s.plan.token_limit # Unset
      PROVE  ReservationFor(s, attempts) <= RemainingTokens(s)
  <2>1. attempts.reserved = bound
    BY <1>5 DEF Reservation
  <2>2. attempts.count <= RemainingTokens(s) \div MaxOf(bound, 1)
    BY <1>5, <2>1 DEF MayAttempt
  <2>3. attempts.count * bound <= RemainingTokens(s)
    BY <1>1, <1>2, <1>5, <2>2, AttemptsFit
  <2>4. ReservationFor(s, attempts) = attempts.count * bound
    BY <1>2, <2>1 DEF ReservationFor
  <2>5. QED
    BY <2>3, <2>4
<1>6. QED
  BY <1>4, <1>5 DEF Admitted


\* A bare response is charged as one call, which an expected effect has left.
LEMMA BareAdmitted ==
    ASSUME NEW s, Good(s), s.plan.token_limit = Unset,
           NEW effect, effect.kind = "provider", Expected(s, effect),
           NEW measured \in BOOLEAN
    PROVE  Admitted(s, [count |-> 0, reserved |-> 0, measured |-> measured])
<1> DEFINE attempts == [count |-> 0, reserved |-> 0, measured |-> measured]
<1>0. s \in AgentRunState
  BY DEF Good
<1>1. ChargedCalls(s) < s.plan.model_call_limit /\ ChargedCalls(s) \in Nat
  BY <1>0, ProviderNeedsBudget, RemainingType
<1>2. RemainingCalls(s) >= 1
  BY <1>0, <1>1 DEF RemainingCalls, Minus, AgentRunState, Plan
<1>3. attempts \in Attempts /\ CallCount(attempts) = 1
  BY DEF Attempts, CallCount, MaxOf
<1>4. QED
  BY <1>0, <1>2, <1>3, RemainingType DEF Admitted

-----------------------------------------------------------------------------
(* How a history grows. *)

\* The messages of a history and the calls they carry have their types.
LEMMA CallsType ==
    ASSUME NEW m \in Message
    PROVE  /\ CallsOf(m) \in Seq(Call)
           /\ m.role = "result" => CallsOf(m) = << >>
<1>1. m.role = "calls" => m.calls \in Seq(Call)
  BY DEF Message
<1>2. QED
  BY <1>1 DEF CallsOf

LEMMA CallsAtType ==
    ASSUME NEW h \in Seq(Message), NEW i \in 1..Len(h)
    PROVE  CallsOf(h[i]) \in Seq(Call) /\ Len(CallsOf(h[i])) \in Nat
<1>1. h[i] \in Message
  OBVIOUS
<1>2. CallsOf(h[i]) \in Seq(Call)
  BY <1>1, CallsType
<1>3. QED
  BY <1>2

\* At most one assistant message waits for answers beyond the end.
LEMMA OneOpen ==
    ASSUME NEW h \in Seq(Message), Correlated(h),
           NEW i \in 1..Len(h), NEW j \in 1..Len(h),
           i + Len(CallsOf(h[i])) > Len(h), j + Len(CallsOf(h[j])) > Len(h)
    PROVE  i = j
<1>1. ASSUME NEW a \in 1..Len(h), NEW b \in 1..Len(h), a < b,
             a + Len(CallsOf(h[a])) > Len(h), b + Len(CallsOf(h[b])) > Len(h)
      PROVE  FALSE
  <2>1. Len(CallsOf(h[a])) \in Nat
    BY CallsAtType
  <2>2. (b - a) \in 1..Len(CallsOf(h[a])) /\ a + (b - a) = b
    BY <1>1, <2>1
  <2>3. h[b] = ResultMessage(CallsOf(h[a])[b - a])
    BY <2>2 DEF Correlated, Answered
  <2>4. CallsOf(h[b]) = << >>
    BY <2>3 DEF CallsOf, ResultMessage
  <2>5. QED
    BY <1>1, <2>4
<1>2. QED
  BY <1>1

\* A message that is no result may follow when nothing is unresolved.
LEMMA HistoryTurns ==
    ASSUME NEW h \in Seq(Message), Correlated(h), Leaves(h, << >>),
           NEW m \in Message, m.role # "result", DistinctIds(CallsOf(m))
    PROVE  Correlated(Append(h, m)) /\ Leaves(Append(h, m), CallsOf(m))
<1> DEFINE g == Append(h, m)
<1>1. /\ g \in Seq(Message) /\ Len(g) = Len(h) + 1 /\ Len(h) \in Nat
      /\ \A i \in 1..Len(h) : g[i] = h[i]
      /\ g[Len(h) + 1] = m
  OBVIOUS
<1>2. CallsOf(m) \in Seq(Call) /\ Len(CallsOf(m)) \in Nat
  <2>1. CallsOf(m) \in Seq(Call)
    BY CallsType
  <2>2. QED
    BY <2>1
<1>3. \A i \in 1..Len(h) : /\ Len(CallsOf(h[i])) \in Nat
                           /\ i + Len(CallsOf(h[i])) <= Len(h)
  BY CallsAtType DEF Leaves
<1> HIDE DEF g
<1>4. ASSUME NEW i \in 1..Len(g)
      PROVE  /\ DistinctIds(CallsOf(g[i]))
             /\ Answered(g, i)
             /\ g[i].role = "result" => Answers(g, i)
  <2>1. CASE i = Len(h) + 1
    BY <1>1, <1>2, <2>1 DEF Answered
  <2>2. CASE i \in 1..Len(h)
    <3>1. g[i] = h[i]
      BY <1>1, <2>2
    <3>2. DistinctIds(CallsOf(h[i])) /\ Answered(h, i)
      BY <2>2 DEF Correlated
    <3>3. Answered(g, i)
      <4>1. SUFFICES ASSUME NEW n \in 1..Len(CallsOf(h[i]))
                     PROVE  g[i + n] = ResultMessage(CallsOf(h[i])[n])
        BY <3>1 DEF Answered
      <4>2. i + n \in 1..Len(h)
        <5>1. Len(CallsOf(h[i])) \in Nat /\ i + Len(CallsOf(h[i])) <= Len(h)
          BY <1>3, <2>2
        <5>2. QED
          BY <1>1, <2>2, <5>1
      <4>3. QED
        BY <1>1, <3>2, <4>2 DEF Answered
    <3>4. ASSUME g[i].role = "result"
          PROVE  Answers(g, i)
      <4>1. PICK k \in 1..(i - 1) : i - k <= Len(CallsOf(h[k]))
        BY <2>2, <3>1, <3>4 DEF Correlated, Answers
      <4>2. g[k] = h[k]
        BY <1>1, <2>2
      <4>3. QED
        BY <4>1, <4>2 DEF Answers
    <3>5. QED
      BY <3>1, <3>2, <3>3, <3>4
  <2>3. QED
    BY <1>1, <2>1, <2>2
<1>5. Leaves(g, CallsOf(m))
  <2>1. CASE CallsOf(m) = << >>
    <3>1. \A i \in 1..Len(g) : i + Len(CallsOf(g[i])) <= Len(g)
      <4>1. SUFFICES ASSUME NEW i \in 1..Len(g)
                     PROVE  i + Len(CallsOf(g[i])) <= Len(g)
        OBVIOUS
      <4>2. CASE i \in 1..Len(h)
        BY <1>1, <1>3, <4>2
      <4>3. CASE i = Len(h) + 1
        BY <1>1, <2>1, <4>3
      <4>4. QED
        BY <1>1, <4>2, <4>3
    <3>2. QED
      BY <2>1, <3>1 DEF Leaves
  <2>2. CASE CallsOf(m) # << >>
    <3>1. Len(g) \in 1..Len(g) /\ g[Len(g)] = m /\ Len(g) - Len(g) = 0
      BY <1>1
    <3>2. 0 < Len(CallsOf(m))
      BY <1>2, <2>2
    <3>3. CallsOf(m) = SubSeq(CallsOf(m), 1, Len(CallsOf(m)))
      BY <1>2
    <3>4. /\ Len(g) - Len(g) < Len(CallsOf(g[Len(g)]))
          /\ CallsOf(m) = SubSeq(CallsOf(g[Len(g)]), (Len(g) - Len(g)) + 1,
                                 Len(CallsOf(g[Len(g)])))
      BY <3>1, <3>2, <3>3
    <3>5. QED
      BY <2>2, <3>1, <3>4, Zenon DEF Leaves
  <2>3. QED
    BY <2>1, <2>2
<1>6. QED
  BY <1>4, <1>5 DEF Correlated, g

\* The next calls a history leaves unresolved are answered, one or all of them.
LEMMA HistoryAnswers ==
    ASSUME NEW h \in Seq(Message), Correlated(h),
           NEW pending \in Seq(Call), Leaves(h, pending), NEW n \in 1..Len(pending),
           NEW g \in Seq(Message), Len(g) = Len(h) + n,
           \A j \in 1..Len(h) : g[j] = h[j],
           \A k \in 1..n : g[Len(h) + k] = ResultMessage(pending[k])
    PROVE  Correlated(g) /\ Leaves(g, SubSeq(pending, n + 1, Len(pending)))
<1>0. Len(h) \in Nat /\ Len(g) \in Nat /\ Len(pending) \in Nat /\ n \in Nat /\ pending # << >>
  OBVIOUS
<1>1. PICK i \in 1..Len(h) :
        /\ Len(h) - i < Len(CallsOf(h[i]))
        /\ pending = SubSeq(CallsOf(h[i]), (Len(h) - i) + 1, Len(CallsOf(h[i])))
  BY <1>0 DEF Leaves
<1> DEFINE calls == CallsOf(h[i])
           answers == Len(h) - i
<1>2. calls \in Seq(Call) /\ Len(calls) \in Nat /\ answers \in Nat /\ answers < Len(calls)
  BY <1>0, <1>1, CallsAtType
<1>3. /\ Len(pending) = Len(calls) - answers
      /\ \A k \in 1..Len(pending) : pending[k] = calls[answers + k]
  BY <1>1, <1>2
<1>4. \A j \in 1..Len(h) : /\ Len(CallsOf(h[j])) \in Nat
                           /\ j + Len(CallsOf(h[j])) > Len(h) => j = i
  BY <1>0, <1>1, CallsAtType, OneOpen
<1>5. \A j \in 1..Len(g) : j \notin 1..Len(h) =>
        \E k \in 1..n : j = Len(h) + k /\ g[j] = ResultMessage(pending[k])
  <2>1. SUFFICES ASSUME NEW j \in 1..Len(g), j \notin 1..Len(h)
                 PROVE  \E k \in 1..n : j = Len(h) + k /\ g[j] = ResultMessage(pending[k])
    OBVIOUS
  <2>2. j - Len(h) \in 1..n /\ j = Len(h) + (j - Len(h))
    BY <1>0, <2>1
  <2>3. QED
    BY <2>2
<1> HIDE DEF calls, answers
<1>6. ASSUME NEW j \in 1..Len(g)
      PROVE  /\ DistinctIds(CallsOf(g[j]))
             /\ Answered(g, j)
             /\ g[j].role = "result" => Answers(g, j)
  <2>1. CASE j \in 1..Len(h)
    <3>1. g[j] = h[j]
      BY <2>1
    <3>2. DistinctIds(CallsOf(h[j])) /\ Answered(h, j)
      BY <2>1 DEF Correlated
    <3>3. Answered(g, j)
      <4>1. SUFFICES ASSUME NEW m \in 1..Len(CallsOf(h[j])), j + m <= Len(g)
                     PROVE  g[j + m] = ResultMessage(CallsOf(h[j])[m])
        BY <3>1 DEF Answered
      <4>2. CASE j + m <= Len(h)
        <5>1. j + m \in 1..Len(h)
          BY <1>0, <2>1, <4>1, <4>2
        <5>2. QED
          BY <3>2, <4>1, <4>2, <5>1 DEF Answered
      <4>3. CASE j + m > Len(h)
        <5>1. Len(CallsOf(h[j])) \in Nat
          BY <1>4, <2>1
        <5>2. j = i
          BY <1>0, <1>4, <2>1, <4>1, <4>3, <5>1
        <5>3. m - answers \in 1..n /\ j + m = Len(h) + (m - answers) /\ m = answers + (m - answers)
          BY <1>0, <1>2, <2>1, <4>1, <4>3, <5>1, <5>2 DEF answers
        <5>4. m - answers \in 1..Len(pending)
          BY <1>0, <5>3
        <5>5. pending[m - answers] = calls[m]
          BY <1>3, <5>3, <5>4
        <5>6. QED
          BY <5>2, <5>3, <5>5 DEF calls
      <4>4. QED
        BY <1>0, <2>1, <4>1, <4>2, <4>3
    <3>4. ASSUME g[j].role = "result"
          PROVE  Answers(g, j)
      <4>1. PICK k \in 1..(j - 1) : j - k <= Len(CallsOf(h[k]))
        BY <2>1, <3>1, <3>4 DEF Correlated, Answers
      <4>2. k \in 1..Len(h)
        BY <1>0, <2>1, <4>1
      <4>3. QED
        BY <4>1, <4>2 DEF Answers
    <3>5. QED
      BY <3>1, <3>2, <3>3, <3>4
  <2>2. CASE j \notin 1..Len(h)
    <3>1. PICK k \in 1..n : j = Len(h) + k /\ g[j] = ResultMessage(pending[k])
      BY <1>5, <2>2
    <3>2. CallsOf(g[j]) = << >>
      BY <3>1 DEF CallsOf, ResultMessage
    <3>3. i \in 1..(j - 1) /\ j - i <= Len(calls) /\ g[i] = h[i]
      BY <1>0, <1>2, <1>3, <3>1 DEF answers
    <3>4. Answers(g, j)
      BY <3>3 DEF Answers, calls
    <3>5. QED
      BY <3>2, <3>4 DEF DistinctIds, Answered
  <2>3. QED
    BY <2>1, <2>2
<1>7. Correlated(g)
  BY <1>6 DEF Correlated
<1> DEFINE rest == SubSeq(pending, n + 1, Len(pending))
<1>8. CASE n = Len(pending)
  <2>1. rest = << >>
    BY <1>0, <1>8
  <2>2. ASSUME NEW j \in 1..Len(g)
        PROVE  j + Len(CallsOf(g[j])) <= Len(g)
    <3>1. CASE j \in 1..Len(h)
      <4>1. g[j] = h[j] /\ Len(CallsOf(h[j])) \in Nat
        BY <1>4, <3>1
      <4>2. CASE j = i
        <5>1. Len(CallsOf(g[j])) = Len(calls)
          BY <4>1, <4>2 DEF calls
        <5>2. Len(calls) = n + (Len(h) - i)
          BY <1>0, <1>2, <1>3, <1>8 DEF answers
        <5>3. QED
          BY <1>0, <4>2, <5>1, <5>2
      <4>3. CASE j # i
        <5>1. ~(j + Len(CallsOf(h[j])) > Len(h))
          BY <1>4, <3>1, <4>3
        <5>2. QED
          BY <1>0, <3>1, <4>1, <5>1
      <4>4. QED
        BY <4>2, <4>3
    <3>2. CASE j \notin 1..Len(h)
      <4>1. PICK k \in 1..n : j = Len(h) + k /\ g[j] = ResultMessage(pending[k])
        BY <1>5, <3>2
      <4>2. CallsOf(g[j]) = << >>
        BY <4>1 DEF CallsOf, ResultMessage
      <4>3. QED
        BY <1>0, <2>2, <4>2
    <3>3. QED
      BY <3>1, <3>2
  <2>3. QED
    BY <1>7, <2>1, <2>2 DEF Leaves
<1>9. CASE n # Len(pending)
  <2>1. n < Len(pending) /\ rest \in Seq(Call) /\ Len(rest) = Len(pending) - n
        /\ \A k \in 1..Len(rest) : rest[k] = pending[n + k]
    BY <1>0, <1>9
  <2> HIDE DEF rest
  <2>2. rest # << >>
    <3>1. Len(rest) > 0
      BY <1>0, <2>1
    <3>2. QED
      BY <3>1
  <2>3. g[i] = h[i] /\ i \in 1..Len(g) /\ Len(g) - i = answers + n /\ answers + n < Len(calls)
    BY <1>0, <1>2, <1>3, <2>1 DEF answers
  <2>4. rest = SubSeq(calls, (answers + n) + 1, Len(calls))
    <3> DEFINE tail == SubSeq(calls, (answers + n) + 1, Len(calls))
    <3>0. (answers + n) + 1 \in 1..Len(calls)
      BY <1>0, <1>2, <2>3
    <3>1. /\ tail \in Seq(Call) /\ Len(tail) = Len(calls) - (answers + n)
          /\ \A k \in 1..Len(tail) : tail[k] = calls[(answers + n) + k]
      BY <1>2, <3>0
    <3> HIDE DEF tail
    <3>2. Len(tail) = Len(rest)
      BY <1>0, <1>2, <1>3, <2>1, <3>1
    <3>3. \A k \in 1..Len(rest) : rest[k] = tail[k]
      <4>1. SUFFICES ASSUME NEW k \in 1..Len(rest) PROVE rest[k] = tail[k]
        OBVIOUS
      <4>2. n + k \in 1..Len(pending) /\ k \in 1..Len(tail)
        BY <1>0, <1>9, <2>1, <3>2, <4>1
      <4>3. rest[k] = calls[answers + (n + k)] /\ tail[k] = calls[(answers + n) + k]
        BY <1>3, <2>1, <3>1, <4>2
      <4>4. answers + (n + k) = (answers + n) + k
        BY <1>0, <1>2, <2>1
      <4>5. QED
        BY <4>3, <4>4
    <3>4. rest = tail
      BY <2>1, <3>1, <3>2, <3>3, SeqEqual
    <3>5. QED
      BY <3>4 DEF tail
  <2>5. QED
    BY <1>7, <2>2, <2>3, <2>4 DEF Leaves, calls, rest
<1>10. QED
  BY <1>8, <1>9

-----------------------------------------------------------------------------
(* What every method does to the history. *)

\* A completed run has its answer and nothing left to resolve.
Resolved(s) ==
    s.status = "completed" =>
        /\ s.text
        /\ s.pending_tools = << >>
        /\ s.history # << >>
        /\ s.history[Len(s.history)] = TextMessage

Sound(s) == ValidateEffectStateHistory(s) /\ Resolved(s)

\* Only these four fields matter here.
LEMMA SoundFields ==
    ASSUME NEW s, NEW t, Sound(s),
           t.history = s.history, t.pending_tools = s.pending_tools,
           t.status = "completed" => s.status = "completed" /\ t.text = s.text
    PROVE  Sound(t)
BY DEF Sound, Resolved, ValidateEffectStateHistory

LEMMA NewStateSound ==
    ASSUME NEW plan \in Plan
    PROVE  Sound(NewState(plan, <<UserMessage>>))
<1> DEFINE s == NewState(plan, <<UserMessage>>)
<1>1. /\ Len(s.history) = 1 /\ s.history[1].role = "user"
      /\ s.pending_tools = << >> /\ s.status = "pending"
  BY DEF NewState, UserMessage
<1>2. CallsOf(s.history[1]) = << >>
  BY <1>1 DEF CallsOf
<1>3. Correlated(s.history) /\ Leaves(s.history, << >>)
  BY <1>1, <1>2 DEF Correlated, Leaves, DistinctIds, Answered
<1>4. QED
  BY <1>1, <1>3 DEF Sound, Resolved, ValidateEffectStateHistory

LEMMA QuietStepsSound ==
    ASSUME NEW s \in AgentRunState, Sound(s)
    PROVE  /\ Sound(Cancel(s))
           /\ Sound(Fail(s))
           /\ Sound(FinishIfExhausted(s))
           /\ \A ms \in Nat : Sound(RecordElapsed(s, ms))
<1>1. Sound(Cancel(s))
  BY SoundFields DEF Cancel, AgentRunState
<1>2. Sound(Fail(s))
  BY SoundFields DEF Fail, AgentRunState
<1>3. Sound(FinishIfExhausted(s))
  BY <1>1, SoundFields DEF FinishIfExhausted, AgentRunState
<1>4. \A ms \in Nat : Sound(RecordElapsed(s, ms))
  BY SoundFields DEF RecordElapsed, AgentRunState
<1>5. QED
  BY <1>1, <1>2, <1>3, <1>4

\* An effect is expected only of a live run, a provider call only when no tool
\* is pending.
LEMMA ExpectedLive ==
    ASSUME NEW s, NEW effect, Expected(s, effect)
    PROVE  /\ s.status \in Live
           /\ effect.kind = "provider" => s.pending_tools = << >>
BY DEF Expected, NextEffect, NoEffect, ToolEffect, BatchEffect

\* A response is one more turn of a history that has nothing unresolved.
LEMMA AcceptSound ==
    ASSUME NEW s \in AgentRunState, Sound(s), s.pending_tools = << >>, s.status \in Live,
           NEW calls \in Seq(Call), DistinctIds(calls), NEW text \in BOOLEAN
    PROVE  Sound(AcceptResponse(s, calls, text))
<1> DEFINE t == AcceptResponse(s, calls, text)
<1>1. s.history \in Seq(Message) /\ s.status # "completed"
  BY DEF AgentRunState, Live
<1>2. Correlated(s.history) /\ Leaves(s.history, << >>)
  BY DEF Sound, ValidateEffectStateHistory
<1>3. CASE calls # << >>
  <2>1. /\ CallsMessage(calls) \in Message
        /\ CallsMessage(calls).role # "result"
        /\ CallsOf(CallsMessage(calls)) = calls
    BY DEF CallsMessage, Message, CallsOf
  <2>2. /\ Correlated(Append(s.history, CallsMessage(calls)))
        /\ Leaves(Append(s.history, CallsMessage(calls)), calls)
    BY <1>1, <1>2, <2>1, HistoryTurns
  <2>3. /\ t.history = Append(s.history, CallsMessage(calls))
        /\ t.pending_tools = calls
        /\ t.status = "running"
    BY <1>3 DEF AcceptResponse, AgentRunState
  <2>4. QED
    BY <2>2, <2>3 DEF Sound, Resolved, ValidateEffectStateHistory
<1>4. CASE calls = << >> /\ text
  <2>1. /\ TextMessage \in Message
        /\ TextMessage.role # "result"
        /\ CallsOf(TextMessage) = << >>
    BY DEF TextMessage, Message, CallsOf
  <2>2. /\ Correlated(Append(s.history, TextMessage))
        /\ Leaves(Append(s.history, TextMessage), << >>)
    BY <1>1, <1>2, <1>4, <2>1, HistoryTurns
  <2>3. /\ t.history = Append(s.history, TextMessage)
        /\ t.pending_tools = << >>
        /\ t.text
    BY <1>4 DEF AcceptResponse, AgentRunState
  <2>4. t.history # << >> /\ t.history[Len(t.history)] = TextMessage
    BY <1>1, <2>1, <2>3
  <2>5. QED
    BY <2>2, <2>3, <2>4 DEF Sound, Resolved, ValidateEffectStateHistory
<1>5. CASE calls = << >> /\ ~text
  <2>1. /\ t.history = s.history
        /\ t.pending_tools = s.pending_tools
        /\ t.status = "incomplete"
    BY <1>5 DEF AcceptResponse, AgentRunState
  <2>2. QED
    BY <2>1, SoundFields
<1>6. QED
  BY <1>3, <1>4, <1>5

\* Accounting leaves the history alone.
LEMMA ChargeFields ==
    ASSUME NEW s \in AgentRunState, NEW attempts
    PROVE  LET t == ChargeProvider(s, attempts) IN
           /\ t.history = s.history /\ t.pending_tools = s.pending_tools
           /\ t.status = s.status /\ t.text = s.text
BY DEF ChargeProvider, AgentRunState

LEMMA ProviderOutcomesSound ==
    ASSUME NEW s, Good(s), Sound(s), NEW effect, NEW attempts,
           Expected(s, effect) => Admitted(s, attempts)
    PROVE  /\ \A calls \in Seq(Call), text \in BOOLEAN : DistinctIds(calls) =>
                Sound(CommitProviderResponse(s, effect, calls, text, attempts))
           /\ Sound(CommitProviderFailure(s, effect, attempts))
<1> DEFINE t == ChargeProvider(s, attempts)
<1>0. s \in AgentRunState
  BY DEF Good
<1>1. CASE effect.kind = "provider" /\ Expected(s, effect)
  <2>1. t \in AgentRunState
    BY <1>1, ChargeGood DEF Good
  <2>2. Sound(t) /\ t.pending_tools = << >> /\ t.status \in Live
    BY <1>0, <1>1, ChargeFields, ExpectedLive, SoundFields
  <2>3. Sound(Fail(t))
    BY <2>1, <2>2, QuietStepsSound
  <2>4. \A calls \in Seq(Call), text \in BOOLEAN : DistinctIds(calls) =>
          Sound(AcceptResponse(t, calls, text))
    BY <2>1, <2>2, AcceptSound
  <2>5. QED
    BY <1>1, <2>3, <2>4 DEF CommitProviderResponse, CommitProviderFailure
<1>2. CASE ~(effect.kind = "provider" /\ Expected(s, effect))
  BY <1>2 DEF CommitProviderResponse, CommitProviderFailure
<1>3. QED
  BY <1>1, <1>2

LEMMA BudgetExhaustedSound ==
    ASSUME NEW s \in AgentRunState, Sound(s), NEW effect
    PROVE  Sound(CommitBudgetExhausted(s, effect))
<1> DEFINE t == [s EXCEPT !.status = "incomplete", !.usage.complete = FALSE]
<1>1. /\ t.history = s.history /\ t.pending_tools = s.pending_tools
      /\ t.status = "incomplete"
  BY DEF AgentRunState
<1>2. Sound(t)
  BY <1>1, SoundFields
<1>3. QED
  BY <1>2 DEF CommitBudgetExhausted

\* From s to t the first n pending calls are answered, in provider order.
AnswersFirst(s, t, n) ==
    /\ t.history \in Seq(Message)
    /\ Len(t.history) = Len(s.history) + n
    /\ \A j \in 1..Len(s.history) : t.history[j] = s.history[j]
    /\ \A k \in 1..n : t.history[Len(s.history) + k] = ResultMessage(s.pending_tools[k])
    /\ t.pending_tools = SubSeq(s.pending_tools, n + 1, Len(s.pending_tools))
    /\ t.status = s.status
    /\ t.model_calls = s.model_calls

LEMMA ToolAnswers ==
    ASSUME NEW s \in AgentRunState, NEW effect, NEW child,
           effect.kind = "tool", Expected(s, effect)
    PROVE  /\ s.pending_tools # << >>
           /\ AnswersFirst(s, CommitTool(s, effect, child), 1)
<1> DEFINE t == CommitTool(s, effect, child)
           n == IF s.pending_tools[1].tool \in Delegating THEN 1 ELSE 0
           reserved == ReserveChildren(s, n)
           message == ResultMessage(s.pending_tools[1])
<1>1. s.history \in Seq(Message) /\ s.pending_tools \in Seq(Call) /\ s.pending_tools # << >>
  BY ToolNeedsCall DEF AgentRunState
<1>2. message \in Message
  <2>1. s.pending_tools[1] \in Call
    BY <1>1
  <2>2. QED
    BY <2>1 DEF ResultMessage, Message
<1>3. /\ t.history = Append(s.history, message)
      /\ t.pending_tools = Tail(s.pending_tools)
      /\ t.status = s.status
      /\ t.model_calls = s.model_calls
  <2>1. /\ DOMAIN reserved = DOMAIN s
        /\ reserved.history = s.history /\ reserved.pending_tools = s.pending_tools
        /\ reserved.status = s.status /\ reserved.model_calls = s.model_calls
        /\ {"usage", "history", "pending_tools", "status", "model_calls"} \subseteq DOMAIN s
    BY DEF ReserveChildren, AgentRunState
  <2> HIDE DEF reserved, message
  <2>2. t = [reserved EXCEPT !.usage = MergeChild(@, child),
                             !.history = Append(@, message),
                             !.pending_tools = Tail(@)]
    BY DEF CommitTool, reserved, message
  <2>3. QED
    BY <2>1, <2>2
<1>4. /\ t.history \in Seq(Message) /\ Len(t.history) = Len(s.history) + 1
      /\ \A j \in 1..Len(s.history) : t.history[j] = s.history[j]
      /\ t.history[Len(s.history) + 1] = message
  <2> HIDE DEF t, message
  <2>1. QED
    BY <1>1, <1>2, <1>3, AppendProperties
<1>5. \A k \in 1..1 : t.history[Len(s.history) + k] = ResultMessage(s.pending_tools[k])
  <2> HIDE DEF t
  <2>1. QED
    BY <1>4
<1>6. Tail(s.pending_tools) = SubSeq(s.pending_tools, 1 + 1, Len(s.pending_tools))
  BY <1>1, TailIsSubSeq
<1> HIDE DEF t
<1>7. AnswersFirst(s, t, 1)
  BY <1>3, <1>4, <1>5, <1>6 DEF AnswersFirst
<1>8. QED
  BY <1>1, <1>7 DEF t

\* A batch answers all pending calls in provider order.
LEMMA BatchAnswers ==
    ASSUME NEW s \in AgentRunState, NEW effect, NEW outputs, NEW child,
           effect.kind = "tool-batch", Expected(s, effect), outputs = Len(s.pending_tools)
    PROVE  /\ s.pending_tools # << >>
           /\ AnswersFirst(s, CommitBatch(s, effect, outputs, child), Len(s.pending_tools))
<1> DEFINE t == CommitBatch(s, effect, outputs, child)
           n == Len(s.pending_tools)
           reserved == ReserveChildren(s, Cardinality(PendingDelegations(s)))
           results == [i \in 1..n |-> ResultMessage(s.pending_tools[i])]
<1>1. s.history \in Seq(Message) /\ s.pending_tools \in Seq(Call) /\ s.pending_tools # << >>
  BY ToolNeedsCall DEF AgentRunState
<1>2. results \in Seq(Message) /\ Len(results) = n
      /\ \A k \in 1..n : results[k] = ResultMessage(s.pending_tools[k])
  <2>1. \A i \in 1..n : ResultMessage(s.pending_tools[i]) \in Message
    <3>1. \A i \in 1..n : s.pending_tools[i] \in Call
      BY <1>1
    <3>2. QED
      BY <3>1 DEF ResultMessage, Message
  <2>2. QED
    BY <1>1, <2>1
<1>3. /\ t.history = s.history \o results
      /\ t.pending_tools = << >>
      /\ t.status = s.status
      /\ t.model_calls = s.model_calls
  <2>1. /\ DOMAIN reserved = DOMAIN s
        /\ reserved.history = s.history /\ reserved.pending_tools = s.pending_tools
        /\ reserved.status = s.status /\ reserved.model_calls = s.model_calls
        /\ {"usage", "history", "pending_tools", "status", "model_calls"} \subseteq DOMAIN s
    BY DEF ReserveChildren, AgentRunState
  <2>2. t = [reserved EXCEPT !.usage = MergeChild(@, child),
                             !.history = @ \o results,
                             !.pending_tools = << >>]
    BY DEF CommitBatch
  <2> HIDE DEF t, reserved, results
  <2>3. QED
    BY <2>1, <2>2
<1>4. n \in Nat /\ Len(s.history) \in Nat
  BY <1>1
<1>5. SubSeq(s.pending_tools, n + 1, Len(s.pending_tools)) = << >>
  BY <1>1, SubSeqEmpty
<1> HIDE DEF t, results
<1>6. /\ s.history \o results \in Seq(Message)
      /\ Len(s.history \o results) = Len(s.history) + Len(results)
      /\ \A j \in 1..Len(s.history) : (s.history \o results)[j] = s.history[j]
      /\ \A k \in 1..Len(results) : (s.history \o results)[Len(s.history) + k] = results[k]
  <2>1. s.history \in Seq(Message) /\ results \in Seq(Message)
    BY <1>1, <1>2
  <2>2. QED
    BY <2>1
<1> HIDE DEF n
<1>7. AnswersFirst(s, t, n)
  <2>1. Len(results) = n /\ \A k \in 1..n : results[k] = ResultMessage(s.pending_tools[k])
    BY <1>2
  <2>2. \A k \in 1..n : t.history[Len(s.history) + k] = ResultMessage(s.pending_tools[k])
    BY <1>3, <1>6, <2>1
  <2>3. /\ t.history \in Seq(Message) /\ Len(t.history) = Len(s.history) + n
        /\ \A j \in 1..Len(s.history) : t.history[j] = s.history[j]
    BY <1>3, <1>6, <2>1
  <2>4. QED
    BY <1>3, <1>5, <2>2, <2>3 DEF AnswersFirst
<1>8. QED
  BY <1>1, <1>7 DEF t, n

LEMMA AnswersSound ==
    ASSUME NEW s \in AgentRunState, Sound(s), s.status \in Live,
           NEW n \in 1..Len(s.pending_tools), NEW t, AnswersFirst(s, t, n)
    PROVE  Sound(t)
<1>1. Correlated(s.history) /\ Leaves(s.history, s.pending_tools)
  BY DEF Sound, ValidateEffectStateHistory
<1>2. s.history \in Seq(Message) /\ s.pending_tools \in Seq(Call)
  BY DEF AgentRunState
<1>3. Correlated(t.history) /\ Leaves(t.history, t.pending_tools)
  BY <1>1, <1>2, HistoryAnswers DEF AnswersFirst
<1>4. t.status # "completed"
  BY DEF AnswersFirst, Live
<1>5. QED
  BY <1>3, <1>4 DEF Sound, Resolved, ValidateEffectStateHistory

LEMMA ToolSound ==
    ASSUME NEW s \in AgentRunState, Sound(s), NEW effect, NEW child
    PROVE  Sound(CommitTool(s, effect, child))
<1>1. CASE effect.kind = "tool" /\ Expected(s, effect)
  <2>1. s.pending_tools # << >> /\ AnswersFirst(s, CommitTool(s, effect, child), 1)
    BY <1>1, ToolAnswers
  <2>2. 1 \in 1..Len(s.pending_tools) /\ s.status \in Live
    <3>1. s.pending_tools \in Seq(Call)
      BY DEF AgentRunState
    <3>2. QED
      BY <1>1, <2>1, <3>1, ExpectedLive
  <2>3. QED
    BY <2>1, <2>2, AnswersSound
<1>2. CASE ~(effect.kind = "tool" /\ Expected(s, effect))
  BY <1>2 DEF CommitTool
<1>3. QED
  BY <1>1, <1>2

LEMMA BatchSound ==
    ASSUME NEW s \in AgentRunState, Sound(s), NEW effect, NEW outputs, NEW child
    PROVE  Sound(CommitBatch(s, effect, outputs, child))
<1>1. CASE effect.kind = "tool-batch" /\ Expected(s, effect) /\ outputs = Len(s.pending_tools)
  <2>1. /\ s.pending_tools # << >>
        /\ AnswersFirst(s, CommitBatch(s, effect, outputs, child), Len(s.pending_tools))
    BY <1>1, BatchAnswers
  <2>2. Len(s.pending_tools) \in 1..Len(s.pending_tools) /\ s.status \in Live
    <3>1. s.pending_tools \in Seq(Call)
      BY DEF AgentRunState
    <3>2. QED
      BY <1>1, <2>1, <3>1, ExpectedLive
  <2>3. QED
    BY <2>1, <2>2, AnswersSound
<1>2. CASE ~(effect.kind = "tool-batch" /\ Expected(s, effect) /\ outputs = Len(s.pending_tools))
  BY <1>2 DEF CommitBatch
<1>3. QED
  BY <1>1, <1>2

-----------------------------------------------------------------------------
(* What every method may do to a run, beyond what it is called for. *)

\* Time passes, or the run ends without an answer: its history and its calls
\* stay as they are, and it is exhausted only when no call is pending.
Holds(s, t) ==
    /\ t.history = s.history
    /\ t.pending_tools = s.pending_tools
    /\ t.model_calls = s.model_calls
    /\ \/ t.status = s.status
       \/ s.status \in Live /\ t.status \in {"failed", "cancelled"}
       \/ s.status \in Live /\ t.status = "incomplete" /\ s.pending_tools = << >>

\* A provider effect is over: its round is counted, or the run ended before it,
\* and at most one message that is no result entered the history.
Turns(s, t) ==
    /\ s.status \in Live
    /\ s.pending_tools = << >>
    /\ t.status \in Status \ {"pending"}
    /\ t.status # "running" => t.pending_tools = << >>
    /\ t.model_calls \in Nat
    /\ t.model_calls > s.model_calls \/ (t.model_calls = s.model_calls /\ t.status \in Terminal)
    /\ \/ t.history = s.history
       \/ \E m \in Message : m.role # "result" /\ t.history = Append(s.history, m)

LEMMA QuietStepsHold ==
    ASSUME NEW s \in AgentRunState
    PROVE  /\ Holds(s, s)
           /\ Holds(s, Cancel(s))
           /\ Holds(s, Fail(s))
           /\ Holds(s, FinishIfExhausted(s))
           /\ \A ms : Holds(s, RecordElapsed(s, ms))
<1>1. Holds(s, s)
  BY DEF Holds
<1>2. Holds(s, Cancel(s))
  BY DEF Holds, Cancel, AgentRunState, Live
<1>3. Holds(s, Fail(s))
  BY DEF Holds, Fail, AgentRunState, Live
<1>4. Holds(s, FinishIfExhausted(s))
  BY <1>1, <1>2
  DEF Holds, FinishIfExhausted, Exhausted, AgentRunState
<1>5. \A ms : Holds(s, RecordElapsed(s, ms))
  BY DEF Holds, RecordElapsed, AgentRunState
<1>6. QED
  BY <1>1, <1>2, <1>3, <1>4, <1>5

LEMMA ResponseTurns ==
    ASSUME NEW s, Good(s), NEW effect, effect.kind = "provider", Expected(s, effect),
           NEW attempts, NEW calls \in Seq(Call), NEW text \in BOOLEAN
    PROVE  Turns(s, CommitProviderResponse(s, effect, calls, text, attempts))
<1> DEFINE c == ChargeProvider(s, attempts)
           t == AcceptResponse(c, calls, text)
<1>1. s.status \in Live /\ s.pending_tools = << >>
  BY ExpectedLive
<1>2. /\ DOMAIN c = DOMAIN s
      /\ c.history = s.history /\ c.model_calls = s.model_calls + 1
      /\ c.pending_tools = s.pending_tools
      /\ {"history", "model_calls", "status", "text", "pending_tools", "usage"} \subseteq DOMAIN s
      /\ s.model_calls \in Nat
  BY DEF Good, ChargeProvider, AgentRunState
<1>3. CallsMessage(calls) \in Message /\ CallsMessage(calls).role # "result"
  BY DEF CallsMessage, Message
<1>4. TextMessage \in Message /\ TextMessage.role # "result"
  BY DEF TextMessage, Message
<1> HIDE DEF c
<1>5. /\ t.model_calls = c.model_calls
      /\ t.status \in {"running", "completed", "incomplete"}
      /\ t.status # "running" => t.pending_tools = c.pending_tools
      /\ \/ t.history = c.history
         \/ t.history = Append(c.history, CallsMessage(calls))
         \/ t.history = Append(c.history, TextMessage)
  BY <1>2 DEF AcceptResponse
<1>6. CommitProviderResponse(s, effect, calls, text, attempts) = t
  BY DEF CommitProviderResponse, c
<1> HIDE DEF t
<1>7. Turns(s, t)
  BY <1>1, <1>2, <1>3, <1>4, <1>5 DEF Turns, Status
<1>8. QED
  BY <1>6, <1>7

LEMMA ProviderEndsTurn ==
    ASSUME NEW s, Good(s), NEW effect, effect.kind = "provider", Expected(s, effect),
           NEW attempts
    PROVE  /\ Turns(s, CommitProviderFailure(s, effect, attempts))
           /\ Turns(s, CommitBudgetExhausted(s, effect))
<1> DEFINE c == ChargeProvider(s, attempts)
<1>1. s.status \in Live /\ s.pending_tools = << >>
  BY ExpectedLive
<1>2. /\ DOMAIN c = DOMAIN s
      /\ c.history = s.history /\ c.model_calls = s.model_calls + 1 /\ c.status = s.status
      /\ c.pending_tools = s.pending_tools
      /\ {"history", "model_calls", "status", "error", "usage", "pending_tools"} \subseteq DOMAIN s
      /\ s.model_calls \in Nat
  BY DEF Good, ChargeProvider, AgentRunState
<1>3. CommitProviderFailure(s, effect, attempts) = Fail(c)
  BY DEF CommitProviderFailure
<1>4. CommitBudgetExhausted(s, effect) = [s EXCEPT !.status = "incomplete", !.usage.complete = FALSE]
  BY DEF CommitBudgetExhausted
<1> HIDE DEF c
<1>5. /\ Fail(c).history = s.history /\ Fail(c).model_calls = s.model_calls + 1
      /\ Fail(c).status = "failed" /\ Fail(c).pending_tools = s.pending_tools
  BY <1>1, <1>2 DEF Fail
<1>6. Turns(s, Fail(c))
  BY <1>1, <1>2, <1>5 DEF Turns, Status
<1>7. Turns(s, [s EXCEPT !.status = "incomplete", !.usage.complete = FALSE])
  BY <1>1, <1>2 DEF Turns, Status, Terminal, Live
<1>8. QED
  BY <1>3, <1>4, <1>6, <1>7

\* A history grows: what it held it still holds.
Grows(h, g) ==
    /\ h \in Seq(Message) /\ g \in Seq(Message)
    /\ Len(h) <= Len(g)
    /\ \A j \in 1..Len(h) : g[j] = h[j]

LEMMA HistoryGrows ==
    ASSUME NEW s \in AgentRunState, NEW t,
           \/ Holds(s, t)
           \/ Turns(s, t)
           \/ \E n \in 1..Len(s.pending_tools) : AnswersFirst(s, t, n)
    PROVE  Grows(s.history, t.history)
<1>0. s.history \in Seq(Message) /\ Len(s.history) \in Nat
  BY DEF AgentRunState
<1>1. CASE t.history = s.history
  BY <1>0, <1>1 DEF Grows
<1>2. ASSUME NEW m \in Message, t.history = Append(s.history, m)
      PROVE  Grows(s.history, t.history)
  BY <1>0, <1>2, AppendProperties DEF Grows
<1>3. ASSUME NEW n \in 1..Len(s.pending_tools), AnswersFirst(s, t, n)
      PROVE  Grows(s.history, t.history)
  <2>1. n \in Nat
    OBVIOUS
  <2>2. QED
    BY <1>0, <1>3, <2>1 DEF Grows, AnswersFirst
<1>4. QED
  BY <1>1, <1>2, <1>3 DEF Holds, Turns

LEMMA PrefixOfGrown ==
    ASSUME NEW h, NEW g, Grows(h, g)
    PROVE  IsPrefix(h, g)
<1>1. /\ h \in Seq(Message) /\ g \in Seq(Message) /\ Len(h) \in Nat /\ Len(g) \in Nat
      /\ Len(h) <= Len(g)
      /\ \A j \in 1..Len(h) : g[j] = h[j]
  BY DEF Grows
<1>2. SubSeq(h, 1, Len(h)) = SubSeq(g, 1, Len(h))
  BY <1>1
<1>3. QED
  BY <1>1, <1>2 DEF IsPrefix

\* No method touches the plan.
LEMMA PlanIsKept ==
    ASSUME NEW s \in AgentRunState
    PROVE  /\ Cancel(s).plan = s.plan
           /\ FinishIfExhausted(s).plan = s.plan
           /\ \A ms : RecordElapsed(s, ms).plan = s.plan
           /\ \A effect, calls, text, attempts :
                 CommitProviderResponse(s, effect, calls, text, attempts).plan = s.plan
           /\ \A effect, attempts : CommitProviderFailure(s, effect, attempts).plan = s.plan
           /\ \A effect : CommitBudgetExhausted(s, effect).plan = s.plan
           /\ \A effect, child : CommitTool(s, effect, child).plan = s.plan
           /\ \A effect, n, child : CommitBatch(s, effect, n, child).plan = s.plan
<1>1. Cancel(s).plan = s.plan /\ Fail(s).plan = s.plan
  BY DEF Cancel, Fail, AgentRunState
<1>2. FinishIfExhausted(s).plan = s.plan
  BY <1>1 DEF FinishIfExhausted, AgentRunState
<1>3. \A ms : RecordElapsed(s, ms).plan = s.plan
  BY DEF RecordElapsed, AgentRunState
<1>4. ASSUME NEW attempts
      PROVE  /\ ChargeProvider(s, attempts).plan = s.plan
             /\ DOMAIN ChargeProvider(s, attempts) = DOMAIN s
  BY DEF ChargeProvider, AgentRunState
<1>5. ASSUME NEW c, DOMAIN c = DOMAIN s, NEW calls, NEW text
      PROVE  AcceptResponse(c, calls, text).plan = c.plan /\ Fail(c).plan = c.plan
  BY <1>5 DEF AcceptResponse, Fail, AgentRunState
<1>6. ASSUME NEW effect, NEW calls, NEW text, NEW attempts
      PROVE  /\ CommitProviderResponse(s, effect, calls, text, attempts).plan = s.plan
             /\ CommitProviderFailure(s, effect, attempts).plan = s.plan
  BY <1>4, <1>5 DEF CommitProviderResponse, CommitProviderFailure
<1>7. \A effect : CommitBudgetExhausted(s, effect).plan = s.plan
  BY DEF CommitBudgetExhausted, AgentRunState
<1>8. ASSUME NEW n
      PROVE  ReserveChildren(s, n).plan = s.plan /\ DOMAIN ReserveChildren(s, n) = DOMAIN s
  BY DEF ReserveChildren, AgentRunState
<1>9. "plan" \in DOMAIN s
  BY DEF AgentRunState
<1>10. ASSUME NEW r, DOMAIN r = DOMAIN s, NEW usage, NEW history, NEW pending
       PROVE  [r EXCEPT !.usage = usage, !.history = history, !.pending_tools = pending].plan = r.plan
  BY <1>9, <1>10
<1>11. ASSUME NEW effect, NEW child
       PROVE  CommitTool(s, effect, child).plan = s.plan
  BY <1>8, <1>10 DEF CommitTool
<1>12. ASSUME NEW effect, NEW n, NEW child
       PROVE  CommitBatch(s, effect, n, child).plan = s.plan
  BY <1>8, <1>10 DEF CommitBatch
<1>13. QED
  BY <1>1, <1>2, <1>3, <1>6, <1>7, <1>11, <1>12

LEMMA GrowsOn ==
    ASSUME NEW f, NEW g, NEW h, Grows(f, g), Grows(g, h)
    PROVE  Grows(f, h)
<1>1. /\ Len(f) \in Nat /\ Len(g) \in Nat /\ Len(h) \in Nat
      /\ Len(f) <= Len(g) /\ Len(g) <= Len(h)
      /\ \A j \in 1..Len(f) : g[j] = f[j]
      /\ \A j \in 1..Len(g) : h[j] = g[j]
  BY DEF Grows
<1>2. \A j \in 1..Len(f) : h[j] = f[j]
  BY <1>1
<1>3. QED
  BY <1>1, <1>2 DEF Grows

\* A prompt that is not refused leaves nothing unresolved: were an earlier call
\* still open, the prompt would stand where its result belongs.
LEMMA PromptResolves ==
    ASSUME NEW h \in Seq(Message), Correlated(Append(h, UserMessage))
    PROVE  Leaves(Append(h, UserMessage), << >>)
<1> DEFINE g == Append(h, UserMessage)
           last == Len(h) + 1
<1>1. /\ g \in Seq(Message) /\ Len(g) = last /\ g[last] = UserMessage /\ Len(h) \in Nat
  BY DEF UserMessage, Message
<1> HIDE DEF g
<1>2. Correlated(g)
  BY DEF g
<1>3. ASSUME NEW i \in 1..Len(g)
      PROVE  i + Len(CallsOf(g[i])) <= Len(g)
  <2>1. CallsOf(g[i]) \in Seq(Call) /\ Len(CallsOf(g[i])) \in Nat
    BY <1>1, <1>3, CallsAtType
  <2>2. CASE i = last
    <3>1. CallsOf(g[i]) = << >>
      BY <1>1, <2>2 DEF CallsOf, UserMessage
    <3>2. QED
      BY <1>1, <3>1
  <2>3. CASE i < last
    <3>1. SUFFICES ASSUME i + Len(CallsOf(g[i])) > last PROVE FALSE
      BY <1>1, <2>1
    <3> DEFINE n == last - i
    <3>2. n \in 1..Len(CallsOf(g[i])) /\ i + n = last
      BY <1>1, <2>1, <2>3, <3>1
    <3>3. Answered(g, i)
      BY <1>2, <1>3 DEF Correlated
    <3>4. g[i + n] = ResultMessage(CallsOf(g[i])[n])
      BY <1>1, <3>2, <3>3 DEF Answered
    <3>5. QED
      BY <1>1, <3>2, <3>4 DEF ResultMessage, UserMessage
  <2>4. QED
    BY <1>1, <1>3, <2>2, <2>3
<1>4. QED
  BY <1>3 DEF Leaves, g

\* A run that has not begun, and one that ended without being stopped, has no
\* call pending.
NoCallLeft(s) == s.status \in {"pending", "completed", "incomplete"} => s.pending_tools = << >>

LEMMA StaysIdle ==
    ASSUME NEW s, NoCallLeft(s), NEW t,
           \/ Holds(s, t)
           \/ Turns(s, t)
           \/ /\ s.status \in Live
              /\ s.pending_tools # << >>
              /\ \E n \in 1..Len(s.pending_tools) : AnswersFirst(s, t, n)
    PROVE  NoCallLeft(t)
<1>1. CASE Holds(s, t)
  BY <1>1 DEF Holds, NoCallLeft
<1>2. CASE Turns(s, t)
  BY <1>2 DEF Turns, NoCallLeft
<1>3. CASE /\ s.pending_tools # << >>
           /\ s.status \in Live
           /\ \E n \in 1..Len(s.pending_tools) : AnswersFirst(s, t, n)
  BY <1>3 DEF AnswersFirst, NoCallLeft, Live
<1>4. QED
  BY <1>1, <1>2, <1>3

-----------------------------------------------------------------------------
(* What an outcome adds to the calls charged and to the ledger. *)

LEMMA ChargeCounts ==
    ASSUME NEW s \in AgentRunState, NEW attempts \in Attempts
    PROVE  LET t == ChargeProvider(s, attempts) IN
           /\ ChargedCalls(t) = ChargedCalls(s) + CallCount(attempts)
           /\ t.usage.calls = s.usage.calls + CallCount(attempts)
           /\ t.usage.complete => s.usage.complete
<1>1. CallCount(attempts) \in Nat \ {0}
  BY ReservationType
<1>2. ChargedCalls(ChargeProvider(s, attempts)) = ChargedCalls(s) + CallCount(attempts)
  BY <1>1 DEF ChargeProvider, ChargedCalls, AgentRunState, MaxOf
<1>3. ChargeProvider(s, attempts).usage =
        [calls |-> s.usage.calls + CallCount(attempts),
         complete |-> s.usage.complete /\ attempts.measured]
  BY DEF ChargeProvider, AgentRunState
<1> DEFINE u == ChargeProvider(s, attempts).usage
<1>4. u.calls = s.usage.calls + CallCount(attempts) /\ (u.complete => s.usage.complete)
  <2>1. u = [calls |-> s.usage.calls + CallCount(attempts),
             complete |-> s.usage.complete /\ attempts.measured]
    BY <1>3
  <2> HIDE DEF u
  <2>2. u.calls = s.usage.calls + CallCount(attempts)
    BY <2>1
  <2>3. u.complete = (s.usage.complete /\ attempts.measured)
    BY <2>1, Zenon
  <2>4. QED
    BY <2>2, <2>3
<1>5. QED
  BY <1>2, <1>4

LEMMA ProviderCharges ==
    ASSUME NEW s \in AgentRunState, NEW attempts \in Attempts,
           NEW effect, effect.kind = "provider", Expected(s, effect),
           NEW t, \/ \E calls, text : t = CommitProviderResponse(s, effect, calls, text, attempts)
                  \/ t = CommitProviderFailure(s, effect, attempts)
    PROVE  /\ ChargedCalls(t) = ChargedCalls(s) + CallCount(attempts)
           /\ t.usage.calls = s.usage.calls + CallCount(attempts)
           /\ t.usage.complete => s.usage.complete
<1> DEFINE c == ChargeProvider(s, attempts)
<1>1. /\ ChargedCalls(c) = ChargedCalls(s) + CallCount(attempts)
      /\ c.usage.calls = s.usage.calls + CallCount(attempts)
      /\ c.usage.complete => s.usage.complete
  BY ChargeCounts
<1>2. /\ {"history", "status", "text", "error", "pending_tools", "usage"} \subseteq DOMAIN c
      /\ {"calls", "complete"} \subseteq DOMAIN c.usage
  <2>1. {"history", "status", "text", "error", "pending_tools", "usage"} \subseteq DOMAIN c
    BY DEF ChargeProvider, AgentRunState
  <2>2. c.usage = [calls |-> s.usage.calls + CallCount(attempts),
                   complete |-> s.usage.complete /\ attempts.measured]
    BY DEF ChargeProvider, AgentRunState
  <2> HIDE DEF c
  <2>3. QED
    BY <2>1, <2>2
<1>3. ASSUME NEW u,
             /\ u.provider_calls_started = c.provider_calls_started
             /\ u.model_calls = c.model_calls
             /\ u.reserved_child_model_calls = c.reserved_child_model_calls,
             u.usage.calls = c.usage.calls,
             u.usage.complete => c.usage.complete
      PROVE  /\ ChargedCalls(u) = ChargedCalls(s) + CallCount(attempts)
             /\ u.usage.calls = s.usage.calls + CallCount(attempts)
             /\ u.usage.complete => s.usage.complete
  <2> HIDE DEF c
  <2>1. ChargedCalls(u) = ChargedCalls(c)
    BY <1>3 DEF ChargedCalls
  <2>2. QED
    BY <1>1, <1>3, <2>1
<1> HIDE DEF c
<1>4. ASSUME NEW calls, NEW text, t = CommitProviderResponse(s, effect, calls, text, attempts)
      PROVE  /\ t.provider_calls_started = c.provider_calls_started
             /\ t.model_calls = c.model_calls
             /\ t.reserved_child_model_calls = c.reserved_child_model_calls
             /\ t.usage.calls = c.usage.calls
             /\ t.usage.complete => c.usage.complete
  <2>1. t = AcceptResponse(c, calls, text)
    BY <1>4 DEF CommitProviderResponse, c
  <2>2. QED
    BY <1>2, <2>1 DEF AcceptResponse
<1>5. CASE t = CommitProviderFailure(s, effect, attempts)
  <2>1. t = Fail(c)
    BY <1>5 DEF CommitProviderFailure, c
  <2>2. /\ t.provider_calls_started = c.provider_calls_started
        /\ t.model_calls = c.model_calls
        /\ t.reserved_child_model_calls = c.reserved_child_model_calls
        /\ t.usage = c.usage
    BY <1>2, <2>1 DEF Fail
  <2>3. QED
    BY <1>3, <2>2
<1>6. QED
  BY <1>3, <1>4, <1>5

LEMMA ReserveCounts ==
    ASSUME NEW s \in AgentRunState, NEW n \in Nat
    PROVE  ChargedCalls(ReserveChildren(s, n)) = ChargedCalls(s) + n * DelegatedCalls(s)
<1> DEFINE more == n * DelegatedCalls(s)
<1>1. more \in Nat
  BY RemainingType
<1>2. /\ ReserveChildren(s, n).reserved_child_model_calls = s.reserved_child_model_calls + more
      /\ ReserveChildren(s, n).provider_calls_started = s.provider_calls_started
      /\ ReserveChildren(s, n).model_calls = s.model_calls
  BY DEF ReserveChildren, AgentRunState
<1>3. /\ s.reserved_child_model_calls \in Nat
      /\ MaxOf(s.provider_calls_started, s.model_calls) \in Nat
  BY DEF AgentRunState, MaxOf
<1> HIDE DEF more
<1>4. ChargedCalls(ReserveChildren(s, n)) = ChargedCalls(s) + more
  BY <1>1, <1>2, <1>3 DEF ChargedCalls
<1>5. QED
  BY <1>4 DEF more

LEMMA ToolCharges ==
    ASSUME NEW s \in AgentRunState, NEW effect, NEW child,
           effect.kind = "tool", Expected(s, effect)
    PROVE  LET t == CommitTool(s, effect, child)
               n == IF s.pending_tools[1].tool \in Delegating THEN 1 ELSE 0
           IN  /\ ChargedCalls(t) = ChargedCalls(s) + n * DelegatedCalls(s)
               /\ t.usage = MergeChild(s.usage, child)
<1> DEFINE n == IF s.pending_tools[1].tool \in Delegating THEN 1 ELSE 0
           r == ReserveChildren(s, n)
           t == CommitTool(s, effect, child)
<1>1. n \in Nat
  OBVIOUS
<1>2. t = [r EXCEPT !.usage = MergeChild(r.usage, child),
                    !.history = Append(r.history, ResultMessage(s.pending_tools[1])),
                    !.pending_tools = Tail(r.pending_tools)]
  BY DEF CommitTool
<1>3. /\ r.usage = s.usage
      /\ {"history", "pending_tools", "usage"} \subseteq DOMAIN r
  BY DEF ReserveChildren, AgentRunState
<1> HIDE DEF n
<1>4. ChargedCalls(r) = ChargedCalls(s) + n * DelegatedCalls(s)
  BY <1>1, ReserveCounts
<1> HIDE DEF r, t
<1>5. /\ t.provider_calls_started = r.provider_calls_started
      /\ t.model_calls = r.model_calls
      /\ t.reserved_child_model_calls = r.reserved_child_model_calls
      /\ t.usage = MergeChild(s.usage, child)
  BY <1>2, <1>3
<1>6. ChargedCalls(t) = ChargedCalls(r)
  BY <1>5 DEF ChargedCalls
<1>7. QED
  BY <1>4, <1>5, <1>6 DEF t, n

LEMMA BatchCharges ==
    ASSUME NEW s \in AgentRunState, NEW effect, NEW outputs, NEW child,
           effect.kind = "tool-batch", Expected(s, effect), outputs = Len(s.pending_tools)
    PROVE  LET t == CommitBatch(s, effect, outputs, child)
               n == Cardinality(PendingDelegations(s))
           IN  /\ ChargedCalls(t) = ChargedCalls(s) + n * DelegatedCalls(s)
               /\ t.usage = MergeChild(s.usage, child)
<1> DEFINE n == Cardinality(PendingDelegations(s))
           r == ReserveChildren(s, n)
           t == CommitBatch(s, effect, outputs, child)
<1>1. n \in Nat
  BY SharesType
<1>2. t = [r EXCEPT !.usage = MergeChild(r.usage, child),
                    !.history = r.history \o [i \in 1..Len(s.pending_tools) |->
                                                ResultMessage(s.pending_tools[i])],
                    !.pending_tools = << >>]
  BY DEF CommitBatch
<1>3. /\ r.usage = s.usage
      /\ {"history", "pending_tools", "usage"} \subseteq DOMAIN r
  BY DEF ReserveChildren, AgentRunState
<1> HIDE DEF n
<1>4. ChargedCalls(r) = ChargedCalls(s) + n * DelegatedCalls(s)
  BY <1>1, ReserveCounts
<1> HIDE DEF r, t
<1>5. /\ t.provider_calls_started = r.provider_calls_started
      /\ t.model_calls = r.model_calls
      /\ t.reserved_child_model_calls = r.reserved_child_model_calls
      /\ t.usage = MergeChild(s.usage, child)
  BY <1>2, <1>3
<1>6. ChargedCalls(t) = ChargedCalls(r)
  BY <1>5 DEF ChargedCalls
<1>7. QED
  BY <1>4, <1>5, <1>6 DEF t, n

-----------------------------------------------------------------------------
(* Induction.  The library states its induction theorems for a property as *)
(* an operator; here the property is a set, which is all that the provers  *)
(* need to take it as an instance.                                         *)

\* A proper subset is below in the library's ordering of subsets.
LEMMA BelowBySubset ==
    ASSUME NEW S, NEW less \in SUBSET S, NEW m \in SUBSET S, less \subseteq m, less # m
    PROVE  <<less, m>> \in StrictSubsetOrdering(S)
<1> DEFINE p == <<less, m>>
<1>1. p \in (SUBSET S) \X (SUBSET S) /\ p[1] = less /\ p[2] = m
  OBVIOUS
<1> HIDE DEF p
<1>2. p \in StrictSubsetOrdering(S)
  BY <1>1 DEF StrictSubsetOrdering
<1>3. QED
  BY <1>2 DEF p

\* Induction over a finite set: a family that holds the empty set and is closed
\* under adding an element holds the whole set.
LEMMA FiniteSetInduction ==
    ASSUME NEW S, IsFiniteSet(S),
           NEW F \in SUBSET (SUBSET S),
           {} \in F,
           \A T \in F : \A x \in S \ T : T \cup {x} \in F
    PROVE  S \in F
<1> DEFINE Rest == (SUBSET S) \ F
<1>1. SUFFICES ASSUME S \notin F PROVE FALSE
  OBVIOUS
<1>2. Rest \subseteq FiniteSubsetsOf(S) /\ Rest # {}
  BY <1>1, FS_FiniteSubsetsOfFinite
<1>3. PICK m \in Rest : \A y \in Rest : <<y, m>> \notin StrictSubsetOrdering(S)
  BY <1>2, FS_StrictSubsetOrderingWellFounded, WFMin
<1>4. PICK x \in m : TRUE
  BY <1>3
<1> DEFINE less == m \ {x}
<1>5. less \in SUBSET S /\ m \in SUBSET S /\ less \subseteq m /\ less # m /\ x \in S \ less
      /\ m = less \cup {x}
  BY <1>3, <1>4
<1> HIDE DEF less
<1>6. <<less, m>> \in StrictSubsetOrdering(S)
  BY <1>5, BelowBySubset
<1>7. less \in F
  BY <1>3, <1>5, <1>6
<1>8. QED
  BY <1>3, <1>5, <1>7

\* Induction over the natural numbers, for a property given as a set.
LEMMA NatSetInduction ==
    ASSUME NEW F \in SUBSET Nat, 0 \in F, \A n \in F : n + 1 \in F
    PROVE  F = Nat
<1> DEFINE Less == {p \in Nat \X Nat : p[1] < p[2]}
           Rest == Nat \ F
<1>1. SUFFICES ASSUME Rest # {} PROVE FALSE
  OBVIOUS
<1>2. IsWellFoundedOn(Less, Nat)
  BY NatLessThanWellFounded DEF OpToRel
<1>3. PICK m \in Rest : \A y \in Rest : <<y, m>> \notin Less
  <2> HIDE DEF Less
  <2>1. QED
    BY <1>1, <1>2, WFMin
<1>4. m \in Nat /\ m # 0
  BY <1>3
<1>5. <<m - 1, m>> \in Less
  BY <1>4
<1>6. m - 1 \in F
  BY <1>3, <1>4, <1>5
<1>7. QED
  BY <1>3, <1>4, <1>6

-----------------------------------------------------------------------------
(* Sums.  The community modules sum a function over a finite set with a    *)
(* recursive function on its subsets, which takes off an arbitrary element *)
(* at a time.  A sum of naturals is the number of their units, whatever    *)
(* the order, so what it needs is in the theorems about cardinality.       *)

\* The units of the values of fun on S: fun[x] of them for each x.
Units(fun, S) == {p \in S \X Nat : p[2] < fun[p[1]]}

\* The recursive function behind SumFunctionOnSet.
SumIter(fun, S) ==
    CHOOSE g : g = [s \in SUBSET S |->
                      IF s = {} THEN 0
                      ELSE LET x == CHOOSE x \in s : TRUE IN fun[x] + g[s \ {x}]]

\* The folds of the library unfold to it.
LEMMA SumUnfolds ==
    ASSUME NEW fun, NEW S
    PROVE  SumFunctionOnSet(fun, S) = SumIter(fun, S)[S]
BY DEF SumFunctionOnSet, FoldFunctionOnSet, MapThenFoldSet, SumIter

\* One element more brings its own units.
LEMMA UnitsOfOne ==
    ASSUME NEW fun, NEW S, NEW x \in S, fun[x] \in Nat, IsFiniteSet(Units(fun, S \ {x}))
    PROVE  /\ IsFiniteSet(Units(fun, S))
           /\ Cardinality(Units(fun, S)) = fun[x] + Cardinality(Units(fun, S \ {x}))
<1> DEFINE col == {x} \X (0..(fun[x] - 1))
           old == Units(fun, S \ {x})
           all == Units(fun, S)
<1>1. IsFiniteSet(0..(fun[x] - 1)) /\ Cardinality(0..(fun[x] - 1)) = fun[x]
  <2> DEFINE k == fun[x]
  <2>1. k \in Nat
    OBVIOUS
  <2> HIDE DEF k
  <2>2. /\ IsFiniteSet(0..(k - 1))
        /\ Cardinality(0..(k - 1)) = IF 0 > k - 1 THEN 0 ELSE (k - 1) - 0 + 1
    BY <2>1, FS_Interval
  <2>3. Cardinality(0..(k - 1)) = k
    BY <2>1, <2>2
  <2>4. QED
    BY <2>2, <2>3 DEF k
<1>2. IsFiniteSet({x}) /\ Cardinality({x}) = 1
  BY FS_Singleton
<1>3. IsFiniteSet(col) /\ Cardinality(col) = fun[x]
  BY <1>1, <1>2, FS_Product
<1>4. \A p \in col : p[1] = x /\ p[2] \in Nat /\ p[2] < fun[x] /\ p \in S \X Nat
  OBVIOUS
<1>5. \A p \in all : p \in old \/ p \in col
  <2> TAKE p \in all
  <2>1. p \in S \X Nat /\ p[2] < fun[p[1]]
    BY DEF Units
  <2>2. CASE p[1] = x
    BY <2>1, <2>2
  <2>3. CASE p[1] # x
    BY <2>1, <2>3 DEF Units
  <2>4. QED
    BY <2>2, <2>3
<1>6. old \subseteq all /\ col \subseteq all
  <2>1. old \subseteq all
    BY DEF Units
  <2>2. ASSUME NEW p \in col PROVE p \in all
    <3>1. p \in S \X Nat /\ p[1] = x /\ p[2] < fun[x]
      BY <1>4
    <3>2. QED
      BY <3>1 DEF Units
  <2>3. QED
    BY <2>1, <2>2
<1>7. old \cap col = {}
  <2>1. \A p \in old : p[1] # x
    BY DEF Units
  <2>2. QED
    BY <1>4, <2>1
<1>8. all = old \cup col
  BY <1>5, <1>6
<1>9. Cardinality(old) \in Nat
  BY FS_CardinalityType
<1> HIDE DEF col, old, all
<1>10. IsFiniteSet(old)
  BY DEF old
<1>11. IsFiniteSet(all) /\ Cardinality(all) = fun[x] + Cardinality(old)
  <2>1. /\ IsFiniteSet(old \cup col)
        /\ Cardinality(old \cup col) =
              Cardinality(old) + Cardinality(col) - Cardinality(old \cap col)
    BY <1>3, <1>10, FS_Union
  <2>2. Cardinality(old \cap col) = 0
    BY <1>7, FS_EmptySet
  <2>3. QED
    BY <1>3, <1>8, <1>9, <2>1, <2>2
<1>12. QED
  BY <1>11 DEF all, old

\* A finite sum has finitely many units.
LEMMA UnitsFinite ==
    ASSUME NEW S, IsFiniteSet(S), NEW fun, \A x \in S : fun[x] \in Nat
    PROVE  IsFiniteSet(Units(fun, S))
<1> DEFINE F == {T \in SUBSET S : IsFiniteSet(Units(fun, T))}
<1>1. {} \in F
  <2>1. Units(fun, {}) = {}
    BY DEF Units
  <2>2. QED
    BY <2>1, FS_EmptySet
<1>2. ASSUME NEW T \in F, NEW x \in S \ T
      PROVE  T \cup {x} \in F
  <2>1. (T \cup {x}) \ {x} = T
    BY <1>2
  <2>2. QED
    BY <1>2, <2>1, UnitsOfOne
<1>3. S \in F
  <2> HIDE DEF F
  <2>1. F \in SUBSET (SUBSET S)
    BY DEF F
  <2>2. QED
    BY <1>1, <1>2, <2>1, FiniteSetInduction
<1>4. QED
  BY <1>3

\* The sum of naturals is the number of their units.
LEMMA SumIsCount ==
    ASSUME NEW S, IsFiniteSet(S), NEW fun, \A x \in S : fun[x] \in Nat
    PROVE  SumFunctionOnSet(fun, S) = Cardinality(Units(fun, S))
<1> DEFINE Pick(s) == CHOOSE x \in s : TRUE
           Step(g) == [s \in SUBSET S |-> IF s = {} THEN 0 ELSE fun[Pick(s)] + g[s \ {Pick(s)}]]
           count == [s \in SUBSET S |-> Cardinality(Units(fun, s))]
<1>1. ASSUME NEW s \in SUBSET S, s # {}
      PROVE  /\ Pick(s) \in s
             /\ s \ {Pick(s)} \in SUBSET S
             /\ Cardinality(Units(fun, s)) =
                   fun[Pick(s)] + Cardinality(Units(fun, s \ {Pick(s)}))
  <2>1. Pick(s) \in s
    BY <1>1
  <2> HIDE DEF Pick
  <2>2. IsFiniteSet(s \ {Pick(s)})
    BY FS_Subset
  <2>3. IsFiniteSet(Units(fun, s \ {Pick(s)}))
    BY <2>2, UnitsFinite
  <2>4. Cardinality(Units(fun, s)) = fun[Pick(s)] + Cardinality(Units(fun, s \ {Pick(s)}))
    <3>1. fun[Pick(s)] \in Nat
      BY <2>1
    <3>2. QED
      BY <2>1, <2>3, <3>1, UnitsOfOne
  <2>5. s \ {Pick(s)} \in SUBSET S
    OBVIOUS
  <2>6. QED
    BY <2>1, <2>4, <2>5
<1>2. Units(fun, {}) = {} /\ Cardinality({}) = 0
  BY FS_EmptySet DEF Units
<1>3. count = Step(count)
  <2> HIDE DEF Pick
  <2>1. \A s \in SUBSET S : count[s] = IF s = {} THEN 0 ELSE fun[Pick(s)] + count[s \ {Pick(s)}]
    BY <1>1, <1>2
  <2>2. QED
    BY <2>1
<1>4. SumIter(fun, S) = Step(SumIter(fun, S))
  BY <1>3 DEF SumIter
<1> DEFINE g == SumIter(fun, S)
           F == {s \in SUBSET S : g[s] = count[s]}
           Wrong == (SUBSET S) \ F
<1> HIDE DEF g, count, Pick
<1>5. \A s \in SUBSET S : g[s] = IF s = {} THEN 0 ELSE fun[Pick(s)] + g[s \ {Pick(s)}]
  BY <1>4 DEF g
<1>6. \A s \in SUBSET S : count[s] = IF s = {} THEN 0 ELSE fun[Pick(s)] + count[s \ {Pick(s)}]
  BY <1>3
<1>7. Wrong = {}
  <2>1. SUFFICES ASSUME Wrong # {} PROVE FALSE
    OBVIOUS
  <2>2. Wrong \subseteq FiniteSubsetsOf(S)
    BY FS_FiniteSubsetsOfFinite
  <2>3. PICK m \in Wrong : \A y \in Wrong : <<y, m>> \notin StrictSubsetOrdering(S)
    BY <2>1, <2>2, FS_StrictSubsetOrderingWellFounded, WFMin
  <2> DEFINE less == m \ {Pick(m)}
  <2>4. m \in SUBSET S /\ m # {}
    BY <1>5, <1>6, <2>3
  <2>5. less \in SUBSET S /\ less \subseteq m /\ less # m
    BY <1>1, <2>4
  <2> HIDE DEF less
  <2>6. <<less, m>> \in StrictSubsetOrdering(S)
    BY <2>4, <2>5, BelowBySubset
  <2>7. g[less] = count[less]
    BY <2>3, <2>5, <2>6
  <2>8. g[m] = count[m]
    BY <1>5, <1>6, <2>4, <2>7 DEF less
  <2>9. QED
    BY <2>3, <2>8
<1>8. g[S] = count[S]
  BY <1>7
<1>9. QED
  BY <1>8, SumUnfolds DEF g, count

\* The empty sum.
LEMMA SumOfNone ==
    ASSUME NEW fun
    PROVE  SumFunctionOnSet(fun, {}) = 0
<1>1. IsFiniteSet({}) /\ Cardinality({}) = 0
  BY FS_EmptySet
<1>2. Units(fun, {}) = {}
  BY DEF Units
<1>3. QED
  BY <1>1, <1>2, SumIsCount

\* A sum is one of its terms and the sum of the others.
LEMMA SumSplits ==
    ASSUME NEW S, IsFiniteSet(S), NEW fun, \A x \in S : fun[x] \in Nat, NEW x \in S
    PROVE  /\ SumFunctionOnSet(fun, S) \in Nat
           /\ SumFunctionOnSet(fun, S \ {x}) \in Nat
           /\ SumFunctionOnSet(fun, S) = fun[x] + SumFunctionOnSet(fun, S \ {x})
<1>1. IsFiniteSet(S \ {x})
  BY FS_Subset
<1>2. IsFiniteSet(Units(fun, S)) /\ IsFiniteSet(Units(fun, S \ {x}))
  BY <1>1, UnitsFinite
<1>3. /\ SumFunctionOnSet(fun, S) = Cardinality(Units(fun, S))
      /\ SumFunctionOnSet(fun, S \ {x}) = Cardinality(Units(fun, S \ {x}))
  BY <1>1, SumIsCount
<1>4. Cardinality(Units(fun, S)) = fun[x] + Cardinality(Units(fun, S \ {x}))
  BY <1>2, UnitsOfOne
<1>5. QED
  BY <1>2, <1>3, <1>4, FS_CardinalityType

\* A sum depends on the terms only, and is a natural number.
LEMMA SumAgrees ==
    ASSUME NEW S, IsFiniteSet(S), NEW fun, NEW gun,
           \A x \in S : fun[x] \in Nat /\ gun[x] = fun[x]
    PROVE  /\ SumFunctionOnSet(fun, S) \in Nat
           /\ SumFunctionOnSet(gun, S) = SumFunctionOnSet(fun, S)
<1>1. Units(gun, S) = Units(fun, S)
  <2>1. \A p \in S \X Nat : gun[p[1]] = fun[p[1]]
    OBVIOUS
  <2>2. QED
    BY <2>1 DEF Units
<1>2. IsFiniteSet(Units(fun, S))
  BY UnitsFinite
<1>3. QED
  BY <1>1, <1>2, SumIsCount, FS_CardinalityType

\* A sum over two sets is the sum over one and the sum over the other.
LEMMA SumUnion ==
    ASSUME NEW S, IsFiniteSet(S), NEW T, IsFiniteSet(T), S \cap T = {},
           NEW fun, \A x \in S \cup T : fun[x] \in Nat
    PROVE  /\ SumFunctionOnSet(fun, S) \in Nat
           /\ SumFunctionOnSet(fun, T) \in Nat
           /\ SumFunctionOnSet(fun, S \cup T) =
                 SumFunctionOnSet(fun, S) + SumFunctionOnSet(fun, T)
<1> DEFINE s == Units(fun, S)
           t == Units(fun, T)
<1>1. IsFiniteSet(s) /\ IsFiniteSet(t) /\ IsFiniteSet(S \cup T)
  BY UnitsFinite, FS_Union
<1>2. Units(fun, S \cup T) = s \cup t /\ s \cap t = {}
  BY DEF Units
<1>3. /\ SumFunctionOnSet(fun, S) = Cardinality(s)
      /\ SumFunctionOnSet(fun, T) = Cardinality(t)
      /\ SumFunctionOnSet(fun, S \cup T) = Cardinality(s \cup t)
  <2>1. SumFunctionOnSet(fun, S \cup T) = Cardinality(Units(fun, S \cup T))
    BY <1>1, SumIsCount
  <2>2. QED
    BY <1>2, <2>1, SumIsCount
<1> HIDE DEF s, t
<1>4. Cardinality(s \cup t) = Cardinality(s) + Cardinality(t) - Cardinality(s \cap t)
  BY <1>1, FS_Union
<1>5. Cardinality(s \cap t) = 0 /\ Cardinality(s) \in Nat /\ Cardinality(t) \in Nat
  BY <1>1, <1>2, FS_EmptySet, FS_CardinalityType
<1>6. QED
  BY <1>3, <1>4, <1>5

-----------------------------------------------------------------------------
(* What an outcome does to the counters of a run, whatever the budgets:    *)
(* the executor's own reservation may be larger or smaller than what the   *)
(* state charges, so these do not need a state within its budgets.         *)

\* Neither the plan nor a counter of the budgets moves.
SameCounters(s, t) ==
    /\ t.plan = s.plan
    /\ t.model_calls = s.model_calls
    /\ t.provider_calls_started = s.provider_calls_started
    /\ t.reserved_child_model_calls = s.reserved_child_model_calls
    /\ t.reserved_tokens = s.reserved_tokens

\* The usage of a run that ended short.
CutShort(usage) == [calls |-> usage.calls, complete |-> FALSE]

LEMMA CutShortIs ==
    ASSUME NEW u \in RunUsage
    PROVE  [u EXCEPT !.complete = FALSE] = CutShort(u)
<1> DEFINE m == [u EXCEPT !.complete = FALSE]
<1>1. m \in RunUsage /\ m.calls = u.calls /\ m.complete = FALSE
  BY DEF RunUsage
<1> HIDE DEF m
<1>2. m = [calls |-> m.calls, complete |-> m.complete]
  BY <1>1 DEF RunUsage
<1>3. QED
  BY <1>1, <1>2, Zenon DEF CutShort, m

\* Usage, history, pending calls, status and answer leave the counters alone.
LEMMA BookkeepFields ==
    ASSUME NEW s \in AgentRunState,
           NEW usage \in RunUsage, NEW history \in Seq(Message), NEW pending \in Seq(Call),
           NEW status \in Status, NEW text \in BOOLEAN,
           NEW t, t = Bookkeep(s, usage, history, pending, status, text)
    PROVE  t \in AgentRunState /\ SameCounters(s, t) /\ t.usage = usage
BY DEF AgentRunState, Bookkeep, SameCounters

\* A run that is cancelled, or whose budget is spent, is charged nothing more
\* and its ledger is cut short.
Shortened(s, status) == [s EXCEPT !.status = status, !.usage.complete = FALSE]

LEMMA EndsShort ==
    ASSUME NEW s \in AgentRunState, NEW status \in {"cancelled", "incomplete"}
    PROVE  /\ Shortened(s, status) \in AgentRunState
           /\ SameCounters(s, Shortened(s, status))
           /\ Shortened(s, status).usage = CutShort(s.usage)
<1> DEFINE u == CutShort(s.usage)
           t == Shortened(s, status)
<1>1. /\ u \in RunUsage /\ s.history \in Seq(Message)
      /\ s.pending_tools \in Seq(Call) /\ status \in Status /\ s.text \in BOOLEAN
  BY DEF AgentRunState, RunUsage, CutShort, Status
<1>2. [s.usage EXCEPT !.complete = FALSE] = u
  BY CutShortIs DEF AgentRunState
<1>3. t = [s EXCEPT !.status = status, !.usage = u]
  BY <1>2 DEF Shortened
<1> HIDE DEF u, t
<1>4. t = Bookkeep(s, u, s.history, s.pending_tools, status, s.text)
  BY <1>3 DEF Bookkeep, AgentRunState
<1>5. t \in AgentRunState /\ SameCounters(s, t) /\ t.usage = u
  BY <1>1, <1>4, BookkeepFields
<1>6. QED
  BY <1>5 DEF u, t

LEMMA QuietStepsFields ==
    ASSUME NEW s \in AgentRunState
    PROVE  /\ Fail(s) \in AgentRunState /\ SameCounters(s, Fail(s)) /\ Fail(s).usage = s.usage
           /\ s.status \in Live =>
                 /\ Cancel(s) \in AgentRunState
                 /\ SameCounters(s, Cancel(s))
                 /\ Cancel(s).usage = CutShort(s.usage)
           /\ Exhausted(s) =>
                 /\ FinishIfExhausted(s) \in AgentRunState
                 /\ SameCounters(s, FinishIfExhausted(s))
                 /\ FinishIfExhausted(s).usage = CutShort(s.usage)
           /\ \A effect : effect.kind = "provider" /\ Expected(s, effect) =>
                 /\ CommitBudgetExhausted(s, effect) \in AgentRunState
                 /\ SameCounters(s, CommitBudgetExhausted(s, effect))
                 /\ CommitBudgetExhausted(s, effect).usage = CutShort(s.usage)
<1>1. Fail(s) \in AgentRunState /\ SameCounters(s, Fail(s)) /\ Fail(s).usage = s.usage
  BY DEF Fail, AgentRunState, Status, SameCounters
<1>2. ASSUME s.status \in Live
      PROVE  /\ Cancel(s) \in AgentRunState
             /\ SameCounters(s, Cancel(s))
             /\ Cancel(s).usage = CutShort(s.usage)
  <2>1. Cancel(s) = Shortened(s, "cancelled")
    BY <1>2 DEF Cancel, Shortened
  <2>2. QED
    BY <2>1, EndsShort
<1>3. ASSUME Exhausted(s)
      PROVE  /\ FinishIfExhausted(s) \in AgentRunState
             /\ SameCounters(s, FinishIfExhausted(s))
             /\ FinishIfExhausted(s).usage = CutShort(s.usage)
  <2>1. s.status \in Live
    BY <1>3 DEF Exhausted
  <2>2. CASE DeadlineReached(s)
    BY <1>2, <1>3, <2>1, <2>2 DEF FinishIfExhausted
  <2>3. CASE ~DeadlineReached(s)
    <3>1. FinishIfExhausted(s) = Shortened(s, "incomplete")
      BY <1>3, <2>3 DEF FinishIfExhausted, Shortened
    <3>2. QED
      BY <3>1, EndsShort
  <2>4. QED
    BY <2>2, <2>3
<1>4. ASSUME NEW effect, effect.kind = "provider", Expected(s, effect)
      PROVE  /\ CommitBudgetExhausted(s, effect) \in AgentRunState
             /\ SameCounters(s, CommitBudgetExhausted(s, effect))
             /\ CommitBudgetExhausted(s, effect).usage = CutShort(s.usage)
  <2>1. CommitBudgetExhausted(s, effect) = Shortened(s, "incomplete")
    BY <1>4 DEF CommitBudgetExhausted, Shortened
  <2>2. QED
    BY <2>1, EndsShort
<1>5. QED
  BY <1>1, <1>2, <1>3, <1>4

\* From s to t the attempts of one provider effect are charged.
Charged(s, t, attempts) ==
    /\ t.plan = s.plan
    /\ t.model_calls = s.model_calls + 1
    /\ t.provider_calls_started =
          MaxOf(s.provider_calls_started, s.model_calls) + CallCount(attempts)
    /\ t.reserved_child_model_calls = s.reserved_child_model_calls
    /\ t.reserved_tokens = s.reserved_tokens + ReservationFor(s, attempts)
    /\ t.usage = [calls |-> s.usage.calls + CallCount(attempts),
                  complete |-> s.usage.complete /\ attempts.measured]

LEMMA ChargeIsCharged ==
    ASSUME NEW s \in AgentRunState, NEW attempts
    PROVE  Charged(s, ChargeProvider(s, attempts), attempts)
<1> DEFINE a == ReservationFor(s, attempts)
           b == MaxOf(s.provider_calls_started, s.model_calls) + CallCount(attempts)
           c == [calls |-> s.usage.calls + CallCount(attempts),
                 complete |-> s.usage.complete /\ attempts.measured]
           t == ChargeProvider(s, attempts)
<1>1. t = [s EXCEPT !.reserved_tokens = s.reserved_tokens + a,
                    !.provider_calls_started = b,
                    !.model_calls = s.model_calls + 1,
                    !.usage = c]
  BY DEF ChargeProvider
<1> HIDE DEF a, b, c, t
<1>2. /\ t.plan = s.plan
      /\ t.model_calls = s.model_calls + 1
      /\ t.provider_calls_started = b
      /\ t.reserved_child_model_calls = s.reserved_child_model_calls
      /\ t.reserved_tokens = s.reserved_tokens + a
      /\ t.usage = c
  BY <1>1 DEF AgentRunState
<1>3. QED
  BY <1>2, Zenon DEF Charged, a, b, c, t

\* An accepted response, with tool calls or with final text, adds to the
\* history and charges nothing.
LEMMA AcceptFields ==
    ASSUME NEW s \in AgentRunState, NEW calls \in Seq(Call), NEW text \in BOOLEAN,
           text <=> calls = << >>,
           NEW t, t = AcceptResponse(s, calls, text)
    PROVE  t \in AgentRunState /\ SameCounters(s, t) /\ t.usage = s.usage
<1>1. s.history \in Seq(Message) /\ s.pending_tools \in Seq(Call) /\ s.usage \in RunUsage
  BY DEF AgentRunState
<1>2. /\ Append(s.history, CallsMessage(calls)) \in Seq(Message)
      /\ Append(s.history, TextMessage) \in Seq(Message)
  <2>1. CallsMessage(calls) \in Message /\ TextMessage \in Message
    BY DEF CallsMessage, TextMessage, Message
  <2>2. QED
    BY <1>1, <2>1
<1> DEFINE h == Append(s.history, CallsMessage(calls))
           g == Append(s.history, TextMessage)
           u == s.usage
           p == s.pending_tools
           x == s.text
<1>3. /\ h \in Seq(Message) /\ g \in Seq(Message) /\ u \in RunUsage /\ p \in Seq(Call)
      /\ x \in BOOLEAN /\ "running" \in Status /\ "completed" \in Status
  BY <1>1, <1>2 DEF AgentRunState, Status
<1>4. CASE calls # << >>
  <2>1. t = Bookkeep(s, u, h, calls, "running", x)
    BY <1>4 DEF Bookkeep, AcceptResponse, AgentRunState
  <2> HIDE DEF h, g, u, p, x
  <2>2. t \in AgentRunState /\ SameCounters(s, t) /\ t.usage = u
    <3> DEFINE running == "running"
    <3> HIDE DEF running
    <3>1. running \in Status /\ t = Bookkeep(s, u, h, calls, running, x)
      BY <1>3, <2>1 DEF running
    <3>2. QED
      BY <1>3, <3>1, BookkeepFields
  <2>3. QED
    BY <2>2 DEF u
<1>5. CASE calls = << >>
  <2>1. t = Bookkeep(s, u, g, p, "completed", TRUE)
    BY <1>5 DEF Bookkeep, AcceptResponse, AgentRunState
  <2> HIDE DEF h, g, u, p, x
  <2>2. t \in AgentRunState /\ SameCounters(s, t) /\ t.usage = u
    <3> DEFINE completed == "completed"
               yes == TRUE
    <3> HIDE DEF completed, yes
    <3>1. completed \in Status /\ yes \in BOOLEAN /\ t = Bookkeep(s, u, g, p, completed, yes)
      BY <1>3, <2>1 DEF completed, yes
    <3>2. QED
      BY <1>3, <3>1, BookkeepFields
  <2>3. QED
    BY <2>2 DEF u
<1>6. QED
  BY <1>4, <1>5

\* A provider outcome charges its attempts.
LEMMA ProviderFields ==
    ASSUME NEW s \in AgentRunState, NEW attempts \in Attempts,
           NEW effect, effect.kind = "provider", Expected(s, effect),
           NEW t, \/ \E calls \in Seq(Call) :
                        t = CommitProviderResponse(s, effect, calls, calls = << >>, attempts)
                  \/ t = CommitProviderFailure(s, effect, attempts)
    PROVE  t \in AgentRunState /\ Charged(s, t, attempts)
<1> DEFINE c == ChargeProvider(s, attempts)
<1>1. c \in AgentRunState /\ Charged(s, c, attempts)
  BY ChargeType, ChargeIsCharged
<1>2. \/ \E calls \in Seq(Call) : t = AcceptResponse(c, calls, calls = << >>)
      \/ t = Fail(c)
  BY DEF CommitProviderResponse, CommitProviderFailure
<1> HIDE DEF c
<1>3. t \in AgentRunState /\ SameCounters(c, t) /\ t.usage = c.usage
  <2>1. CASE t = Fail(c)
    BY <1>1, <2>1, QuietStepsFields
  <2>2. ASSUME NEW calls \in Seq(Call), t = AcceptResponse(c, calls, calls = << >>)
        PROVE  t \in AgentRunState /\ SameCounters(c, t) /\ t.usage = c.usage
    BY <1>1, <2>2, AcceptFields
  <2>3. QED
    BY <1>2, <2>1, <2>2
<1>4. QED
  BY <1>1, <1>3 DEF Charged, SameCounters

\* A tool that delegates is charged a share, which leaves the calls charged
\* within the limit.
LEMMA ToolFields ==
    ASSUME NEW s \in AgentRunState, NEW child \in RunUsage,
           NEW effect, effect.kind = "tool", Expected(s, effect)
    PROVE  LET t == CommitTool(s, effect, child) IN
           /\ t \in AgentRunState
           /\ t.plan = s.plan
           /\ t.model_calls = s.model_calls
           /\ t.provider_calls_started = s.provider_calls_started
           /\ t.usage = MergeChild(s.usage, child)
           /\ t.reserved_tokens >= s.reserved_tokens
           /\ WithinCalls(s) => WithinCalls(t)
<1> DEFINE call == s.pending_tools[1]
           n == IF call.tool \in Delegating THEN 1 ELSE 0
           r == ReserveChildren(s, n)
           t == CommitTool(s, effect, child)
<1>1. s.pending_tools # << >>
  BY ToolNeedsCall
<1>2. s.pending_tools \in Seq(Call) /\ s.history \in Seq(Message) /\ s.usage \in RunUsage
  BY DEF AgentRunState
<1>3. n \in Nat /\ n < Shares(s)
  <2>1. CASE call.tool \in Delegating
    <3>1. 1 \in PendingDelegations(s)
      BY <1>1, <1>2, <2>1 DEF PendingDelegations
    <3>2. IsFiniteSet(PendingDelegations(s))
      BY PendingFinite
    <3>3. Cardinality(PendingDelegations(s)) # 0
      BY <3>1, <3>2, FS_EmptySet
    <3>4. QED
      BY <2>1, <3>3, SharesType DEF Shares
  <2>2. CASE call.tool \notin Delegating
    BY <2>2, SharesType
  <2>3. QED
    BY <2>1, <2>2
<1> DEFINE a == n * DelegatedCalls(s)
           b == n * DelegatedTokens(s)
<1>4. /\ ChargedCalls(s) \in Nat /\ RemainingCalls(s) \in Nat
      /\ DelegatedCalls(s) \in Nat /\ DelegatedTokens(s) \in Nat
      /\ Shares(s) \in Nat \ {0}
  BY RemainingType, SharesType
<1>5. a \in Nat /\ b \in Nat /\ a <= RemainingCalls(s)
  <2> HIDE DEF n
  <2>1. a <= RemainingCalls(s)
    BY <1>3, <1>4, SharesFit DEF DelegatedCalls
  <2>2. QED
    BY <1>3, <1>4, <2>1
<1>6. r = [s EXCEPT !.reserved_child_model_calls = s.reserved_child_model_calls + a,
                    !.reserved_tokens = s.reserved_tokens + b]
  BY DEF ReserveChildren
<1> HIDE DEF n, r, a, b
<1>7. /\ r \in AgentRunState
      /\ r.plan = s.plan
      /\ r.model_calls = s.model_calls
      /\ r.provider_calls_started = s.provider_calls_started
      /\ r.reserved_child_model_calls = s.reserved_child_model_calls + a
      /\ r.reserved_tokens = s.reserved_tokens + b
      /\ r.usage = s.usage /\ r.history = s.history /\ r.pending_tools = s.pending_tools
      /\ r.status = s.status /\ r.text = s.text
  <2>1. /\ s.reserved_child_model_calls + a \in Nat
        /\ s.reserved_tokens + b \in Nat
    BY <1>5 DEF AgentRunState
  <2>2. r \in AgentRunState
    BY <1>6, <2>1 DEF AgentRunState
  <2>3. QED
    BY <1>6, <2>2 DEF AgentRunState
<1>8. /\ MergeChild(s.usage, child) \in RunUsage
      /\ Append(s.history, ResultMessage(call)) \in Seq(Message)
      /\ Tail(s.pending_tools) \in Seq(Call)
      /\ s.status \in Status /\ s.text \in BOOLEAN
  <2>1. call \in Call
    BY <1>1, <1>2
  <2>2. ResultMessage(call) \in Message
    BY <2>1 DEF ResultMessage, Message
  <2>3. QED
    BY <1>1, <1>2, <2>2, MergeChildType DEF AgentRunState
<1>9. t = Bookkeep(r, MergeChild(s.usage, child), Append(s.history, ResultMessage(call)),
                   Tail(s.pending_tools), s.status, s.text)
  <2>1. t = [r EXCEPT !.usage = MergeChild(r.usage, child),
                      !.history = Append(r.history, ResultMessage(call)),
                      !.pending_tools = Tail(r.pending_tools)]
    BY DEF CommitTool, r, n
  <2> HIDE DEF call, t
  <2>2. QED
    BY <1>7, <2>1 DEF Bookkeep, AgentRunState
<1> DEFINE u == MergeChild(s.usage, child)
           h == Append(s.history, ResultMessage(call))
           p == Tail(s.pending_tools)
<1> HIDE DEF call, t, u, h, p
<1>10. t \in AgentRunState /\ SameCounters(r, t) /\ t.usage = MergeChild(s.usage, child)
  <2>1. /\ r \in AgentRunState
        /\ u \in RunUsage /\ h \in Seq(Message) /\ p \in Seq(Call)
        /\ s.status \in Status /\ s.text \in BOOLEAN
    BY <1>7, <1>8 DEF u, h, p
  <2>2. t = Bookkeep(r, u, h, p, s.status, s.text)
    BY <1>9 DEF u, h, p
  <2>3. QED
    BY <2>1, <2>2, BookkeepFields DEF u
<1>11. s.reserved_tokens \in Nat /\ s.reserved_child_model_calls \in Nat
       /\ s.plan.model_call_limit \in Nat /\ s.provider_calls_started \in Nat
       /\ s.model_calls \in Nat
  BY DEF AgentRunState, Plan
<1>12. WithinCalls(s) => WithinCalls(t)
  <2>1. ChargedCalls(t) = ChargedCalls(s) + a
    BY <1>5, <1>7, <1>10, <1>11 DEF ChargedCalls, SameCounters, MaxOf
  <2>2. t.plan = s.plan
    BY <1>7, <1>10 DEF SameCounters
  <2>3. QED
    BY <1>4, <1>5, <1>11, <2>1, <2>2 DEF WithinCalls, RemainingCalls, Minus
<1>13. t.reserved_tokens >= s.reserved_tokens
  BY <1>5, <1>7, <1>10, <1>11 DEF SameCounters
<1>14. QED
  BY <1>7, <1>10, <1>12, <1>13 DEF SameCounters, t
-----------------------------------------------------------------------------
(* The fold of run/validation.rs.  FoldLeft recurs over sets of indices and *)
(* takes off the largest one at a time.                                    *)

Largest(s) == CHOOSE x \in s : \A y \in s : x >= y

LEMMA LargestIs ==
    ASSUME NEW n \in Nat, NEW s \in SUBSET (1..n), NEW x \in s, \A y \in s : y <= x
    PROVE  Largest(s) = x
<1>1. x \in s /\ \A y \in s : x >= y
  OBVIOUS
<1>2. /\ Largest(s) \in s
      /\ \A y \in s : Largest(s) >= y
  BY <1>1 DEF Largest
<1> DEFINE z == Largest(s)
<1> HIDE DEF z
<1>3. z \in s /\ z >= x
  BY <1>2 DEF z
<1>4. x >= z
  BY <1>1, <1>3
<1>5. x \in Int /\ z \in Int
  BY <1>3
<1>6. z = x
  BY <1>3, <1>4, <1>5
<1>7. QED
  BY <1>6 DEF z

\* What the fold makes of l over the messages q.
ScanAll(l, q) == FoldLeft(ScanMessage, l, q)

\* The recursive function behind the fold, on sets of indices.
IsScanIter(g, l, q) ==
    g = [s \in SUBSET DOMAIN q |->
           IF s = {} THEN l ELSE ScanMessage(g[s \ {Largest(s)}], q[Largest(s)])]

ScanIter(l, q) == CHOOSE g : IsScanIter(g, l, q)

LEMMA ScanUnfolds ==
    ASSUME NEW l, NEW q
    PROVE  ScanAll(l, q) = ScanIter(l, q)[DOMAIN q]
BY DEF ScanAll, FoldLeft, MapThenFoldSet, Max, ScanIter, IsScanIter, Largest

\* The recursion is well founded: the library's function exists.
LEMMA ScanIterExists ==
    ASSUME NEW l, NEW X, NEW q \in Seq(X)
    PROVE  IsScanIter(ScanIter(l, q), l, q)
<1> DEFINE n == Len(q)
           Upto(k, h) == \A s \in SUBSET (1..k) :
                            h[s] = IF s = {} THEN l
                                   ELSE ScanMessage(h[s \ {Largest(s)}], q[Largest(s)])
           F == {k \in Nat : \E h : Upto(k, h)}
<1>1. 0 \in F
  <2> DEFINE h == [s \in {{}} |-> l]
  <2>1. Upto(0, h)
    OBVIOUS
  <2>2. QED
    BY <2>1
<1>2. ASSUME NEW k \in F PROVE k + 1 \in F
  <2>1. PICK h : Upto(k, h)
    BY <1>2
  <2> DEFINE g == [s \in SUBSET (1..(k + 1)) |->
                     IF k + 1 \in s THEN ScanMessage(h[s \ {k + 1}], q[k + 1]) ELSE h[s]]
  <2>2. ASSUME NEW s \in SUBSET (1..(k + 1)), k + 1 \in s
        PROVE  g[s] = ScanMessage(g[s \ {Largest(s)}], q[Largest(s)])
    <3>1. Largest(s) = k + 1
      <4>1. \A y \in s : y <= k + 1
        OBVIOUS
      <4>2. k + 1 \in Nat
        BY <1>2
      <4>3. QED
        BY <2>2, <4>1, <4>2, LargestIs
    <3>2. s \ {k + 1} \in SUBSET (1..(k + 1)) /\ k + 1 \notin s \ {k + 1}
      OBVIOUS
    <3>3. g[s \ {k + 1}] = h[s \ {k + 1}]
      BY <3>2
    <3>4. g[s] = ScanMessage(h[s \ {k + 1}], q[k + 1])
      BY <2>2
    <3>5. QED
      BY <3>1, <3>3, <3>4
  <2>3. ASSUME NEW s \in SUBSET (1..(k + 1)), k + 1 \notin s
        PROVE  g[s] = IF s = {} THEN l
                      ELSE ScanMessage(g[s \ {Largest(s)}], q[Largest(s)])
    <3>1. s \in SUBSET (1..k)
      BY <2>3
    <3> DEFINE less == s \ {Largest(s)}
    <3>2. less \in SUBSET (1..(k + 1)) /\ k + 1 \notin less
      BY <2>3
    <3>3. g[s] = h[s] /\ g[less] = h[less]
      BY <2>3, <3>2
    <3>4. h[s] = IF s = {} THEN l ELSE ScanMessage(h[less], q[Largest(s)])
      BY <2>1, <3>1
    <3> HIDE DEF g, less
    <3>5. QED
      BY <3>3, <3>4 DEF less
  <2>4. Upto(k + 1, g)
    <3> HIDE DEF g
    <3>1. QED
      BY <2>2, <2>3
  <2>5. QED
    <3> HIDE DEF Upto, g
    <3>1. QED
      BY <2>4
<1>3. F = Nat
  <2> HIDE DEF F
  <2>1. F \in SUBSET Nat
    BY DEF F
  <2>2. QED
    BY <1>1, <1>2, <2>1, NatSetInduction
<1>4. n \in Nat /\ DOMAIN q = 1..n
  OBVIOUS
<1>5. PICK h : Upto(n, h)
  BY <1>3, <1>4
<1> DEFINE g == [s \in SUBSET DOMAIN q |-> h[s]]
<1>6. IsScanIter(g, l, q)
  <2>1. \A s \in SUBSET DOMAIN q : g[s \ {Largest(s)}] = h[s \ {Largest(s)}]
    OBVIOUS
  <2>2. \A s \in SUBSET DOMAIN q :
           g[s] = IF s = {} THEN l ELSE ScanMessage(g[s \ {Largest(s)}], q[Largest(s)])
    BY <1>4, <1>5, <2>1
  <2>3. g = [s \in SUBSET DOMAIN q |->
               IF s = {} THEN l ELSE ScanMessage(g[s \ {Largest(s)}], q[Largest(s)])]
    BY <2>2
  <2>4. QED
    BY <2>3 DEF IsScanIter
<1>7. QED
  <2> HIDE DEF g
  <2>1. QED
    BY <1>6 DEF ScanIter

\* On the first k messages.
LEMMA ScanIterAt ==
    ASSUME NEW l, NEW X, NEW q \in Seq(X), NEW k \in 0..Len(q)
    PROVE  ScanIter(l, q)[1..k] =
              IF k = 0 THEN l ELSE ScanMessage(ScanIter(l, q)[1..(k - 1)], q[k])
<1> DEFINE g == ScanIter(l, q)
<1>0. IsScanIter(g, l, q)
  BY ScanIterExists
<1> HIDE DEF g
<1>1. \A s \in SUBSET DOMAIN q :
         g[s] = IF s = {} THEN l ELSE ScanMessage(g[s \ {Largest(s)}], q[Largest(s)])
  <2> DEFINE h == [s \in SUBSET DOMAIN q |->
                     IF s = {} THEN l ELSE ScanMessage(g[s \ {Largest(s)}], q[Largest(s)])]
  <2>1. g = h
    BY <1>0 DEF IsScanIter
  <2>2. \A s \in SUBSET DOMAIN q : h[s] =
           IF s = {} THEN l ELSE ScanMessage(g[s \ {Largest(s)}], q[Largest(s)])
    OBVIOUS
  <2> HIDE DEF h
  <2>3. QED
    BY <2>1, <2>2
<1>2. 1..k \in SUBSET DOMAIN q
  OBVIOUS
<1>3. CASE k = 0
  <2>1. 1..k = {}
    BY <1>3
  <2>2. g[1..k] = l
    BY <1>1, <1>2, <2>1
  <2>3. QED
    BY <1>3, <2>2 DEF g
<1>4. CASE k # 0
  <2> k \in Nat
    OBVIOUS
  <2>1. 1..k # {} /\ k \in 1..k /\ \A y \in 1..k : y <= k
    <3>1. k \in 1..k
      BY <1>4
    <3>2. 1..k # {}
      BY <3>1
    <3>3. \A y \in 1..k : y <= k
      OBVIOUS
    <3>4. QED
      BY <3>1, <3>2, <3>3
  <2>2. Largest(1..k) = k
    <3> DEFINE s == 1..k
    <3>1. s \in SUBSET (1..k) /\ k \in s /\ \A y \in s : y <= k
      BY <2>1
    <3> HIDE DEF s
    <3>2. Largest(s) = k
      BY <3>1, LargestIs
    <3>3. QED
      BY <3>2 DEF s
  <2>3. (1..k) \ {k} = 1..(k - 1)
    BY <1>4
  <2>4. g[1..k] = ScanMessage(g[1..(k - 1)], q[k])
    BY <1>1, <1>2, <2>1, <2>2, <2>3
  <2>5. QED
    BY <1>4, <2>4 DEF g
<1>5. QED
  BY <1>3, <1>4

\* The fold reads the messages one after another: it leaves its start alone for
\* none, and gives the last one to what the others made of it.
LEMMA ScanOneByOne ==
    ASSUME NEW l, NEW X, NEW q \in Seq(X), NEW x \in X
    PROVE  /\ ScanAll(l, << >>) = l
           /\ ScanAll(l, Append(q, x)) = ScanMessage(ScanAll(l, q), x)
<1> DEFINE n == Len(q)
           r == Append(q, x)
           f == ScanIter(l, q)
           g == ScanIter(l, r)
           F == {k \in Nat : k <= n => f[1..k] = g[1..k]}
<1>1. /\ n \in Nat /\ r \in Seq(X) /\ Len(r) = n + 1
      /\ r[n + 1] = x
      /\ \A k \in 1..n : r[k] = q[k]
      /\ DOMAIN q = 1..n /\ DOMAIN r = 1..(n + 1)
  OBVIOUS
<1>2. \A k \in 0..n : f[1..k] = IF k = 0 THEN l ELSE ScanMessage(f[1..(k - 1)], q[k])
  BY ScanIterAt
<1>3. \A k \in 0..(n + 1) : g[1..k] = IF k = 0 THEN l ELSE ScanMessage(g[1..(k - 1)], r[k])
  <2> HIDE DEF r
  <2>1. \A k \in 0..Len(r) : ScanIter(l, r)[1..k] =
           IF k = 0 THEN l ELSE ScanMessage(ScanIter(l, r)[1..(k - 1)], r[k])
    BY <1>1, ScanIterAt
  <2>2. QED
    BY <1>1, <2>1
<1> HIDE DEF f, g, r, n
<1>4. 0 \in F
  BY <1>1, <1>2, <1>3
<1>5. ASSUME NEW k \in F PROVE k + 1 \in F
  <2>1. CASE k + 1 <= n
    <3>1. k \in Nat /\ f[1..k] = g[1..k]
      BY <1>1, <2>1, <1>5
    <3>2. k + 1 \in 0..n /\ k + 1 \in 0..(n + 1) /\ k + 1 \in 1..n /\ k + 1 # 0
      BY <1>1, <2>1, <3>1
    <3>3. f[1..(k + 1)] = ScanMessage(f[1..k], q[k + 1])
      BY <1>2, <3>1, <3>2
    <3>4. g[1..(k + 1)] = ScanMessage(g[1..k], r[k + 1])
      BY <1>3, <3>1, <3>2
    <3>5. QED
      BY <1>1, <3>1, <3>2, <3>3, <3>4
  <2>2. CASE ~(k + 1 <= n)
    BY <1>1, <2>2
  <2>3. QED
    BY <2>1, <2>2
<1>6. F = Nat
  <2> HIDE DEF F
  <2>1. F \in SUBSET Nat
    BY DEF F
  <2>2. QED
    BY <1>4, <1>5, <2>1, NatSetInduction
<1>7. f[1..n] = g[1..n]
  BY <1>1, <1>6
<1>8. g[1..(n + 1)] = ScanMessage(f[1..n], x)
  BY <1>1, <1>3, <1>7
<1>9. ScanAll(l, q) = f[1..n] /\ ScanAll(l, r) = g[1..(n + 1)]
  BY <1>1, ScanUnfolds DEF f, g
<1>10. ScanAll(l, << >>) = l
  <2> DEFINE e == << >>
  <2>1. e \in Seq(X) /\ Len(e) = 0 /\ DOMAIN e = 1..0
    OBVIOUS
  <2> HIDE DEF e
  <2>2. ScanIter(l, e)[1..0] = l
    <3>1. 0 \in 0..Len(e)
      BY <2>1
    <3>2. ScanIter(l, e)[1..0] =
             IF 0 = 0 THEN l ELSE ScanMessage(ScanIter(l, e)[1..(0 - 1)], e[0])
      BY <2>1, <3>1, ScanIterAt
    <3>3. QED
      BY <3>2
  <2>3. ScanAll(l, e) = l
    BY <2>1, <2>2, ScanUnfolds
  <2>4. QED
    BY <2>3 DEF e
<1>11. QED
  BY <1>8, <1>9, <1>10 DEF r

-----------------------------------------------------------------------------
(* The fold agrees with the rules, on every history.                       *)

\* What the calls that no answer has reached yet look like, for one message.
Open(h, i) == i + Len(CallsOf(h[i])) > Len(h)

Unanswered(h, i) == SubSeq(CallsOf(h[i]), (Len(h) - i) + 1, Len(CallsOf(h[i])))

\* An open message is what the history leaves.
LEMMA OpenLeaves ==
    ASSUME NEW h \in Seq(Message), NEW i \in 1..Len(h), Open(h, i)
    PROVE  /\ Unanswered(h, i) \in Seq(Call)
           /\ Unanswered(h, i) # << >>
           /\ Head(Unanswered(h, i)) = CallsOf(h[i])[(Len(h) - i) + 1]
           /\ Leaves(h, Unanswered(h, i))
<1> DEFINE calls == CallsOf(h[i])
           n == Len(h) - i
           rest == Unanswered(h, i)
<1>1. calls \in Seq(Call) /\ Len(calls) \in Nat /\ n \in Nat /\ n < Len(calls)
  BY CallsAtType DEF Open
<1>2. rest = SubSeq(calls, n + 1, Len(calls))
  BY DEF Unanswered
<1>3. Leaves(h, rest) <=>
        IF rest = << >>
        THEN \A j \in 1..Len(h) : j + Len(CallsOf(h[j])) <= Len(h)
        ELSE \E j \in 1..Len(h) :
               Len(h) - j < Len(CallsOf(h[j]))
               /\ rest = SubSeq(CallsOf(h[j]), (Len(h) - j) + 1, Len(CallsOf(h[j])))
  BY DEF Leaves
<1>4. n = Len(h) - i /\ calls = CallsOf(h[i])
  OBVIOUS
<1> HIDE DEF calls, n, rest
<1>5. n + 1 \in 1..Len(calls)
  BY <1>1
<1>6. rest \in Seq(Call) /\ Len(rest) = Len(calls) - n /\ rest[1] = calls[n + 1]
  BY <1>1, <1>2, <1>5
<1>7. rest # << >> /\ Head(rest) = calls[n + 1]
  BY <1>1, <1>6
<1>8. Leaves(h, rest)
  BY <1>1, <1>2, <1>3, <1>4, <1>7
<1>9. QED
  BY <1>4, <1>6, <1>7, <1>8 DEF rest

\* What a history leaves is what its open message leaves.
LEMMA LeavesOpen ==
    ASSUME NEW h \in Seq(Message), NEW rest \in Seq(Call), Leaves(h, rest), rest # << >>
    PROVE  \E i \in 1..Len(h) : Open(h, i) /\ rest = Unanswered(h, i)
<1>1. PICK i \in 1..Len(h) :
        /\ Len(h) - i < Len(CallsOf(h[i]))
        /\ rest = SubSeq(CallsOf(h[i]), (Len(h) - i) + 1, Len(CallsOf(h[i])))
  BY DEF Leaves
<1>2. Len(CallsOf(h[i])) \in Nat /\ Len(h) \in Nat
  BY CallsAtType
<1>3. Open(h, i)
  BY <1>1, <1>2 DEF Open
<1>4. QED
  BY <1>1, <1>3 DEF Unanswered

\* A history that keeps the rules leaves one list of calls.
LEMMA LeavesOne ==
    ASSUME NEW h \in Seq(Message), Correlated(h),
           NEW p \in Seq(Call), NEW q \in Seq(Call), Leaves(h, p), Leaves(h, q)
    PROVE  p = q
<1>1. ASSUME NEW i \in 1..Len(h), Open(h, i)
      PROVE  ~Leaves(h, << >>)
  <2>1. i + Len(CallsOf(h[i])) \in Nat /\ Len(h) \in Nat
    BY CallsAtType
  <2>2. QED
    BY <1>1, <2>1 DEF Open, Leaves
<1>2. ASSUME NEW r \in Seq(Call), NEW t \in Seq(Call), Leaves(h, r), Leaves(h, t), r # << >>
      PROVE  r = t
  <2>1. PICK i \in 1..Len(h) : Open(h, i) /\ r = Unanswered(h, i)
    BY <1>2, LeavesOpen
  <2>2. t # << >>
    BY <1>1, <1>2, <2>1
  <2>3. PICK j \in 1..Len(h) : Open(h, j) /\ t = Unanswered(h, j)
    BY <1>2, <2>2, LeavesOpen
  <2>4. i = j
    BY <2>1, <2>3, OneOpen DEF Open
  <2>5. QED
    BY <2>1, <2>3, <2>4
<1>3. QED
  BY <1>2

\* The rules hold of every beginning of a history that keeps them, and the last
\* message of it answers the first call that was left.
LEMMA CorrelatedBefore ==
    ASSUME NEW h \in Seq(Message), NEW m \in Message, Correlated(Append(h, m))
    PROVE  /\ Correlated(h)
           /\ DistinctIds(CallsOf(m))
           /\ m.role = "result" => \E i \in 1..Len(h) : Open(h, i)
           /\ \A i \in 1..Len(h) : Open(h, i) =>
                 m = ResultMessage(CallsOf(h[i])[(Len(h) - i) + 1])
<1> DEFINE g == Append(h, m)
<1>1. /\ g \in Seq(Message) /\ Len(g) = Len(h) + 1 /\ Len(h) \in Nat
      /\ \A i \in 1..Len(h) : g[i] = h[i]
      /\ g[Len(h) + 1] = m
  OBVIOUS
<1> HIDE DEF g
<1>2. \A i \in 1..Len(g) :
        /\ DistinctIds(CallsOf(g[i]))
        /\ Answered(g, i)
        /\ g[i].role = "result" => Answers(g, i)
  BY DEF Correlated, g
<1>3. \A i \in 1..Len(h) : Len(CallsOf(h[i])) \in Nat
  BY CallsAtType
<1>4. ASSUME NEW i \in 1..Len(h)
      PROVE  /\ DistinctIds(CallsOf(h[i]))
             /\ Answered(h, i)
             /\ h[i].role = "result" => Answers(h, i)
  <2>1. i \in 1..Len(g) /\ g[i] = h[i]
    BY <1>1
  <2>2. DistinctIds(CallsOf(h[i]))
    BY <1>2, <2>1
  <2>3. Answered(h, i)
    <3>1. SUFFICES ASSUME NEW n \in 1..Len(CallsOf(h[i])), i + n <= Len(h)
                   PROVE  h[i + n] = ResultMessage(CallsOf(h[i])[n])
      BY DEF Answered
    <3>2. n \in Nat /\ i + n \in 1..Len(h) /\ i + n <= Len(g)
      BY <1>1, <1>3, <3>1
    <3>3. Answered(g, i)
      BY <1>2, <2>1
    <3>4. g[i + n] = ResultMessage(CallsOf(g[i])[n])
      BY <2>1, <3>1, <3>2, <3>3 DEF Answered
    <3>5. QED
      BY <1>1, <2>1, <3>2, <3>4
  <2>4. ASSUME h[i].role = "result" PROVE Answers(h, i)
    <3>1. PICK j \in 1..(i - 1) : i - j <= Len(CallsOf(g[j]))
      BY <1>2, <2>1, <2>4 DEF Answers
    <3>2. g[j] = h[j]
      BY <1>1, <3>1
    <3>3. QED
      BY <3>1, <3>2 DEF Answers
  <2>5. QED
    BY <2>2, <2>3, <2>4
<1>5. Correlated(h)
  BY <1>4 DEF Correlated
<1>6. Len(h) + 1 \in 1..Len(g)
  BY <1>1
<1>7. DistinctIds(CallsOf(m))
  BY <1>1, <1>2, <1>6
<1>8. ASSUME m.role = "result" PROVE \E i \in 1..Len(h) : Open(h, i)
  <2>1. PICK j \in 1..((Len(h) + 1) - 1) : (Len(h) + 1) - j <= Len(CallsOf(g[j]))
    BY <1>1, <1>2, <1>6, <1>8 DEF Answers
  <2>2. j \in 1..Len(h) /\ g[j] = h[j] /\ Len(CallsOf(h[j])) \in Nat
    BY <1>1, <1>3, <2>1
  <2>3. Open(h, j)
    BY <1>1, <2>1, <2>2 DEF Open
  <2>4. QED
    BY <2>2, <2>3
<1>9. ASSUME NEW i \in 1..Len(h), Open(h, i)
      PROVE  m = ResultMessage(CallsOf(h[i])[(Len(h) - i) + 1])
  <2> DEFINE n == (Len(h) - i) + 1
  <2>1. n \in 1..Len(CallsOf(h[i])) /\ i + n = Len(h) + 1
    BY <1>1, <1>3, <1>9 DEF Open
  <2> HIDE DEF n
  <2>2. i \in 1..Len(g) /\ g[i] = h[i] /\ i + n <= Len(g)
    BY <1>1, <2>1
  <2>3. Answered(g, i)
    BY <1>2, <2>2
  <2>4. g[i + n] = ResultMessage(CallsOf(h[i])[n])
    BY <2>1, <2>2, <2>3 DEF Answered
  <2>5. QED
    BY <1>1, <2>1, <2>4 DEF n
<1>10. QED
  BY <1>5, <1>7, <1>8, <1>9

\* The verdict of the fold is the verdict of the rules, and what it carries is
\* what the history leaves.
ScanTells(scan, h) ==
    /\ scan \in Scan
    /\ scan.ok <=> Correlated(h)
    /\ scan.ok => \A rest \in Seq(Call) : Leaves(h, rest) <=> rest = scan.pending

LEMMA ScanTellsNone ==
    ScanTells([ok |-> TRUE, pending |-> << >>], << >>)
<1>1. << >> \in Seq(Call) /\ Len(<< >>) = 0
  OBVIOUS
<1>2. Correlated(<< >>)
  BY DEF Correlated
<1>3. \A rest \in Seq(Call) : Leaves(<< >>, rest) <=> rest = << >>
  BY DEF Leaves
<1>4. QED
  BY <1>1, <1>2, <1>3 DEF ScanTells, Scan

\* It is enough to know one list that the history leaves.
LEMMA ScanTellsOf ==
    ASSUME NEW h \in Seq(Message), Correlated(h),
           NEW pending \in Seq(Call), Leaves(h, pending)
    PROVE  ScanTells([ok |-> TRUE, pending |-> pending], h)
<1>1. \A rest \in Seq(Call) : Leaves(h, rest) <=> rest = pending
  BY LeavesOne
<1>2. QED
  BY <1>1 DEF ScanTells, Scan

LEMMA ScanTellsOn ==
    ASSUME NEW h \in Seq(Message), NEW scan, ScanTells(scan, h), NEW m \in Message
    PROVE  ScanTells(ScanMessage(scan, m), Append(h, m))
<1> DEFINE g == Append(h, m)
           next == ScanMessage(scan, m)
           pending == scan.pending
<1>1. /\ g \in Seq(Message) /\ Len(g) = Len(h) + 1 /\ Len(h) \in Nat
      /\ \A i \in 1..Len(h) : g[i] = h[i]
      /\ g[Len(h) + 1] = m
  OBVIOUS
<1>2. /\ scan \in Scan /\ scan.ok \in BOOLEAN /\ pending \in Seq(Call)
      /\ scan.ok <=> Correlated(h)
      /\ scan.ok => \A rest \in Seq(Call) : Leaves(h, rest) <=> rest = pending
  BY DEF ScanTells, Scan
<1>3. Reject \in Scan /\ ~Reject.ok
  BY DEF Reject, Scan
<1>4. ASSUME next = Reject, ~Correlated(g)
      PROVE  ScanTells(next, g)
  BY <1>3, <1>4 DEF ScanTells
<1>5. Correlated(g) =>
        /\ Correlated(h)
        /\ DistinctIds(CallsOf(m))
        /\ m.role = "result" => \E i \in 1..Len(h) : Open(h, i)
        /\ \A i \in 1..Len(h) : Open(h, i) =>
              m = ResultMessage(CallsOf(h[i])[(Len(h) - i) + 1])
  BY CorrelatedBefore
<1>6. CASE ~scan.ok
  <2>1. next = Reject
    BY <1>6 DEF ScanMessage
  <2>2. QED
    BY <1>2, <1>4, <1>5, <1>6, <2>1
<1>7. CASE scan.ok /\ m.role = "result"
  <2>1. next = IF pending # << >> /\ m.call = Head(pending)
               THEN [scan EXCEPT !.pending = Tail(@)] ELSE Reject
    BY <1>7 DEF ScanMessage
  <2>2. Correlated(h) /\ Leaves(h, pending)
    BY <1>2, <1>7
  <2>3. CASE pending # << >> /\ m.call = Head(pending)
    <3>1. next = [ok |-> TRUE, pending |-> Tail(pending)]
      BY <1>2, <1>7, <2>1, <2>3 DEF Scan
    <3>2. m = ResultMessage(pending[1])
      <4>1. m.call = pending[1] /\ m.role = "result"
        BY <1>2, <1>7, <2>3
      <4>2. m = [role |-> m.role, call |-> m.call]
        BY <1>7 DEF Message
      <4>3. QED
        BY <4>1, <4>2 DEF ResultMessage
    <3>3. 1 \in 1..Len(pending) /\ Len(pending) \in Nat
      BY <1>2, <2>3
    <3> HIDE DEF g, next, pending
    <3>4. \A k \in 1..1 : g[Len(h) + k] = ResultMessage(pending[k])
      BY <1>1, <3>2
    <3>5. Correlated(g) /\ Leaves(g, SubSeq(pending, 1 + 1, Len(pending)))
      BY <1>1, <1>2, <2>2, <3>3, <3>4, HistoryAnswers
    <3>6. SubSeq(pending, 1 + 1, Len(pending)) = Tail(pending) /\ Tail(pending) \in Seq(Call)
      BY <1>2, <2>3, <3>3
    <3>7. Leaves(g, Tail(pending))
      BY <3>5, <3>6
    <3>8. ScanTells(next, g)
      BY <1>1, <3>1, <3>5, <3>6, <3>7, ScanTellsOf
    <3>9. QED
      BY <3>8 DEF g, next
  <2>4. CASE ~(pending # << >> /\ m.call = Head(pending))
    <3>1. next = Reject
      BY <2>1, <2>4
    <3>2. ASSUME Correlated(g) PROVE FALSE
      <4>1. PICK i \in 1..Len(h) : Open(h, i)
        BY <1>5, <1>7, <3>2
      <4>2. m = ResultMessage(CallsOf(h[i])[(Len(h) - i) + 1])
        BY <1>5, <3>2, <4>1
      <4>3. /\ Unanswered(h, i) \in Seq(Call) /\ Unanswered(h, i) # << >>
            /\ Head(Unanswered(h, i)) = CallsOf(h[i])[(Len(h) - i) + 1]
            /\ Leaves(h, Unanswered(h, i))
        BY <4>1, OpenLeaves
      <4>4. Unanswered(h, i) = pending
        BY <1>2, <1>7, <4>3
      <4>5. m.call = Head(pending)
        BY <4>2, <4>3, <4>4 DEF ResultMessage
      <4>6. QED
        BY <2>4, <4>3, <4>4, <4>5
    <3>3. QED
      BY <1>4, <3>1, <3>2
  <2>5. QED
    BY <2>3, <2>4
<1>8. CASE scan.ok /\ m.role # "result"
  <2>1. next = IF pending = << >> /\ DistinctIds(CallsOf(m))
               THEN [scan EXCEPT !.pending = CallsOf(m)] ELSE Reject
    BY <1>8 DEF ScanMessage
  <2>2. Correlated(h) /\ Leaves(h, pending)
    BY <1>2, <1>8
  <2>3. CASE pending = << >> /\ DistinctIds(CallsOf(m))
    <3>1. next = [ok |-> TRUE, pending |-> CallsOf(m)]
      BY <1>2, <1>8, <2>1, <2>3 DEF Scan
    <3>2. Correlated(g) /\ Leaves(g, CallsOf(m))
      BY <1>8, <2>2, <2>3, HistoryTurns
    <3>3. CallsOf(m) \in Seq(Call)
      BY CallsType
    <3> HIDE DEF g, next
    <3>4. ScanTells(next, g)
      BY <1>1, <3>1, <3>2, <3>3, ScanTellsOf
    <3>5. QED
      BY <3>4 DEF g, next
  <2>4. CASE ~(pending = << >> /\ DistinctIds(CallsOf(m)))
    <3>1. next = Reject
      BY <2>1, <2>4
    <3>2. ASSUME Correlated(g) PROVE FALSE
      <4>1. pending # << >>
        BY <1>5, <2>4, <3>2
      <4>2. PICK i \in 1..Len(h) : Open(h, i)
        BY <1>2, <2>2, <4>1, LeavesOpen
      <4>3. m.role = "result"
        BY <1>5, <3>2, <4>2 DEF ResultMessage
      <4>4. QED
        BY <1>8, <4>3
    <3>3. QED
      BY <1>4, <3>1, <3>2
  <2>5. QED
    BY <2>3, <2>4
<1>9. QED
  BY <1>6, <1>7, <1>8

LEMMA ScanTellsAll ==
    ASSUME NEW h \in Seq(Message)
    PROVE  ScanTells(PendingHistoryCalls(h), h)
<1> DEFINE start == [ok |-> TRUE, pending |-> << >>]
           F == {n \in Nat : \A q \in Seq(Message) :
                    Len(q) = n => ScanTells(ScanAll(start, q), q)}
<1>1. 0 \in F
  <2>1. ScanAll(start, << >>) = start
    <3>1. << >> \in Seq(Message) /\ UserMessage \in Message
      BY DEF Message, UserMessage
    <3>2. QED
      BY <3>1, ScanOneByOne
  <2>2. \A q \in Seq(Message) : Len(q) = 0 => q = << >>
    OBVIOUS
  <2>3. QED
    BY <2>1, <2>2, ScanTellsNone
<1>2. ASSUME NEW n \in F PROVE n + 1 \in F
  <2>1. SUFFICES ASSUME NEW q \in Seq(Message), Len(q) = n + 1
                 PROVE  ScanTells(ScanAll(start, q), q)
    BY <1>2
  <2> DEFINE front == SubSeq(q, 1, n)
             m == q[n + 1]
  <2>2. n \in Nat /\ m \in Message /\ front \in Seq(Message) /\ Len(front) = n
        /\ q = Append(front, m)
    BY <1>2, <2>1
  <2> HIDE DEF front, m, start
  <2>3. ScanTells(ScanAll(start, front), front)
    BY <1>2, <2>2
  <2>4. ScanAll(start, Append(front, m)) =
           ScanMessage(ScanAll(start, front), m)
    BY <2>2, ScanOneByOne
  <2>5. QED
    BY <2>2, <2>3, <2>4, ScanTellsOn
<1>3. F = Nat
  <2> HIDE DEF F
  <2>1. F \in SUBSET Nat
    BY DEF F
  <2>2. QED
    BY <1>1, <1>2, <2>1, NatSetInduction
<1>4. Len(h) \in Nat
  OBVIOUS
<1>5. QED
  BY <1>3, <1>4 DEF PendingHistoryCalls, ScanAll

\* For a history of any length, the fold that the code runs over it (the loop
\* of validate_history and validate_effect_state_history) accepts exactly the
\* histories that keep the rules of correlation, and carries exactly the calls
\* that the history leaves open.  The modules state the rules; the code computes the fold.
THEOREM FoldComputesRules ==
    \A history \in Seq(Message) : FoldAgrees(history)
<1> TAKE history \in Seq(Message)
<1> DEFINE scan == PendingHistoryCalls(history)
           rests == {<< >>} \cup {SubSeq(CallsOf(history[i]), n, Len(CallsOf(history[i]))) :
                                    i \in 1..Len(history), n \in 1..Len(history)}
<1>1. ScanTells(scan, history)
  BY ScanTellsAll
<1>2. rests \subseteq Seq(Call)
  <2>1. ASSUME NEW i \in 1..Len(history), NEW n \in 1..Len(history)
        PROVE  SubSeq(CallsOf(history[i]), n, Len(CallsOf(history[i]))) \in Seq(Call)
    BY CallsAtType
  <2>2. ASSUME NEW rest \in rests PROVE rest \in Seq(Call)
    <3>1. CASE rest = << >>
      BY <3>1
    <3>2. CASE rest # << >>
      <4>1. PICK i \in 1..Len(history), n \in 1..Len(history) :
                rest = SubSeq(CallsOf(history[i]), n, Len(CallsOf(history[i])))
        BY <2>2, <3>2
      <4>2. QED
        BY <2>1, <4>1
    <3>3. QED
      BY <3>1, <3>2
  <2>3. QED
    BY <2>2
<1> HIDE DEF scan, rests
<1>3. /\ scan.ok <=> Correlated(history)
      /\ scan.ok => \A rest \in rests : Leaves(history, rest) <=> rest = scan.pending
  BY <1>1, <1>2 DEF ScanTells
<1>4. QED
  BY <1>3 DEF FoldAgrees, scan, rests
=============================================================================
