------------------------------ MODULE RunState ------------------------------
(***************************************************************************)
(* The serializable run state of crates/agentive/src/state: AgentRunState  *)
(* as a record value, and its methods as operators from a state to a       *)
(* state.  The state machine itself performs no work: next_effect names    *)
(* the one effect a runtime may execute, and commit_effect consumes its    *)
(* outcome.  Every runtime (the local loop, the Temporal workflow, a host  *)
(* that drives the public API) uses these operators.                       *)
(*                                                                         *)
(* Data is kept only as far as it decides control.  A message is its role  *)
(* and its correlation ids; a request is its size; a tool is its name,     *)
(* and the plan's registry is the four sets below.  The saturating u32 and *)
(* u64 additions of the code are plain additions: every sum here is only   *)
(* compared with a limit of the same width, and a saturated sum is at      *)
(* least the limit exactly when the true sum is.                           *)
(***************************************************************************)
EXTENDS Integers, Sequences, FiniteSets

CONSTANTS
    CallId,          \* the tool-call ids a provider may use
    ToolName,        \* the tool names a provider may emit, known or not
    Registered,      \* the tools of plan.tools; the others have no policy
    ParallelSafe,    \* registered tools with policy.parallel_safe
    Delegating,      \* registered tools with policy.delegation
    RequestTokens,   \* size bound of a request with an empty history, plus max_output_tokens
    MessageTokens    \* size bound added by each message of the history

ASSUME RegistryAssumption ==
    /\ Registered \subseteq ToolName
    /\ ParallelSafe \subseteq Registered
    /\ Delegating \subseteq Registered

\* An encoded request is never empty, so its reservation is never zero.
ASSUME TokensAssumption ==
    /\ RequestTokens \in Nat \ {0}
    /\ MessageTokens \in Nat

-----------------------------------------------------------------------------
(* The data.  Unset stands for the None of an optional limit. *)

Unset == -1

Status == {"pending", "running", "completed", "incomplete", "failed", "cancelled"}

Live == {"pending", "running"}

Terminal == Status \ Live

\* A tool call the provider asked for: its id and the tool it names.
Call == [id : CallId, tool : ToolName]

\* A message of the canonical history, as far as correlation needs it.
Message ==
    [role : {"user", "text"}]
        \cup [role : {"calls"}, calls : Seq(Call)]
        \cup [role : {"result"}, call : Call]

UserMessage == [role |-> "user"]

TextMessage == [role |-> "text"]

CallsMessage(calls) == [role |-> "calls", calls |-> calls]

ResultMessage(call) == [role |-> "result", call |-> call]

\* The limits of budget and plan that the state machine reads.
Plan == [model_call_limit : Nat,
         token_limit : Nat \cup {Unset},
         deadline_ms : Nat \cup {Unset},
         provider_max_attempts : Nat \ {0}]

\* How many calls the usage ledger attributes, and whether all were measured.
RunUsage == [calls : Nat, complete : BOOLEAN]

EmptyUsage == [calls |-> 0, complete |-> TRUE]

AgentRunState ==
    [plan : Plan,
     history : Seq(Message),
     usage : RunUsage,
     model_calls : Nat,
     provider_calls_started : Nat,
     elapsed_ms : Nat,
     reserved_child_model_calls : Nat,
     reserved_tokens : Nat,
     pending_tools : Seq(Call),
     status : Status,
     text : BOOLEAN,
     error : BOOLEAN]

NewState(plan, history) ==
    [plan |-> plan,
     history |-> history,
     usage |-> EmptyUsage,
     model_calls |-> 0,
     provider_calls_started |-> 0,
     elapsed_ms |-> 0,
     reserved_child_model_calls |-> 0,
     reserved_tokens |-> 0,
     pending_tools |-> << >>,
     status |-> "pending",
     text |-> FALSE,
     error |-> FALSE]

-----------------------------------------------------------------------------
(* Admission: what is left of the budgets. *)

MaxOf(a, b) == IF a >= b THEN a ELSE b

\* saturating_sub
Minus(a, b) == IF a >= b THEN a - b ELSE 0

\* Provider calls charged to this run: its own attempts and its children's shares.
ChargedCalls(s) ==
    MaxOf(s.provider_calls_started, s.model_calls) + s.reserved_child_model_calls

RemainingCalls(s) == Minus(s.plan.model_call_limit, ChargedCalls(s))

RemainingTokens(s) == Minus(s.plan.token_limit, s.reserved_tokens)

NoProviderBudget(s) ==
    \/ ChargedCalls(s) >= s.plan.model_call_limit
    \/ /\ s.plan.token_limit # Unset
       /\ s.reserved_tokens >= s.plan.token_limit

\* The conservative size of the next request, which carries the whole history.
NextModelTokenReservation(s) == RequestTokens + MessageTokens * Len(s.history)

-----------------------------------------------------------------------------
(* Effects.  An effect identity is its kind and the key that the code      *)
(* formats into the id: the round of a provider call, the provider's call  *)
(* id for a tool.  The run id is common to all ids of a run.               *)

NoEffect == [kind |-> "none", key |-> Unset]

ProviderEffect(round) == [kind |-> "provider", key |-> round]

ToolEffect(id) == [kind |-> "tool", key |-> id]

BatchEffect(id) == [kind |-> "tool-batch", key |-> id]

Batchable(s) ==
    /\ Len(s.pending_tools) > 1
    /\ \A i \in 1..Len(s.pending_tools) : s.pending_tools[i].tool \in ParallelSafe

\* Faulty variant: a terminal run still asks for its next effect.
NextEffectAfterEnd(s) ==
    IF s.pending_tools # << >>
    THEN ToolEffect(s.pending_tools[1].id)
    ELSE IF NoProviderBudget(s) THEN NoEffect ELSE ProviderEffect(s.model_calls)

NextEffect(s) ==
    IF s.status \notin Live
    THEN NoEffect
    ELSE IF s.pending_tools # << >>
         THEN IF Batchable(s)
              THEN BatchEffect(s.pending_tools[1].id)
              ELSE ToolEffect(s.pending_tools[1].id)
         ELSE IF NoProviderBudget(s)
              THEN NoEffect
              ELSE ProviderEffect(s.model_calls)

\* The pending calls that delegate to a child agent.
PendingDelegations(s) ==
    {i \in 1..Len(s.pending_tools) : s.pending_tools[i].tool \in Delegating}

\* Faulty variant: the children share everything that is left.
SharesForChildren(s) == MaxOf(Cardinality(PendingDelegations(s)), 1)

\* One share for each pending delegation and one for the parent itself.
Shares(s) == Cardinality(PendingDelegations(s)) + 1

DelegatedCalls(s) == RemainingCalls(s) \div Shares(s)

DelegatedTokens(s) ==
    IF s.plan.token_limit = Unset THEN 0 ELSE RemainingTokens(s) \div Shares(s)

-----------------------------------------------------------------------------
(* Admission of a provider effect by the executor, which reads the state   *)
(* once before the first attempt.  bound is the provider's own token bound *)
(* for the request with its output reserve; it exists whenever the plan    *)
(* has a token limit.                                                      *)

Reservation(s, bound) ==
    IF s.plan.token_limit = Unset THEN NextModelTokenReservation(s) ELSE bound

OverTokenBudget(s, reservation) ==
    s.plan.token_limit # Unset /\ reservation > RemainingTokens(s)

\* Faulty variants: attempts limited by the budgets only, by the policy and
\* tokens, or by the policy and calls.
MayAttemptPastPolicy(s, reservation, n) ==
    /\ n <= RemainingCalls(s)
    /\ \/ s.plan.token_limit = Unset
       \/ n <= RemainingTokens(s) \div MaxOf(reservation, 1)

MayAttemptPastCalls(s, reservation, n) ==
    /\ n <= s.plan.provider_max_attempts
    /\ \/ s.plan.token_limit = Unset
       \/ n <= RemainingTokens(s) \div MaxOf(reservation, 1)

MayAttemptPastTokens(s, reservation, n) ==
    /\ n <= s.plan.provider_max_attempts
    /\ n <= RemainingCalls(s)

\* min(provider_max_attempts, remaining calls, remaining tokens / reservation)
MayAttempt(s, reservation, n) ==
    /\ n <= s.plan.provider_max_attempts
    /\ n <= RemainingCalls(s)
    /\ \/ s.plan.token_limit = Unset
       \/ n <= RemainingTokens(s) \div MaxOf(reservation, 1)

-----------------------------------------------------------------------------
(* Terminal transitions: the first one wins. *)

\* Faulty variant: the ledger of a cancelled run stays complete.
CancelKeepsLedger(s) ==
    IF s.status \in Live THEN [s EXCEPT !.status = "cancelled"] ELSE s

Cancel(s) ==
    IF s.status \in Live
    THEN [s EXCEPT !.status = "cancelled", !.usage.complete = FALSE]
    ELSE s

Fail(s) ==
    IF s.status \in Live
    THEN [s EXCEPT !.status = "failed", !.error = TRUE]
    ELSE s

DeadlineReached(s) ==
    /\ s.plan.deadline_ms # Unset
    /\ s.elapsed_ms >= s.plan.deadline_ms

\* Faulty variant: exhaustion does not wait for the pending tools.
ExhaustedBeforeTools(s) ==
    /\ s.status \in Live
    /\ DeadlineReached(s) \/ NoProviderBudget(s)

\* The condition on which finish_if_exhausted reports a transition.
Exhausted(s) ==
    /\ s.status \in Live
    /\ \/ DeadlineReached(s)
       \/ s.pending_tools = << >> /\ NoProviderBudget(s)

FinishIfExhausted(s) ==
    IF ~Exhausted(s)
    THEN s
    ELSE IF DeadlineReached(s)
         THEN Cancel(s)
         ELSE [s EXCEPT !.status = "incomplete", !.usage.complete = FALSE]

\* Faulty variant: elapsed time is taken off instead of added.
RecordElapsedBackwards(s, ms) == [s EXCEPT !.elapsed_ms = @ - ms]

RecordElapsed(s, ms) == [s EXCEPT !.elapsed_ms = @ + ms]

-----------------------------------------------------------------------------
(* Provider outcomes.  The attempts of one effect all carry the reservation *)
(* computed before the first of them, so a list of attempts is its length,  *)
(* that reservation, and whether every attempt reported full usage.  A      *)
(* count of 0 is the empty list of commit_provider_response.                *)

Attempts == [count : Nat, reserved : Nat, measured : BOOLEAN]

CallCount(attempts) == MaxOf(attempts.count, 1)

ReservationFor(s, attempts) ==
    IF attempts.count > 0 /\ attempts.reserved > 0
    THEN attempts.count * attempts.reserved
    ELSE NextModelTokenReservation(s) * CallCount(attempts)

\* The accounting common to an answered and a failed provider effect.
ChargeProvider(s, attempts) ==
    [s EXCEPT !.reserved_tokens = @ + ReservationFor(s, attempts),
              !.provider_calls_started = MaxOf(@, s.model_calls) + CallCount(attempts),
              !.model_calls = @ + 1,
              !.usage = [calls |-> @.calls + CallCount(attempts),
                         complete |-> @.complete /\ attempts.measured]]

\* Faulty variant: the answer is not pushed onto the history.
AcceptWithoutAnswer(s, calls, text) ==
    IF calls # << >>
    THEN [s EXCEPT !.status = "running",
                   !.history = Append(@, CallsMessage(calls)),
                   !.pending_tools = calls]
    ELSE IF text
         THEN [s EXCEPT !.text = TRUE, !.status = "completed"]
         ELSE [s EXCEPT !.status = "incomplete", !.usage.complete = FALSE]

\* A response is the tool calls it asks for and whether it carries final text.
AcceptResponse(s, calls, text) ==
    LET charged == [s EXCEPT !.status = "running"] IN
    IF calls # << >>
    THEN [charged EXCEPT !.history = Append(@, CallsMessage(calls)),
                         !.pending_tools = calls]
    ELSE IF text
         THEN [charged EXCEPT !.history = Append(@, TextMessage),
                              !.text = TRUE,
                              !.status = "completed"]
         ELSE [charged EXCEPT !.status = "incomplete", !.usage.complete = FALSE]

\* Faulty variant: the kind of the effect is compared and not its identity.
ExpectedKind(s, effect) == effect # NoEffect /\ effect.kind = NextEffect(s).kind

\* expect_effect and expect_batch: only the effect that is next may complete.
Expected(s, effect) == effect # NoEffect /\ effect = NextEffect(s)

CommitProviderResponse(s, effect, calls, text, attempts) ==
    IF effect.kind = "provider" /\ Expected(s, effect)
    THEN AcceptResponse(ChargeProvider(s, attempts), calls, text)
    ELSE s

CommitProviderFailure(s, effect, attempts) ==
    IF effect.kind = "provider" /\ Expected(s, effect)
    THEN Fail(ChargeProvider(s, attempts))
    ELSE s

CommitBudgetExhausted(s, effect) ==
    IF effect.kind = "provider" /\ Expected(s, effect)
    THEN [s EXCEPT !.status = "incomplete", !.usage.complete = FALSE]
    ELSE s

-----------------------------------------------------------------------------
(* Tool outcomes.  child is the usage of the child runs behind the effect; *)
(* EmptyUsage for an ordinary tool, whose merge changes nothing.           *)

MergeChild(usage, child) ==
    [calls |-> usage.calls + child.calls, complete |-> usage.complete /\ child.complete]

\* Faulty variant: a batch of delegations reserves a single share.
ReserveOneShare(s, n) ==
    IF n = 0
    THEN s
    ELSE [s EXCEPT !.reserved_child_model_calls = @ + DelegatedCalls(s),
                   !.reserved_tokens = @ + DelegatedTokens(s)]

ReserveChildren(s, n) ==
    [s EXCEPT !.reserved_child_model_calls = @ + n * DelegatedCalls(s),
              !.reserved_tokens = @ + n * DelegatedTokens(s)]

\* Faulty variant: the newest call is taken off instead of the one that returned.
CommitToolNewest(s, effect, child) ==
    IF effect.kind = "tool" /\ Expected(s, effect)
    THEN [s EXCEPT !.usage = MergeChild(@, child),
                   !.history = Append(@, ResultMessage(s.pending_tools[1])),
                   !.pending_tools = SubSeq(@, 1, Len(@) - 1)]
    ELSE s

CommitTool(s, effect, child) ==
    IF effect.kind = "tool" /\ Expected(s, effect)
    THEN LET call == s.pending_tools[1]
             n == IF call.tool \in Delegating THEN 1 ELSE 0
         IN  [ReserveChildren(s, n) EXCEPT
                 !.usage = MergeChild(@, child),
                 !.history = Append(@, ResultMessage(call)),
                 !.pending_tools = Tail(@)]
    ELSE s

\* The members' reservations are taken before the first of them is committed,
\* and the results enter the history in provider order.
CommitBatch(s, effect, outputs, child) ==
    IF effect.kind = "tool-batch" /\ Expected(s, effect) /\ outputs = Len(s.pending_tools)
    THEN [ReserveChildren(s, Cardinality(PendingDelegations(s))) EXCEPT
             !.usage = MergeChild(@, child),
             !.history = @ \o [i \in 1..Len(s.pending_tools) |->
                                 ResultMessage(s.pending_tools[i])],
             !.pending_tools = << >>]
    ELSE s
=============================================================================
