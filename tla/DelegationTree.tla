--------------------------- MODULE DelegationTree ---------------------------
(***************************************************************************)
(* A run and the child runs it delegates to, to any depth: DelegationTool  *)
(* (crates/agentive/src/subagent.rs) starts a child agent as a run of its  *)
(* own, with a share of the parent's budget, a token of its own and a      *)
(* ledger that the parent merges when the delegation commits.              *)
(*                                                                         *)
(* LocalRun looks at one run in detail and takes its children for          *)
(* anything; here every run of the tree is an AgentRunState driven by the  *)
(* same loop, reduced to the steps that spend budget, start children or    *)
(* stop.  A run is named by its path from the root, whose length is its    *)
(* delegation depth.  Time is left out, and every provider call reports    *)
(* full usage, so that only delegation can make a ledger incomplete.       *)
(***************************************************************************)
EXTENDS RunState, SequencesExt, Functions

CONSTANTS
    RootPlans,   \* the plans the root may run with
    TreeResponses,   \* the tool-call lists a provider may answer with
    MaxDepth,    \* plan.max_delegation_depth, which children inherit
    MaxParallel  \* plan.max_parallel_tool_calls; no batch here is longer

ASSUME TreeAssumption ==
    /\ RootPlans \subseteq Plan
    /\ \A calls \in TreeResponses : calls \in Seq(Call) /\ Len(calls) \in 1..MaxParallel
    /\ MaxDepth \in Nat

VARIABLE tree   \* the runs started so far, by path

Root == << >>

Runs == DOMAIN tree

\* A call of the executing tool effect; child is the run it started, Root when
\* it started none.
Queued == [stage |-> "queued", child |-> Root, usage |-> EmptyUsage]

\* made and tokens are what the run's own provider calls have used, committed
\* or not; started is how many children it had.
NewRun(plan) ==
    [state |-> NewState(plan, <<UserMessage>>),
     stage |-> "top",
     attempt |-> 0,
     members |-> << >>,
     started |-> 0,
     cancelled |-> FALSE,
     dropped |-> FALSE,
     made |-> 0,
     tokens |-> 0]

TreeInit == \E plan \in RootPlans : tree = [p \in {Root} |-> NewRun(plan)]

Replace(p, run) == tree' = [tree EXCEPT ![p] = run]

Returned(run, s) ==
    [run EXCEPT !.state = s, !.stage = "returned", !.attempt = 0, !.members = << >>]

-----------------------------------------------------------------------------
(* The loop of one run. *)

CancelRoot ==
    /\ tree[Root].stage # "returned"
    /\ ~tree[Root].cancelled
    /\ tree' = [tree EXCEPT ![Root].cancelled = TRUE]

StopCancelled(p) ==
    /\ tree[p].stage = "top"
    /\ tree[p].cancelled
    /\ Replace(p, Returned(tree[p], Cancel(tree[p].state)))

AtTop(p) == tree[p].stage = "top" /\ ~tree[p].cancelled

Stop(p) ==
    /\ AtTop(p)
    /\ Exhausted(tree[p].state) \/ tree[p].state.status \in Terminal
    /\ Replace(p, Returned(tree[p], FinishIfExhausted(tree[p].state)))

Reserved(p) == NextModelTokenReservation(tree[p].state)

ToProvider(p) ==
    /\ AtTop(p)
    /\ ~Exhausted(tree[p].state)
    /\ NextEffect(tree[p].state).kind = "provider"

ExhaustTokens(p) ==
    /\ ToProvider(p)
    /\ OverTokenBudget(tree[p].state, Reserved(p))
    /\ Replace(p, [tree[p] EXCEPT !.state = CommitBudgetExhausted(@, NextEffect(@))])

Attempt(p, n) ==
    Replace(p, [tree[p] EXCEPT !.stage = "calling", !.attempt = n, !.made = @ + 1,
                              !.tokens = @ + Reserved(p)])

CallProvider(p) ==
    /\ ToProvider(p)
    /\ ~OverTokenBudget(tree[p].state, Reserved(p))
    /\ Attempt(p, 1)

\* Also a call that waits out its backoff, as far as cancellation goes.
Calling(p) == tree[p].stage = "calling"

RetryProvider(p) ==
    /\ Calling(p)
    /\ MayAttempt(tree[p].state, Reserved(p), tree[p].attempt + 1)
    /\ Attempt(p, tree[p].attempt + 1)

Attempted(p) == [count |-> tree[p].attempt, reserved |-> Reserved(p), measured |-> TRUE]

Answer(p) ==
    /\ Calling(p)
    /\ ~tree[p].cancelled
    /\ \E calls \in TreeResponses \cup {<< >>} :
          Replace(p, [tree[p] EXCEPT !.stage = "top", !.attempt = 0,
                        !.state = CommitProviderResponse(@, NextEffect(@), calls, calls = << >>,
                                                         Attempted(p))])

CallFails(p) ==
    /\ Calling(p)
    /\ Replace(p, [tree[p] EXCEPT !.stage = "top", !.attempt = 0,
                     !.state = CommitProviderFailure(@, NextEffect(@), Attempted(p))])

\* A response that breaks the protocol: the run returns an error, and its
\* handle keeps the usage of the last commit.
ProviderMisbehaves(p) ==
    /\ Calling(p)
    /\ ~tree[p].cancelled
    /\ Replace(p, Returned(tree[p], Fail(tree[p].state)))

SeeCancel(p) ==
    /\ Calling(p)
    /\ tree[p].cancelled
    /\ Replace(p, Returned(tree[p], Cancel(tree[p].state)))

-----------------------------------------------------------------------------
(* Tool effects and their delegations. *)

StartTools(p) ==
    /\ AtTop(p)
    /\ ~Exhausted(tree[p].state)
    /\ NextEffect(tree[p].state).kind \in {"tool", "tool-batch"}
    /\ LET s == tree[p].state
           n == IF NextEffect(s).kind = "tool-batch" THEN Len(s.pending_tools) ELSE 1
       IN  Replace(p, [tree[p] EXCEPT !.stage = "tools", !.members = [i \in 1..n |-> Queued]])

Members(p) == DOMAIN tree[p].members

Delegates(p, i) == tree[p].state.pending_tools[i].tool \in Delegating

InTools(p, i, stage) ==
    /\ tree[p].stage = "tools"
    /\ i \in Members(p)
    /\ tree[p].members[i].stage = stage

\* The members are polled in order.
Startable(p, i) ==
    /\ InTools(p, i, "queued")
    /\ \A j \in 1..(i - 1) : tree[p].members[j].stage # "queued"

MemberDone(p, i, usage) ==
    tree' = [tree EXCEPT ![p].members[i].stage = "done", ![p].members[i].usage = usage]

HasShare(s) ==
    /\ DelegatedCalls(s) > 0
    /\ s.plan.token_limit # Unset => DelegatedTokens(s) > 0

\* Too deep, or no budget to hand on; its share is reserved all the same.
RefuseDelegation(p, i) ==
    /\ Startable(p, i)
    /\ Delegates(p, i)
    /\ Len(p) >= MaxDepth \/ ~HasShare(tree[p].state)
    /\ MemberDone(p, i, EmptyUsage)

SharePlan(s) ==
    [s.plan EXCEPT !.model_call_limit = DelegatedCalls(s),
                   !.token_limit = IF @ = Unset THEN Unset ELSE DelegatedTokens(s)]

StartChild(p, i) ==
    /\ Startable(p, i)
    /\ Delegates(p, i)
    /\ Len(p) < MaxDepth
    /\ HasShare(tree[p].state)
    /\ LET child == Append(p, tree[p].started + 1) IN
       tree' = [q \in Runs \cup {child} |->
                  IF q = child
                  THEN NewRun(SharePlan(tree[p].state))
                  ELSE IF q = p
                       THEN [tree[p] EXCEPT !.started = @ + 1,
                                            !.members[i].stage = "running",
                                            !.members[i].child = child]
                       ELSE tree[q]]

StartTool(p, i) ==
    /\ Startable(p, i)
    /\ ~Delegates(p, i)
    /\ tree' = [tree EXCEPT ![p].members[i].stage = "running"]

ToolDone(p, i) ==
    /\ InTools(p, i, "running")
    /\ ~Delegates(p, i)
    /\ MemberDone(p, i, EmptyUsage)

\* A completed child hands over its result's usage, any other the snapshot of
\* its handle: both are the usage of its state.
ChildReturns(p, i) ==
    /\ InTools(p, i, "running")
    /\ Delegates(p, i)
    /\ LET child == tree[tree[p].members[i].child] IN
       /\ child.stage = "returned"
       /\ MemberDone(p, i, child.state.usage)

\* Faulty variant: only the root tells its children that it was cancelled.
TellChildOfRoot(p, i) ==
    /\ p = Root
    /\ InTools(p, i, "running")
    /\ Delegates(p, i)
    /\ tree[p].cancelled
    /\ ~tree[tree[p].members[i].child].cancelled
    /\ tree' = [tree EXCEPT ![tree[p].members[i].child].cancelled = TRUE]

\* handle.cancel_with(Parent); the delegation then waits for the child.
TellChild(p, i) ==
    /\ InTools(p, i, "running")
    /\ Delegates(p, i)
    /\ tree[p].cancelled
    /\ ~tree[tree[p].members[i].child].cancelled
    /\ tree' = [tree EXCEPT ![tree[p].members[i].child].cancelled = TRUE]

\* An ordinary tool ends the whole effect when the run is cancelled: the
\* delegations polled before it have told their children, those after it are
\* dropped with their children running.
ToolCancelled(p, i) ==
    /\ InTools(p, i, "running")
    /\ ~Delegates(p, i)
    /\ tree[p].cancelled
    /\ \A j \in 1..(i - 1) : InTools(p, j, "running") => Delegates(p, j)
    /\ LET Children(js) == {tree[p].members[j].child : j \in {k \in js : InTools(p, k, "running")}} IN
       tree' = [q \in Runs |->
                  CASE q = p -> Returned(tree[p], Cancel(tree[p].state))
                    [] q # p /\ q \in Children(1..(i - 1)) -> [tree[q] EXCEPT !.cancelled = TRUE]
                    [] q # p /\ q \in Children(Members(p)) \ Children(1..(i - 1)) ->
                          [tree[q] EXCEPT !.dropped = TRUE]
                    [] OTHER -> tree[q]]

\* The usage of all members, merged: their entries, and whether all are complete.
MembersUsage(p) ==
    [calls |-> SumFunction([i \in Members(p) |-> tree[p].members[i].usage.calls]),
     complete |-> \A i \in Members(p) : tree[p].members[i].usage.complete]

CommitTools(p) ==
    /\ tree[p].stage = "tools"
    /\ \A i \in Members(p) : tree[p].members[i].stage = "done"
    /\ LET s == tree[p].state
           effect == NextEffect(s)
       IN  Replace(p, [tree[p] EXCEPT
                        !.stage = "top",
                        !.members = << >>,
                        !.state = IF effect.kind = "tool"
                                  THEN CommitTool(s, effect, MembersUsage(p))
                                  ELSE CommitBatch(s, effect, Len(tree[p].members),
                                                   MembersUsage(p))])

-----------------------------------------------------------------------------

\* What a run does of its own accord, without waiting for a provider or a tool.
TaskStep(p) ==
    \/ StopCancelled(p)
    \/ Stop(p)
    \/ ExhaustTokens(p)
    \/ CallProvider(p)
    \/ SeeCancel(p)
    \/ StartTools(p)
    \/ CommitTools(p)
    \/ \E i \in Members(p) :
          \/ RefuseDelegation(p, i)
          \/ StartChild(p, i)
          \/ StartTool(p, i)
          \/ ChildReturns(p, i)
          \/ TellChild(p, i)
          \/ ToolCancelled(p, i)

OutsideStep(p) ==
    \/ RetryProvider(p)
    \/ Answer(p)
    \/ CallFails(p)
    \/ ProviderMisbehaves(p)
    \/ \E i \in Members(p) : ToolDone(p, i)

\* The root has returned, and with it every run but those it abandoned.
Rest ==
    /\ tree[Root].stage = "returned"
    /\ UNCHANGED tree

TreeNext ==
    \/ CancelRoot
    \/ Rest
    \/ \E p \in Runs : TaskStep(p) \/ OutsideStep(p)

TreeSpec == TreeInit /\ [][TreeNext]_tree

\* Every run is a task of its own that the scheduler polls again once woken.
\* No behaviour repeats a state, so fairness to some task is fairness to all.
TreeLiveSpec == TreeSpec /\ WF_tree(\E p \in Runs : TaskStep(p))

-----------------------------------------------------------------------------
(* Properties. *)

Subtree(p) == {q \in Runs : IsPrefix(p, q)}

CallsMade(p) == SumFunction([q \in Subtree(p) |-> tree[q].made])

TokensUsed(p) == SumFunction([q \in Subtree(p) |-> tree[q].tokens])

\* A run and everything below it, however deep and however often retried, stay
\* within the run's own model-call and token limits, with the calls in flight
\* counted before anything of them is committed (delegation_budget,
\* reserve_delegation, allowed_attempts).
TreeWithinLimits ==
    \A p \in Runs :
        /\ CallsMade(p) <= tree[p].state.plan.model_call_limit
        /\ \/ tree[p].state.plan.token_limit = Unset
           \/ TokensUsed(p) <= tree[p].state.plan.token_limit

Abandoned(p) == \E q \in Runs : IsPrefix(q, p) /\ tree[q].dropped

\* Once the root is cancelled every run of the tree returns, down to the
\* deepest child, although each level learns of it only from its parent's
\* delegation (DelegationTool::execute, cancel_with(Parent)); except below a
\* delegation that was dropped together with an ordinary tool of its batch.
TreeStops ==
    tree[Root].cancelled ~>
        \A p \in Runs : tree[p].stage = "returned" \/ Abandoned(p)

\* SPEC.md:178: "Missing measurements remain unknown and mark aggregates
\* incomplete."  A completed root whose usage calls itself complete has an
\* entry for every provider call of the tree.
TreeLedgerHonest ==
    tree[Root].state.status = "completed" /\ tree[Root].state.usage.complete =>
        tree[Root].state.usage.calls = CallsMade(Root)
=============================================================================
