# Agentive: verification project

TLA+ models of the agent runtime in this repository, the TLC configurations
that check them on small instances, and the TLAPS proofs that carry the most
important results to every instance. Paths below are relative to
`crates/agentive/src` unless they say otherwise.

## 1. The system

Agentive is an SDK for running LLM agents. An agent alternates provider calls
and tool calls until the provider answers, a budget is used up, or somebody
cancels. The whole loop is a serializable state machine; runtimes execute the
effects it asks for.

| Component | State | Operations | Talks to |
| --- | --- | --- | --- |
| Run state machine (`state/`) | `AgentRunState`: plan, history, usage, counters and reservations, pending tool calls, status, text, error | `next_effect`, `commit_effect` and the commit methods behind it, `cancel`, `fail`, `record_elapsed`, `finish_if_exhausted` | driven by the local loop, the Temporal workflow, or a host |
| Validation (`run/validation.rs`) | none: folds over histories and responses | `validate_history`, `validate_effect_state_history`, `validate_model_response`, `validate_context` | both runtimes, before they trust a history, a snapshot or an answer |
| Local run loop (`run/local.rs`, `run/agent.rs`) | the task's locals: state, records, start time; shared: status, usage, cancellation token, event bus, result channel | `execute_run`, the spawned task, `finish_cancelled`, `finish_with_usage` | state machine, effect execution, event bus, handle |
| Effect execution (`run/effects.rs`) | per attempt: number, start time, timers; the list of attempts; reservation | `execute_provider`, `execute_one_tool`, `execute_tool_effect`, chunks of a batch, `wait_for_retry` | provider, tools, children, cancellation token |
| Run handle (`run/handle.rs`) | clones of the shared values | `status`, `cancel`, `wait`, `usage`, `events` | caller |
| Event bus (`run/handle.rs`) | observers, attached receiver, closed flag, parent bus | `subscribe`, `take_attached`, `detach_attached`, `emit`, `close` | run tasks emit, callers receive, child buses forward |
| Cancellation token (`tool/context.rs`) | reason under a mutex, flag, notifier | `cancel`, `is_cancelled`, `cancelled` | everything that waits |
| Usage (`usage.rs`) | aggregate, completeness, per-call list | `add_call`, `merge_child` | state machine |
| Delegation (`subagent.rs`) | a child run handle | `DelegationTool::execute` | a child run with a share of the budget |
| Provider streaming, router (`run/provider.rs`, `model/router.rs`) | last usage event of the stream, visible-output flag | `execute_provider_effect`, admission, route per attempt | provider, event bus |
| Temporal runtime (`crates/temporal/src/runtime`) | workflow input: state, config, counters; query snapshot; cached terminal state of a handle | workflow loop, activity, `start`, `observe`, `result`, `cancel` | state machine in replayed code, effect execution in activities |
| Payload storage and pipeline (`crates/temporal/src`) | immutable objects; codec chain, limits, fingerprints | `create_immutable`, `read`, `encode`, `decode`, batches | file system, Temporal data converter |
| Codec server (`crates/temporal/src/server.rs`) | none | one HTTP request, one `decode_batch` | pipeline |
| Codex runtime (`crates/codex/src`) | session process, phase, interrupt flag, collected text and usage | `run_cancellable`, `collect_turn`, tool callbacks, shutdown | an external server over a line protocol |
| Macros, schemas, ids, messages, errors, test crate | none that changes | derive, parse, check | compile time and data |

What is hard in it:

* **Budgets shared by many actors.** Attempts of the executor, committed calls
  of the state machine and shares of delegated children draw on one limit, and
  each is computed in a different file.
* **Races of one outcome against cancellation and deadline**, at every attempt,
  at every backoff, at every member of a batch, and once more after a commit.
* **Correlation.** Outcomes are matched to effects by identity, and results to
  calls by provider order; a history with half a round in it cannot be resumed.
* **Accounting on every path**, the failing ones included.
* **Terminal transitions** seen by four observers: the result, the handle, the
  event stream and the state.
* **Durable execution**: redelivery, replay, continue-as-new, and deadlines
  measured by someone else.

What would make each component correct:

* State machine: never over budget; takes exactly the outcome it asked for;
  every snapshot resumable; terminal is final; completed means answered.
* Local run: calls really made stay within the limit; one terminal
  announcement, the right one; an honest ledger; ends when it is told to.
* Event bus: nothing lost, nothing reordered, streams end, an observer that
  goes away cannot hold the run.
* Token: no lost wakeup, one reason, the first.
* Usage: unknown stays unknown, whatever the order; complete means nothing is missing.
* Provider effect: output of one attempt only; every adapter an attempt may reach was admitted.
* Delegation tree: the sum over every subtree stays within its root's limits;
  a cancellation reaches every run of it.
* Temporal: the same transitions as the local loop, each effect committed once.
* Storage: an object never changes and is never seen half written.
* Codex: one turn, one terminal result, an interrupt ends it.

## 2. Plan

| Order | Module | Composes | Properties and proofs | State |
| --- | --- | --- | --- | --- |
| 1 | `RunState`, `HistoryRules`; `RunStateProofs` | | operators of the state machine and of validation, and the lemmas about them | done |
| 2 | `RunMachine`; `RunMachineProofs` | `HistoryRules` | budgets, order, resumability, finality under any host | done, all proved |
| 3 | `LocalRun`; `LocalRunProofs` | `HistoryRules` | transport budget, announcements, ledger, contract, liveness | done, safety proved |
| 4 | `EventBus`; `RunHandleProofs` | | no loss, order, streams end, back-pressure | done, safety proved |
| 5 | `CancellationToken`; `RunHandleProofs` | `AtomicToken` | no lost wakeup, first reason; implements the one-flag token of `LocalRun` | done, safety proved |
| 6 | `DurableRun`, `RunContract`; `DurableRunProofs` | `HistoryRules` | Temporal workflow, activities and handle: redelivery, Continue-As-New, cancellation, observation; the contract of a run | done, safety proved |
| 7 | `ObjectStore`, `FileStore`, `PayloadPipeline`; `PayloadPipelineProofs` | the store inside the pipeline | atomic creation under crashes and concurrent writers; exact decoding across releases | done, all proved |
| 8 | `CodexTurn`; `CodexTurnProofs` | | phases, tool calls, interrupt, shutdown | done, safety proved |
| 9 | `ProviderEffect`, `Usage`; `ProviderEffectProofs` | `RunState`, the ledger inside the effect | admission, visible output and retries, streams, routing, aggregates | done, all proved |
| 10 | `DelegationTree`; `RunMachineProofs` | `RunState` for each run of the tree | a tree of runs with shares, its end and its ledger | done, safety proved |

The plan is carried out. Section 5 says what is only checked, and why.

Abstract specifications: a *run contract* (one terminal state, a history that
only grows and stays correlated, a result after which nothing changes) that the state machine and both
runtimes implement; an *atomic signal* that the token implements; an *object
store* whose creation is one step, which the file system driver implements.

## 3. Modules

### `RunState` and `HistoryRules`

`RunState` is `AgentRunState` as a record value and its methods as operators
from a state to a state. What the code keeps as data that decides nothing is
left out: a message is its role and its correlation ids, a call is an id and a
tool name, usage is the number of attributed calls and the completeness flag,
`text` and `error` are whether they are set. The entries and the
aggregate of the ledger are in `Usage`. The registry of the plan is four
sets of tool names; the limits of plan and budget are the record `Plan`. The
size of a request is a constant plus a constant for each message of the
history, so it grows as the code's `next_model_token_reservation` does. The
saturating additions are plain additions: each sum is only compared with a
limit of the same width, and a saturated sum is at least a limit exactly when
the true sum is.

`HistoryRules` says what `run/validation.rs` decides of a history, twice. The
rules state it: the calls of a message are answered, in order, by the messages
that follow it, and `Leaves` says which are still open at the end. `Scan` is the
code's fold over the messages. `FoldAgrees` says that both give the same
verdict; `FoldComputesRules` proves it for every history, and `MCRunMachine` evaluates
it for every history of up to four messages over its ids. The models and the other proofs
use the rules. Shape rules of one
message are the type `Message`.

Some definitions are preceded by one marked *Faulty variant*: the same
operator as a plausible mistake would have it, used by no other definition.
It documents what a property of the module protects against: with the variant
in place of the operator, the property fails.

### `RunMachine`

A host that holds a state and may do, in any order, everything the public API
offers: report the outcome of any effect that was ever asked for (once, often,
late), cancel, fail, add elapsed time, call `finish_if_exhausted`. Provider
outcomes carry what `execute_provider` can produce for the current state
(`AttemptRecords`), or come from a host with its own executor
(`BareResponse`, which goes through `commit_provider_response`). The latter is
limited to plans without a token limit: with one, only the executor's
admission keeps a call within it, and a host that calls its provider itself
has to do that admission itself. `asked` and `accepted` are history variables
that give every effect a position.

### `LocalRun`

The task of one local run, step by step: `phase` is the place in
`execute_run`, `work` holds one attempt loop per member of the executing
effect. The caller may cancel at any instant; the clock ticks; providers, tools
and children answer or do not. A provider attempt is *armed* when its deadline
timer exists and *called* once it was polled: an attempt cancelled in between is
still polled once in the ten milliseconds of grace, which is a real provider
call that no ledger sees. A batch runs in chunks and its members are polled in
order, as `try_join_all` does; the first member that returns `Cancelled` ends
it. A delegation is a child run within its share that ends at some time, must end
when told to, and whose future may be dropped. The calls of children that an abandoned effect leaves
behind count in `transport` as anything up to their shares (`CallsOfChildren`). `misled` remembers that a child ended
in an error whose ledger hides calls it made; `DelegationTree` shows how that happens.

The handle's usage is the state's: the loop copies it at every commit and exit.
Left out: `RunRecord`s; events other than `StatusChanged`; the blank-model
configuration error, which is one more way for `StartRun` to fail before it
announces anything; errors of `commit_effect` and of the `validate_history` after
the last tool, which cannot happen (`SnapshotsResume`).

### `Usage` and `ProviderEffect`

`Usage` is `usage.rs` with its entries, its aggregate and its flag; a measurement is a
function from the counters to a number or unknown. Its merge is that of the code, order
and all: the first entry replaces the aggregate, a call without any measurement leaves
it alone, and a partial one makes what it lacks unknown for good.

`ProviderEffect` is what `LocalRun` takes for one step: admission of a request against
the capabilities of a route, one adapter or a router over two; the attempt loop; the call
of an adapter, streamed (fragments, usage events, a final response, a broken stream) or
complete; the retry rule with its visible-output flag; the commit of the attempts. The
capabilities are those the route reports and the call is made to the adapter that the attempt
number picks. `stage` is the place in the executor, `leaving` the grace period, in
which an armed attempt may still be polled for the first time. A child run is only its ledger, one of
a few a delegation may hand over; it is assumed to account for the calls it lists, which is
what `LedgerMayBeMerged` proves of a run's own ledger. Time is left to `LocalRun`: with a deadline, its timer may
fire at any instant. `calls`, `shown` and `told` are history variables: the calls
made to adapters, the attempts an observer has seen output of, the measurements of committed
outcomes. The features of a request stand for its tools, its images and its output format.

### `DelegationTree`

A function from paths to runs: the root is the empty path, and a run at depth *n* has a
path of length *n*. Each run is an `AgentRunState` driven by the loop of `LocalRun`, reduced
to what spends budget, starts children or stops: provider calls with retries and
refused responses, single tools and batches, `DelegationTool::execute` with its checks of depth
and budget, `cancel_with(Parent)`, the ledger a child returns. A child is started with
the share its parent reserves when the delegation commits, which is why the calls in flight are
counted (`made`, `tokens`). An ordinary tool of a batch that sees the cancellation ends the
whole batch: delegations polled before it have told their children, those after it are
dropped (`dropped`). Left out: time, and incomplete measurements of the calls themselves.

### `EventBus`

The observers of one bus, their bounded channels, and the tasks that emit to it:
the run's own and those of its children, whose buses have no observers and pass
everything on. `emit` is three kinds of steps, as it takes the lock twice and
waits in between: clone the list (`BeginEmit`), one `Send` for each observer,
`Prune`. `close` is two, the flag and the list, and so is `subscribe`. A receiver
that is full holds the emitter up; one that is gone does not. A delta whose
attempt is cancelled is dropped wherever it is (`AbandonDelta`).

Three things the bus does not promise are in the antecedents of its properties.
Two observers may see events of different tasks in different orders: only what
was over before another began is ordered (`NeverReordered`). The receiver that
exists from the start holds the run up when nobody takes or detaches it:
`start(..)` followed by `wait()`, with no call of `events()`, does not return once
the run has more events than the channel holds (`BusCloses`). A subscription
that reads the flag before the bus is closed and takes the lock after it was
cleared leaves its sender in a bus nobody clears again (the second part of `BusCloses`).

### `CancellationToken` and `AtomicToken`

`LocalRun` takes the token for one variable. `CancellationToken` has its lock, its
flag, its notifier and every step of `cancel` and `cancelled` between them;
`AtomicToken` is the variable. The refinement mapping shows the signal when the
flag is set: `StoreFlag` of the first caller is the request, `TakeReason` the
answer, everything else a stutter. The notifier is tokio's: a future completes
when `notify_waiters` is called after it was created. The release store and the
acquire loads are taken as sequentially consistent: a stale read of the flag is
the earlier read, and a waiter that made it sleeps on a future older than the
notification.

### `RunContract` and `DurableRun`

`RunContract` is what a caller may rely on whichever runtime he chose. `LocalRun`
and `DurableRun` implement it by the same mapping: status and history of the
canonical state, and the result once it can be seen.

`DurableRun` is the workflow, the activity that executes one effect, and the
caller's handle. A workflow task runs from one await to the next: `Begin` (the query
snapshot is stored), then `Finish`, `ContinueAsNew`, `RejectUndeclaredTool` or
`ScheduleActivity`. The activity is what its worker and the service make of it:
`StartAttempt`, a completion, an error, a lost worker, a failed heartbeat, redelivery
up to the maximum attempts, schedule-to-close, cancellation. `ActivityCompletes` is
the completion and the workflow task it causes: commit, elapsed time, both
counters, snapshot. The workflow is deterministic, so its input is a function of its
recorded events and a replay rebuilds it: replay is not a step. The service is
external and is modelled by what the code relies on. A policy with the threshold
zero stands for everything the workflow refuses at its first task (threshold,
schema, adapter fingerprint). Left out: results of adapter versions before the current one
(`Legacy` outputs and the patch marker), and what a worker does inside an attempt, which
is the executor of `LocalRun`.

`executed` counts how often each provider effect was handed to a worker; it is a
history variable.

### `ObjectStore`, `FileStore` and `PayloadPipeline`

`ObjectStore` is the contract of `create_immutable`, as the in-memory driver keeps it
under its lock. `FileStore` is the file system driver, one system call per step:
temporary file, write, sync, hard link, comparison, cleanup; each call may fail and the
process may be killed between any two. The mapping shows the link, or the comparison
that finds the same bytes, as the moment of the effect. `Damage` is an operator, a
power loss before a directory entry reached the disk, or a bad medium.

`PayloadPipeline` puts the pipeline on top: a batch is prepared as a whole, stored object
by object under random ids (which may collide: the conflict is then an error), and
becomes references when the last object is stored. Decoding changes nothing and is
the operator `Decode`, evaluated in every state, for every reference, by every
release. `Decode` says what its loop over the recorded transforms comes to
(`Reversible`); the loop itself is `Reversed`, and `MCPayloadPipeline` compares the two. Abstractions: SHA-256 is injective; a transform saves one unit of size or is
not kept; one storage id; every payload handed to `decode` is a reference. `encode`
of a single payload is left out: it does not hold the size of the payload against the
limit of a batch (`pipeline.rs:156`), and nothing in the crate calls it. The SDK's
codec encodes through `encode_batch` (`temporal_codec.rs:60`), which is `Encode`.

### `CodexTurn`

`run_cancellable` of the Codex runtime with the process, the two pipes and a server
that says what it likes. `stage` is the place in the client: open, the four phases
(`send` and `await`), `collect`, `interrupt`, the tool call (`tool`, `running`, `answer`),
`shutdown`, `reap`, `done`. The select of a phase is biased towards the token, so that a
phase's other steps need `~cancelled`; the loop of `collect_turn` looks at the token
first and its select is not biased, so a message and a cancellation may be taken in either order.
`own` says whether a message is of this thread and turn, and `named` whether it says so where
`collect_turn` looks for it, at the top level (`turn.rs:66`). `Filtered` is the filter: only a
message that names another thread or turn there is skipped. Deltas and tool calls
name both there, as in the repository's tests; `turn/completed` has its turn's id at `/turn/id`, so the
end of another turn of the same thread is a `Stray`, which passes. `strayed` is a history variable
that remembers one. The tool of a call is entered even when the token is already set: the code calls
it before it selects between its future and the token (`RunTool`). The server's messages
arrive in order and its reply to `turn/start` precedes what the turn says. Left out: the token
usage of a turn, the compilation of the request (only whether it is lossless), and a
turn whose future is dropped.

## 4. Runs

| Run | What it shows |
| --- | --- |
| `run_machine` | All properties of the state machine, under any host. |
| `local_run` | Safety and liveness of one local run. |
| `local_handle` | The handle of a run that has returned says running, or cancelled, where the result says incomplete, or completed. |
| `local_orphan` | A dropped delegation leaves its child running. |
| `provider_effect` | Admission, routing, streams, retries and the usage ledger of the provider effects of a run. |
| `delegation_tree` | Limits and end of a tree of runs, down to grandchildren. |
| `tree_ledger` | A child that refuses a response hides its calls from a ledger that calls itself complete. |
| `event_bus` | Order, delivery, back-pressure and the end of streams, with a run, a child and two receivers. |
| `cancellation_token` | Three racing requests, two waiters: one signal, in effect when a request returns, seen by all. |
| `durable_run` | Contract, redelivery by opt-in, observations that never go back, and the end of one durable run. |
| `payload_pipeline` | Exact decoding, and atomic creation, with two writers, three releases and a harmed object. |
| `codex_turn` | An answer holds nothing but what its turn said, and all of it unless the end of another turn passed for its own; a cancelled turn ends. |

The three violation runs check one sentence of the documents each and end in a
counterexample; `PROJECT.json` quotes the sentences.

**Bounds.** Two call ids and one tool of each policy (ordinary and parallel-safe,
delegating, unregistered) give every kind of effect: single calls, batches of
ordinary tools, of delegations, of both, and mixed lists that may not be
batched. The plans are chosen so that each limit is the one that stops some run:
no call at all, calls used up by retries, by shares, tokens used up by attempts,
a request larger than what is left, a deadline that is over at once or in the
middle of an effect. Three calls are enough for a round of tools after a retried
round and an answer. In `RunMachine` the run is bounded by the plan itself and by
`MaxElapsed`. In `LocalRun` clocks stop where they cannot matter: the run's clock
at the deadline, an effect's one past the largest bound that `DeadlineBoundsEffects` has for it, which is twice the
deadline for each member of the effect (`PastEveryBound`), so that no bound holds because the
clock has stopped. In `EventBus` a channel holds two
of the three events that there are, so it fills up, and the run and its child emit
at the same time; the second receiver subscribes before, between and after the
steps of `close`. In `CancellationToken` three requests are one to win, one to find
the reason without the flag, and one to find both.

In `ProviderEffect` the routes are one adapter that has everything, one with a small window
and neither schema nor stream, one that knows nothing about tokens, and three routers whose
two adapters differ in rendering, window, features and knowledge. Requests need tools, or
tools and a schema. Reports are nothing, everything, and everything but one counter;
child ledgers are empty, complete, cut short and partly unmeasured. `MaxRounds` lets one
round use a tool or a child and the next answer, so attempts of two effects and a child's
calls meet in the ledger in every order. In `DelegationTree` seven calls are enough for a grandchild, five for two children
that retry, with and without a token limit; `MaxDepth` is two, so that a delegation at the third
level is refused. A batch is never longer than `MaxParallel`: chunks are `LocalRun`'s.

In `DurableRun` the thresholds split a run at every effect, at every second, or are refused;
the plans have no budget, retries against the call limit, a token limit, and a deadline
of two ticks; providers are declared and not; one history is unresolved from the
start, so that the activity refuses it. Attempts are bounded by the code (two).
In `PayloadPipeline` two writers, two ids and three payloads, two of them of one size, are
enough for a collision with the same bytes and with others and for an object that only its
digest tells from the right one, `MaxBatches` is two and one object is
harmed; the second release has the codec at another version and knows the first one's
fingerprint, the third has limits that let it write and read nothing larger than one.
Keys and writers are symmetric. Nothing is left to do when the batches are over, so
deadlock is not checked there. In `CodexTurn` the server says two things of its own
accord besides its replies and the end of the turn (`MaxMessages`; the safety properties were also checked
with three); its tool calls may use the id of the interrupt; the declared tools match the
registered ones, differ, or are ambiguous.

**Time.** A timer that is due fires before time passes on, a chunk that may start
starts, a finished batch is joined: none of these waits for anything. Answers may
take any time.

**Fairness.** `LiveSpec` of `LocalRun` assumes weak fairness of the task's own steps (Tokio
polls every woken task), of the clock, and of a child that has been told to stop
or has reached its deadline (it is a run too, and this is its own `RunEnds`).
Nothing is assumed of providers and tools: the first two parts of `RunEnds`, of a cancelled run
and of one with a deadline, hold although they may never answer. Only the third has a
premise: that calls are answered in some way. In `DelegationTree` every run is a task, and
nothing is assumed of providers or tools either. A step of a run always changes the
tree, and no behaviour returns to an earlier tree, so fairness of the tasks together is
fairness of each. In `EventBus` the tasks are scheduled and
a stream that a caller holds is read; nobody has to take the attached receiver or to
drop anything. In `CancellationToken` calls that have begun go on; nobody has to cancel.
In `DurableRun` a workflow worker runs and the timers of the service fire; `RunCloses`
has the premise that the run has a deadline, or that its attempts are started and answered
somehow. In `CodexTurn` the client's task is scheduled and its timers fire; a tool ends
when the token tells it to and otherwise need not; nothing is assumed of the server. `CancelEnds` there
excludes, by name, the one write without a timeout.

## 5. Proofs

Every theorem below holds for every value of the constants that satisfies the named
assumptions of its module. Those say what the types say: plans, histories and
provider answers have their types, the registry's sets are nested, a request is
never empty, limits that the code refuses to be zero are not zero. Nothing is assumed
of orders, sizes or numbers of actors.

### The state machine: `RunStateProofs`, `RunMachineProofs`

`RunStateProofs` has no specification. It holds the lemmas about the operators of
`RunState` and `HistoryRules` that the proofs about the machine, both runtimes and the provider
effect cite. A state is `Good`
when it is typed and within both budgets, and each method of the state machine keeps
it `Good`. The attempts that `MayAttempt` admits fit into what is left
(`AttemptsFit`), and a bare response adds one call where `next_effect` found room for
one. Of `n` delegations each takes a share of one in `n + 1`, so that `n` shares fit
(`SharesFit`) and what is left stays positive (`SharesLeaveRest`). Three facts about
histories carry resumability: at most one message has open calls (`OneOpen`), a
message of a new turn may follow only a history without any (`HistoryTurns`), and
results for the first `n` open calls leave the rest of them open (`HistoryAnswers`).
The last one is stated for any `n`, so that a single result and a whole batch are
instances of it and no induction over the batch is needed. `CutShortIs` to
`ToolFields` say what an outcome does to the counters, in whatever order outcomes come.

Two groups of lemmas are about data. Induction (`NatSetInduction`, `FiniteSetInduction`)
takes the property as a set, which the provers can instantiate, and comes from the
well-foundedness theorems of the library. The sum of the community modules takes off an arbitrary element
at a time; `SumIsCount` makes it the cardinality of a set of units, so that what a sum
needs is in the theorems about cardinality (`SumSplits`, `SumAgrees`, `SumUnion`).

`FoldComputesRules` is the one theorem listed from this module: the fold of `validate_history` accepts
exactly the histories that the rules accept, and is left with exactly the calls that the
rules leave open, for every sequence of messages. It goes by the length of the history; one message more is
one step of the fold, and what the rules say of it depends on what is open before it.

`RunMachineProofs` proves of the machine under any host

* `RunStaysGood` with its parts `TypeCorrect`, `ModelCallBudgetHolds` and
  `TokenBudgetHolds`. The budgets are not inductive without the types (a negative
  counter would make room), and not one by one: what the executor admits is a
  minimum over both;
* `TerminalRunsAreFinal`, which rests on `Expected`: a terminal state has no next effect;
* `DelegationNeverStarves`: a parent that could call its provider before its
  children's shares were reserved still can afterwards;
* `SnapshotsAlwaysResume` and `CompletedRunsAreResolved`. The invariant is `Sound`:
  `ValidateEffectStateHistory`, and no open call in a completed run. It is
  inductive because the pending list of a live state is exactly what its history
  leaves open;
* `OutcomesAreInOrder`: an outcome is taken at the position it was asked for, once,
  and positions only grow, under the premise `IdsAreFresh` for tools;
* `MachineKeepsContract`: whatever the host does, the machine implements `RunContract`.

### The tree of runs: `RunMachineProofs`

`TreeStaysWithinLimits` says `TreeWithinLimits` of `DelegationTree` for trees of any
depth and width, any plan and any retries: the calls of a run and of all that is below it
stay within that run's limits, in flight or committed. It has two halves.

The first is about sums (`WithinByChildren`). When in each run its own use and the limits of
its children are together at most its own limit, then everything below a run uses at
most what the run was given. The proof does not go by depth. Of any set of runs, what they
use and what the children of its members were given is at most what its members were given; this is shown
one run more at a time. When the set is a run and all below it, those children are all of
the set but the run itself.

The second is the inductive invariant (`TreeStaysSound`). `Family` says how runs are named: by
their parent and a number that the parent has not used before, so that a new child joins a
sum and never replaces a term of it. `RunBalances` keeps the books of one run: its own calls
and the limits of all children it ever started are at most what its state was charged and
what its executing effect will charge when it commits (`DueCalls`: the attempts made, or a share
for each member that has started its child); tokens the same. That is why the
limit itself is not inductive: a share is in the hands of a child before
`reserve_delegation` has charged it. A returned run is cut off from its effect, and its
books say only that it stayed within its limits. `Follows` is what a step of a run that starts no child keeps, whatever
its children were given; there is one lemma for each kind of step, and `ChildJoins` for the one that
starts a child.

### The two runtimes: `LocalRunProofs`, `DurableRunProofs`

`LocalRunProofs` proves of one local run, for every number of workers, every chunking
and every interleaving with cancellation and deadlines

* `RunStaysAccounted`, the inductive invariant. Its parts say for each place of the
  task what the counters are worth there: `Accounts` ties the calls really made to
  the committed attempts, to the attempts of the executing effect and to the shares
  in the hands of children; `Healthy` says that the history resumes wherever the loop
  can stop; `Announced` ties the list of announcements to the place and the result;
* `TaskIsTyped`, `CallsStayWithinBudget`, `StatusIsAnnouncedOnce` and
  `CompleteLedgerIsExact`: the properties `TypeOK`, `TransportBudget`, `AnnouncedOnce`
  and `LedgerHonest` of the run `local_run`;
* `EffectsEndInTime`, the property `DeadlineBoundsEffects`, from an invariant of its own
  next to `Inv`;
* `LocalRunKeepsContract`: the loop with its handle implements `RunContract`.

The bound on time does not follow from where the workers are, so `Timely` says of each of
them what it may still take: a queued one has measured nothing and, if its turn has come, the
effect has used no more than the allowance of the chunks before its own; an attempt has
what its worker has left of the time of the run, to the millisecond (`since + left = rem + wait`);
a backoff has what its attempt had. The allowance of `n` chunks is `n` times the time the run
had left, or twice as much once something was retried. `WorkerInTime` says when one worker may
move; `StartsInTime` to `ResumesInTime` say it of each kind of move, `TickInTime` of a
millisecond for all of them: nobody is queued whose turn has come (`NoneStartable`, an induction over the
order of the batch) and no timer is due. TLC checked `Timely` on an instance with every
deadline from 0 to 3 before it was proved.

`DurableRunProofs` proves of the workflow, its activities and a handle, for every
policy and every redelivery

* `DurableRunStaysSound`, the inductive invariant: `Canonical` (the workflow's state is
  `Good`, `Sound` and has no call left to a child), `Staged` (an activity exists
  only for an effect, what is returned is terminal), `Deliveries` (how often an effect was
  handed out, against the attempt and the policy) and `Observed` (what the handle has
  seen is no further than the workflow, and a prefix of its history);
* `WorkflowIsTyped`, `RedeliveryStaysOptIn`, and the action property
  `ObservationsNeverGoBack`;
* `DurableRunKeepsContract`: the durable runtime implements the same `RunContract`.

So what a caller may rely on does not depend on the runtime: the three refinements
have one abstract specification and one mapping.

### The bus and the token: `RunHandleProofs`

The two objects that the tasks of a run share with the holders of its handle have their proofs in one
module. They know nothing of each other; the definitions of the token carry its name, so that
one module can extend both.

`BusStaysSound` is the inductive invariant, with `BusIsTyped` (no channel exceeds its
capacity), `EventsAreNeverReordered` and `EventsAreNeverDropped`. The last two are not
inductive. What carries them: `Counted` (an emitter has at most one emission under way, the last it began), `Senders`
and `Listed` (no list has a sender twice, and a receiver that is still
there is in the list of the bus unless it was cleared), `Known` (what is in a stream was
begun, after emissions that were over), `Unsent` (an event is not yet in the stream of
a receiver it still has to be sent to) and `Underway` (an event under way has reached
a receiver that is there, or will). They are
about positions in sequences and not about contents, and `Prune` is therefore written with
`Retained`: the senders of the list whose receivers are there, in their order.

`TokenIsAtomic` (the token implements `AtomicToken`), `CancelTakesEffectHolds` and
`TokenTypeCorrect`, for any number of callers, given that the default reason is a
reason. The invariant says who holds the lock, that one caller wins, and that a
recorded reason whose flag is not set is still behind the lock (`FlagFollows`): a
caller who gets the lock and finds a reason therefore finds the flag set.

### The store and the pipeline: `PayloadPipelineProofs`

* `PipelineStaysSound`, the inductive invariant: a temporary file is whole before it is
  linked (`Calls`); a call that has its `ok` has its object in the store, unless that was
  harmed since (`Confirmed`); what a job has stored and what it has left are the two
  halves of its batch, position by position (`Jobs`, with `Halves`); and so for
  references that were issued (`Issued`);
* `PipelineIsTyped`, which also says that the object an issued reference names stays as it was
  stored unless it was harmed, and `StoreKeepsContract`: with any number of writers, and with
  errors, deaths and damage anywhere, the filesystem driver implements `ObjectStore`. The
  mapping shows a call as open until the link or the comparison, so that each system call is
  one step of the contract or none;
* `DecodingIsExact`: references decode to what they were issued for or to an error,
  whatever became of the objects and whichever release reads, and to what they were
  issued for while the objects are unharmed and the reader is configured for them.

* `LoopComputesDecode`: what the loop of `decode` (`Reversed`) makes of an object.

`Decode` is written with `Reversible`, which says what that loop comes to:
the recorded transforms are the outermost ones of the object, each is owned by a
codec of the chain, and what each gives back is within the limit. `LoopComputesDecode` proves
that it does, for every object and any number of recorded transforms: the fold is a
recursive function on sets of indices (`UnwrapIterAt` takes one transform off), and an induction over the
transforms already reversed (`UndoneBefore`) gives the rule. `MCPayloadPipeline` evaluates the same for up
to three transforms (`LoopAgreement`). `PipelineAssumption` takes from the code what the model
does not derive: payloads have a size, no codec leaves nothing of one, an object with transforms taken
off is not an error, and what a pipeline prepares is among the `Bytes`.

### The Codex turn: `CodexTurnProofs`

`TurnStaysSound` is the inductive invariant, with `TurnIsTyped` (the server is told of a
cancellation at most once, and only for the caller) and `AnswersAreWholeTurns`, for every
request, every set of tool ids and every number of messages. The answer is decided at one
message, `turn/completed`, and what makes it whole happened before. The invariant
therefore says what the two pipes may hold:

* `Requested`: `turn/start` and `turn/interrupt` are written once, and a turn that exists
  has no `turn/start` left;
* `Spoken`: while the phases last, the reply that starts the turn is ahead of all the turn
  says, so that no phase passes over a delta or a tool call; and nothing of the turn follows
  its last word;
* `Deltas`: of a turn not interrupted, what was collected and what is on its way are all the
  deltas there are, without a gap and in order;
* `Tools`: of a turn not interrupted, each tool call waits, is handled or was answered, never two of them;
* `Strays`: an end of a turn that does not name its turn, and is not of this one, is in the pipe
  only when `strayed` says so; it is the one message that `AnswerIsWholeTurn` makes an exception for;
* `Whole`: what an answer promises, which the shutdown leaves alone.

`TurnAssumption` says that no tool call of the server has the id zero, which the model uses for a
message without an id. The lemmas `RequestsPut` to `CallsTaken` say of any stream what
putting a message into it, or taking one, does to these statements.

### The provider effect: `ProviderEffectProofs`

`EffectStaysSound` is the inductive invariant `EffectSound`, with `EffectIsTyped` (`TypeOK`),
`NoAnswerBegunTwice` (`OutputShownOnce`), `EveryCallIsAdmitted` (`CallsAdmitted`) and
`LedgerTellsTheTruth` (`LedgerTrue`), for every route of one or two adapters, every plan and all
that adapters and child runs may report. None of the four is inductive. What an attempt does
now was decided when the effect was admitted, and what the ledger will say depends on
attempts it has not seen yet. The invariant says for each stage of the executor:

* `EffectUnderWay`: the effect is the next one, its request is acceptable, and the attempt is
  among those that the budgets allowed;
* `CallsCharged` and `TokensCharged`: the calls made are those the state was charged and
  those of this effect, and in the worst case their tokens are the reserved ones and one
  reservation for each attempt;
* `CallsFit`: each adapter that was called has what the request needs and room for its own
  rendering, which admission knows of the whole route only (`AcceptableCovers`);
* `CallsInRounds`, `CalledIsRecorded` and `ShownInRounds`: the calls of the open round are this effect's, and only
  the attempt that runs has shown anything in it;
* `PendingLedger`: what the commit will make of the ledger, if it came now.

The ledger is a fold over the attempts. The fold of the community modules recurs over sets of
indices; `AddCallsOneByOne` brings it down to one attempt more (by `NatSetInduction`), and
`AddCallAccounts` and `MergeChildAccounts` say that an entry more, or a child's entries more, keep the
accounts. The worst case of `CallsAdmitted` is a sum, which `WorstCaseAppend` takes apart.

`EffectAssumption` assumes of the ledgers of children that they account for the calls
they list. `LedgerMayBeMerged` proves that of the run's own ledger, so the assumption
holds at every depth of a delegation: a run without children needs none of it, and hands
its parent such a ledger.

### What stays model-checked

* All liveness: `RunEnds`, `BusCloses`, `RunCloses`, `TreeStops`, `CancelEnds` and
  `WaitersWake`. The prover has no rule for fairness.

Every invariant and every action property that a run checks is stated by a theorem, and so
are the refinements.

## 6. Where code and documents differ

The three violation runs are listed above. Five more differences are preconditions
of properties that hold, or are excluded by them:

* `docs/SPEC.md:135` promises that *every* outcome returns a history another run can
  start from. A run cancelled with tools pending returns one that `validate_history`
  refuses (`run/local.rs:265`). `RunContract` states what holds (`Returnable`).
* `run/handle.rs:77` and `docs/SPEC.md:179` promise the usage of failed attempts. A
  response that `validate_model_response` rejects drops the attempts of its effect
  (`run/effects.rs:220`, `run/local.rs:90`). `LedgerHonest` and
  `LedgerTrue` speak of results and not of errors; in a tree the gap reaches the parent's
  result, which is the run `tree_ledger`.
* `state/types.rs:14` promises that stale and duplicate outcomes are refused. A tool
  effect is identified by run id and call id, without the round (`state/effects.rs:91`),
  and nothing stops a provider from using a call id again in a later round: a duplicate
  of the earlier outcome is then taken for the later call. `OutcomesInOrder` has
  `IdsAreFresh` as its premise for tools.
* `crates/codex/src/turn.rs:169` answers a tool call without a timeout. A server that has
  stopped reading holds a cancelled turn there; `CancelEnds` of `CodexTurn` says so.

* `crates/codex/docs/conformance.md:16` says that a run uses its thread and turn ids to filter
  notifications. The filter looks at `/threadId` and `/turnId` (`crates/codex/src/turn.rs:66`), and
  `turn/completed` has its turn's id at `/turn/id` (`crates/codex/tests/runtime_contracts.rs:280`): the end of
  another turn of the same thread ends this one, as an answer cut short and with tool calls
  left unanswered. `AnswerIsWholeTurn` states what holds without such a message (`~strayed`), and what
  holds even then: the text is a beginning of what this turn said, nothing of another.

Observations from reading the code for the models, which no run refutes:

* Every chunk of a batch is given the whole time the run had left (`run/effects.rs:91`), and
  a backoff the whole time of the attempt that failed, where `book/runs.md:18` says that a
  deadline bounds the whole run tree. `DeadlineBoundsEffects` states the bound that holds.
* The time of activity attempts that were lost is not charged to the run
  (`crates/temporal/src/runtime/activity.rs:107`); `book/temporal.md:44` says that redelivery
  cannot reset the elapsed-time allowance, which holds within one activity only.
* Usage that a stream delivered before it failed is dropped (`run/provider.rs:97`): the attempt
  is recorded with the usage of its error, mostly none, where `docs/SPEC.md:179` wants
  reported usage kept. The ledger is incomplete then, so `LedgerTrue` holds.
* A call that reports nothing makes the aggregate unknown for good when it is the first, and
  leaves a known aggregate alone when it comes later (`usage.rs:101`, `usage.rs:113`): the same
  calls in another order give another aggregate, and a known one may be partial. Only the flag
  says so; `LedgerTrue` states what the aggregate is then.
* A router inside a router sees the same attempt number as the outer one: of the three
  adapters one is never called (`model/router.rs:72`).
* `DelegationTool::call` (`subagent.rs:233`), which the runtime never takes, starts its child with
  the default budget.
* `ContinueAsNew` starts an execution without the cancellation of the one before
  (`crates/temporal/src/runtime/workflow.rs:57`): a request that arrives between an
  effect and the next execution has no effect, and the caller has to repeat it.
* A deadline that passes inside an activity fails the workflow and is not a `Cancelled`
  result; `observe` goes on to answer with the last live snapshot.
* `decode` of a reference whose payload is itself a reference returns that
  inner envelope, where `docs/SPEC.md:204` says that residual envelopes fail closed.
* The directory of a hard link is not synced: after a power loss an object that was
  confirmed may be missing (`Damage`).
* The codec that expands a payload may write an object that the same pipeline, by its own
  limits, does not decode. `PayloadPipeline` has only codecs that save space.
* A `completed` that crosses the interrupt is reported as a protocol error, and
  notifications before the reply to `turn/start` are dropped, whatever turn they are of.

## 7. Not modelled

* Macros, schemas, ids, error wording and parsing: no state that changes.
* What a stream fragment says, routers inside routers, and `DelegationTool::call`.
* The codec server: one `decode_batch` per request and no state.
* `encode` of a single payload, several storages in one pipeline, payloads that are no references, the rules of
  storage names.
* Results of earlier adapter versions in the Temporal runtime, and the service and
  its SDK beyond what the workflow relies on.
* Usage and request compilation of the Codex runtime.
* The book and the test crate, which are used as a statement of what the code promises.

The hazards each part is exposed to are in `PROJECT.json`, with the properties that
cover them or the reason why none does.
