---------------------------- MODULE MCDurableRun ----------------------------
(* A small instance of DurableRun: two calls, a declared tool and another.  *)
EXTENDS DurableRun

CONSTANTS c1, c2, lookup, child_agent, odd

CallWith(id, tool) == [id |-> id, tool |-> tool]

MCResponses ==
    {<<CallWith(c1, child_agent)>>, <<CallWith(c1, odd)>>,
     <<CallWith(c1, lookup), CallWith(c2, lookup)>>,
     <<CallWith(c1, lookup), CallWith(c2, child_agent)>>}

\* An empty history, and one whose tool call was never resolved.
MCHistories == {<< >>, <<CallsMessage(<<CallWith(c1, lookup)>>)>>}

PlanWith(calls, tokens, deadline, attempts) ==
    [model_call_limit |-> calls, token_limit |-> tokens,
     deadline_ms |-> deadline, provider_max_attempts |-> attempts]

\* No budget, retries against the call limit, a token limit, and deadlines.
MCPlans ==
    {PlanWith(0, Unset, Unset, 1), PlanWith(2, Unset, Unset, 2),
     PlanWith(3, 5, Unset, 1), PlanWith(2, Unset, 2, 1)}

\* Declared and undeclared providers, thresholds that split a run at every
\* effect and at every second one, and one that is not supported.
MCConfigs ==
    [continue_as_new_after_effects : {0, 1, 2},
     durable_idempotent_provider : BOOLEAN,
     durable_idempotent_tools : {{lookup, child_agent}}]
=============================================================================
