----------------------------- MODULE MCLocalRun -----------------------------
(* A small instance of LocalRun: up to three calls, one tool of each policy. *)
EXTENDS LocalRun

CONSTANTS c1, c2, c3, lookup, child_agent, odd

CallWith(id, tool) == [id |-> id, tool |-> tool]

MCResponses ==
    {<<CallWith(c1, lookup)>>, <<CallWith(c1, child_agent)>>}
        \cup {<<CallWith(c1, lookup), CallWith(c2, lookup), CallWith(c3, lookup)>>}
        \cup {<<CallWith(c1, p[1]), CallWith(c2, p[2])>> :
                p \in {<<lookup, child_agent>>, <<odd, child_agent>>}}

\* An empty history, and one whose tool call was never resolved.
MCHistories == {<< >>, <<CallsMessage(<<CallWith(c1, lookup)>>)>>}

\* A lookup is idempotent and may be retried once; a delegation never is.
MCToolAttempts == [tool \in {lookup, child_agent} |-> IF tool = lookup THEN 2 ELSE 1]

PlanWith(calls, tokens, deadline, attempts) ==
    [model_call_limit |-> calls, token_limit |-> tokens,
     deadline_ms |-> deadline, provider_max_attempts |-> attempts]

\* No budget, retries against the call limit, a token limit, and deadlines.
MCPlans ==
    {PlanWith(0, Unset, Unset, 1), PlanWith(3, Unset, Unset, 2),
     PlanWith(3, 5, Unset, 2), PlanWith(2, Unset, 0, 1), PlanWith(2, Unset, 2, 2), PlanWith(3, Unset, 1, 1)}
=============================================================================
