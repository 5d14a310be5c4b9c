-------------------------- MODULE MCDelegationTree --------------------------
(* Small instances of DelegationTree: delegations in a batch and one after   *)
(* another, beside an ordinary tool, down to grandchildren.                  *)
EXTENDS DelegationTree

CONSTANTS c1, c2, lookup, expert, planner

Calls2(first, second) == <<[id |-> c1, tool |-> first], [id |-> c2, tool |-> second]>>

\* An expert may run beside others, a planner may not.
MCResponses ==
    {<<[id |-> c1, tool |-> expert]>>, Calls2(expert, expert), Calls2(planner, planner),
     Calls2(lookup, expert)}

PlanWith(calls, tokens, attempts) ==
    [model_call_limit |-> calls, token_limit |-> tokens,
     deadline_ms |-> Unset, provider_max_attempts |-> attempts]

\* Deep enough for a grandchild; two children with retries, without and with
\* a token limit.
MCRootPlans == {PlanWith(7, 16, 1), PlanWith(5, Unset, 2), PlanWith(5, 14, 2)}
=============================================================================
