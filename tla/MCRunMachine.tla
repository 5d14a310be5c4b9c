---------------------------- MODULE MCRunMachine ----------------------------
(* A small instance of RunMachine: two call ids, one tool of each policy. *)
EXTENDS RunMachine

CONSTANTS c1, c2, lookup, child, odd

CallWith(id, tool) == [id |-> id, tool |-> tool]

\* Single calls that repeat an id, and pairs that batch, mix or repeat policies.
MCResponses ==
    {<<CallWith(c1, lookup)>>, <<CallWith(c1, child)>>, <<CallWith(c2, child)>>}
        \cup {<<CallWith(c1, p[1]), CallWith(c2, p[2])>> :
                p \in {<<lookup, child>>, <<child, child>>, <<odd, child>>}}

PlanWith(calls, tokens, deadline, attempts) ==
    [model_call_limit |-> calls, token_limit |-> tokens,
     deadline_ms |-> deadline, provider_max_attempts |-> attempts]

\* Plans whose limits are reached by attempts, by shares, by tokens or by time.
MCPlans ==
    {PlanWith(0, Unset, Unset, 1), PlanWith(2, Unset, 1, 1),
     PlanWith(3, Unset, Unset, 2), PlanWith(3, 9, Unset, 2), PlanWith(4, 7, Unset, 1)}

\* The fold of the code and the rules of HistoryRules agree on every history of
\* at most four messages over two calls, batched, alone and with a repeated id.
MCMessages ==
    {UserMessage, ResultMessage(CallWith(c1, lookup)), ResultMessage(CallWith(c2, child)),
     ResultMessage(CallWith(c1, child)), CallsMessage(<<CallWith(c1, lookup)>>),
     CallsMessage(<<CallWith(c1, lookup), CallWith(c2, child)>>),
     CallsMessage(<<CallWith(c1, lookup), CallWith(c1, child)>>)}

ASSUME FoldAgreement ==
    \A n \in 0..4 : \A history \in [1..n -> MCMessages] : FoldAgrees(history)
=============================================================================
