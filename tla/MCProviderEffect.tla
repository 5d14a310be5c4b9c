-------------------------- MODULE MCProviderEffect --------------------------
(* A small instance of ProviderEffect: one adapter, and routers whose        *)
(* primary and fallback differ in every capability admission looks at.       *)
EXTENDS ProviderEffect

CONSTANTS c1, lookup, child_agent, tools, schema, input, output

AdapterWith(features, streams, bound, limit) ==
    [features |-> features, streams |-> streams, bound |-> bound, limit |-> limit]

Full == AdapterWith({tools, schema}, TRUE, 1, 6)

\* Larger rendering in a larger window; smaller window, no schema, no stream;
\* nothing known about tokens.
Wordy == AdapterWith({tools, schema}, TRUE, 2, 7)
Small == AdapterWith({tools}, FALSE, 1, 3)
Opaque == AdapterWith({tools, schema}, TRUE, Unset, Unset)

MCRoutes == {<<Full>>, <<Small>>, <<Opaque>>, <<Full, Wordy>>, <<Full, Small>>, <<Wordy, Opaque>>}

MCNeeds == {{tools}, {tools, schema}}

Call1(tool) == <<[id |-> c1, tool |-> tool]>>

MCResponses == {Call1(lookup), Call1(child_agent)}

Measure(i, o) == [f \in {input, output} |-> IF f = input THEN i ELSE o]

\* Nothing reported, everything, and everything but the output.
MCReports == {Usage!NoUsage, Measure(1, 2), Measure(3, Usage!Unknown)}

\* A child that made no call, one that reported all, one that was cut short,
\* one whose second call went unmeasured.
MCChildLedgers ==
    {Usage!NewUsage,
     Usage!AddCalls(Usage!NewUsage, <<Measure(1, 2)>>),
     [Usage!AddCalls(Usage!NewUsage, <<Measure(1, 2)>>) EXCEPT !.complete = FALSE],
     Usage!AddCalls(Usage!NewUsage, <<Measure(1, 2), Usage!NoUsage>>)}

PlanWith(calls_, tokens, deadline, tries) ==
    [model_call_limit |-> calls_, token_limit |-> tokens,
     deadline_ms |-> deadline, provider_max_attempts |-> tries]

MCPlans == {PlanWith(4, Unset, Unset, 1), PlanWith(2, Unset, 1, 3),
            PlanWith(4, 9, Unset, 3)}
=============================================================================
