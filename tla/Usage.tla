------------------------------- MODULE Usage -------------------------------
(***************************************************************************)
(* The usage ledger of crates/agentive/src/usage.rs: RunUsage attributes a *)
(* measurement to every model call, aggregates them, and says whether all  *)
(* of them were complete.  RunState keeps only the number of entries and   *)
(* the complete flag; here are the entries and the aggregate.              *)
(*                                                                         *)
(* The ledger is merged in the order in which outcomes commit, and the     *)
(* merge is not symmetric: the first entry replaces the aggregate, and a   *)
(* later call without any measurement leaves it alone.                     *)
(***************************************************************************)
EXTENDS Integers, SequencesExt

CONSTANT Field   \* the five counters of TokenUsage

Unknown == -1

Count == Nat \cup {Unknown}

\* TokenUsage, with every field an Option.
TokenUsage == [Field -> Count]

UnknownUsage == [f \in Field |-> Unknown]

\* A provider call that reported no usage at all.
NoUsage == << >>

RunUsage == [aggregate : TokenUsage, complete : BOOLEAN, model_calls : Seq(TokenUsage)]

NewUsage == [aggregate |-> UnknownUsage, complete |-> TRUE, model_calls |-> << >>]

IsComplete(usage) == \A f \in Field : usage[f] # Unknown

\* Faulty variant: an unknown counter is skipped, as if it were zero.
MergeKnown(left, right) ==
    [f \in Field |-> IF left[f] = Unknown THEN right[f]
                     ELSE IF right[f] = Unknown THEN left[f]
                     ELSE left[f] + right[f]]

\* Saturation is left out: no count comes near the width of u64.
Merge(left, right) ==
    [f \in Field |-> IF left[f] = Unknown \/ right[f] = Unknown
                     THEN Unknown
                     ELSE left[f] + right[f]]

\* What is left in the aggregate by usage that follows the calls already there.
Aggregated(ledger, usage) ==
    IF ledger.model_calls = << >> THEN usage ELSE Merge(ledger.aggregate, usage)

AddCall(ledger, reported) ==
    IF reported = NoUsage
    THEN [ledger EXCEPT !.complete = FALSE,
                        !.model_calls = Append(@, UnknownUsage)]
    ELSE [aggregate |-> Aggregated(ledger, reported),
          complete |-> ledger.complete /\ IsComplete(reported),
          model_calls |-> Append(ledger.model_calls, reported)]

\* The usage of one child run, merged when its effect commits.
MergeChild(ledger, child) ==
    [aggregate |-> IF child.model_calls = << >>
                   THEN ledger.aggregate
                   ELSE Aggregated(ledger, child.aggregate),
     complete |-> ledger.complete /\ child.complete,
     model_calls |-> ledger.model_calls \o child.model_calls]

\* record_provider_attempts: one entry for each attempt, in order.
AddCalls(ledger, attempts) == FoldLeft(AddCall, ledger, attempts)
=============================================================================
