----------------------------- MODULE MCEventBus -----------------------------
(* A small instance of EventBus: the run and one child, two receivers. *)
EXTENDS EventBus

CONSTANTS run, child_run, first, second

\* A delta and the terminal status of the run; a delta of its child.
MCMaxEvents == [e \in {run, child_run} |-> IF e = run THEN 2 ELSE 1]

MCDelta == {<<run, 1>>, <<child_run, 1>>}
=============================================================================
