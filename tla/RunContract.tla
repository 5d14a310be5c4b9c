----------------------------- MODULE RunContract -----------------------------
(***************************************************************************)
(* What both runtimes promise of one run, whatever drives it: "Local and   *)
(* Temporal executors drive the same transitions" (docs/SPEC.md:190).  The *)
(* history only grows and stays correlated, a terminal status is the last  *)
(* one, a run that completed or was exhausted leaves a history that starts *)
(* the next run, a run that returns its state returns a terminal one whose *)
(* history resumes unless it was cancelled, and once its result is visible *)
(* nothing changes any more.                                               *)
(***************************************************************************)
EXTENDS HistoryRules

VARIABLES
    status,    \* the status of the canonical state
    history,   \* its history
    result     \* "none" until the end of the run is visible, then "ok" or "error"

vars == <<status, history, result>>

Init ==
    /\ status = "pending"
    /\ history \in Seq(Message)
    /\ result = "none"

Resumable(s, h) ==
    /\ s \in {"completed", "incomplete"} => Leaves(h, << >>)
    /\ s = "completed" => h[Len(h)] = TextMessage

\* What a caller gets back starts the next run as it is, unless the run was
\* cancelled or had been started from a history that is not correlated.
Returnable(s, h) == s # "cancelled" /\ Correlated(h) => Leaves(h, << >>)

Advance ==
    /\ status \in Live
    /\ status' # "pending"
    /\ IsPrefix(history, history')
    /\ Correlated(history) => Correlated(history')
    /\ ValidateHistory(history) \/ history # history' => Resumable(status', history')

Stay == UNCHANGED <<status, history>>

Next ==
    /\ result = "none"
    /\ Advance \/ Stay
    /\ result' \in {"none", "ok", "error"}
    /\ result' = "ok" => status' \in Terminal /\ Returnable(status', history')

Spec == Init /\ [][Next]_vars
=============================================================================
