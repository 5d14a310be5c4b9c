----------------------------- MODULE AtomicToken -----------------------------
(***************************************************************************)
(* What a cancellation token promises, and what LocalRun takes it for: one *)
(* signal, set once by the first request, and waiters that are answered    *)
(* with it after it was set.                                               *)
(***************************************************************************)
CONSTANTS Reason, Unset, Waiter

VARIABLES
    signal,     \* the reason of the cancellation, or Unset
    answer      \* what each call of cancelled() has returned, or Unset

vars == <<signal, answer>>

Init ==
    /\ signal = Unset
    /\ answer = [w \in Waiter |-> Unset]

Request ==
    /\ signal = Unset
    /\ signal' \in Reason
    /\ UNCHANGED answer

Answer(w) ==
    /\ signal # Unset
    /\ answer[w] = Unset
    /\ answer' = [answer EXCEPT ![w] = signal]
    /\ UNCHANGED signal

Next == Request \/ \E w \in Waiter : Answer(w)

Spec == Init /\ [][Next]_vars
=============================================================================
