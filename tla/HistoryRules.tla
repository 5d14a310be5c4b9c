---------------------------- MODULE HistoryRules ----------------------------
(***************************************************************************)
(* The canonical-history rules of crates/agentive/src/run/validation.rs:   *)
(* the fold that both runtimes run over a history before they accept it,   *)
(* as input of a run and before every effect.  The shape rules of a single *)
(* message hold of every Message of RunState by its type.                  *)
(***************************************************************************)
EXTENDS RunState, SequencesExt

DistinctIds(calls) ==
    \A i, j \in 1..Len(calls) : calls[i].id = calls[j].id => i = j

\* The rules the fold enforces, message by message: the calls of an assistant
\* message are answered by the messages that follow it, by id and by tool name
\* and in provider order, so no other message crosses them; and a result
\* answers such a call.
CallsOf(message) == IF message.role = "calls" THEN message.calls ELSE << >>

Answered(history, i) ==
    \A n \in 1..Len(CallsOf(history[i])) :
        i + n <= Len(history) => history[i + n] = ResultMessage(CallsOf(history[i])[n])

Answers(history, j) == \E i \in 1..(j - 1) : j - i <= Len(CallsOf(history[i]))

Correlated(history) ==
    \A i \in 1..Len(history) :
        /\ DistinctIds(CallsOf(history[i]))
        /\ Answered(history, i)
        /\ history[i].role = "result" => Answers(history, i)

\* A history leaves unresolved what its last answers have not reached yet.
Leaves(history, pending) ==
    IF pending = << >>
    THEN \A i \in 1..Len(history) : i + Len(CallsOf(history[i])) <= Len(history)
    ELSE \E i \in 1..Len(history) :
            LET calls == CallsOf(history[i])
                answers == Len(history) - i
            IN  answers < Len(calls) /\ pending = SubSeq(calls, answers + 1, Len(calls))

ValidateHistory(history) == Correlated(history) /\ Leaves(history, << >>)

\* A snapshot may end with exactly the calls it still has pending.
ValidateEffectStateHistory(s) ==
    Correlated(s.history) /\ Leaves(s.history, s.pending_tools)

-----------------------------------------------------------------------------
(* The same rules as the code computes them: a fold that carries the calls *)
(* still to resolve.  The runs check that both agree on every history of a *)
(* few messages; the modules use the form above.                           *)

Scan == [ok : BOOLEAN, pending : Seq(Call)]

Reject == [ok |-> FALSE, pending |-> << >>]

ScanMessage(scan, message) ==
    IF ~scan.ok
    THEN Reject
    ELSE IF message.role = "result"
         THEN IF scan.pending # << >> /\ message.call = Head(scan.pending)
              THEN [scan EXCEPT !.pending = Tail(@)]
              ELSE Reject
         ELSE IF scan.pending = << >> /\ DistinctIds(CallsOf(message))
              THEN [scan EXCEPT !.pending = CallsOf(message)]
              ELSE Reject

PendingHistoryCalls(history) ==
    FoldLeft(ScanMessage, [ok |-> TRUE, pending |-> << >>], history)

FoldAgrees(history) ==
    LET scan == PendingHistoryCalls(history)
        rests == {<< >>} \cup {SubSeq(CallsOf(history[i]), n, Len(CallsOf(history[i]))) :
                                i \in 1..Len(history), n \in 1..Len(history)}
    IN  /\ scan.ok <=> Correlated(history)
        /\ scan.ok => \A rest \in rests : Leaves(history, rest) <=> rest = scan.pending

\* The content rules a provider response must pass before it is committed:
\* text or tool calls and never both, and no call id twice in one response.
ValidateModelResponse(calls, text) ==
    /\ text <=> calls = << >>
    /\ DistinctIds(calls)
=============================================================================
