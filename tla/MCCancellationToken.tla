------------------------- MODULE MCCancellationToken -------------------------
(* Three calls of cancel with three reasons, two calls of cancelled. *)
EXTENDS CancellationToken

CONSTANTS user, parent, timeout, first, second, third

MCWhy == [c \in Canceller |-> CASE c = first -> user
                                [] c = second -> parent
                                [] c = third -> timeout]
=============================================================================
