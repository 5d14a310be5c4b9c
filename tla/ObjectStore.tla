----------------------------- MODULE ObjectStore -----------------------------
(***************************************************************************)
(* The contract of a StorageDriver (crates/temporal/src/storage.rs), as    *)
(* InMemoryStorage keeps it under its lock: create_immutable takes effect  *)
(* in one step.  An object appears whole or not at all and never changes;  *)
(* identical bytes succeed again, different bytes conflict.  A driver with *)
(* a medium may also fail, before its effect or after it, and its process  *)
(* may die; the owner of the medium may lose or damage objects.            *)
(***************************************************************************)
CONSTANTS Key, Bytes, Writer, Absent, Garbage

VARIABLES
    objects,   \* the object under each key
    call       \* the create_immutable call of each writer and what came of it

vars == <<objects, call>>

\* "taken" is a call whose effect has happened and which has not returned.
Outcome == {"none", "open", "taken", "ok", "conflict", "failed"}

Idle == [key |-> Absent, bytes |-> Absent, outcome |-> "none"]

Init ==
    /\ objects = [k \in Key |-> Absent]
    /\ call = [w \in Writer |-> Idle]

Become(w, outcome) == call' = [call EXCEPT ![w].outcome = outcome]

Begin(w) ==
    /\ call[w].outcome = "none"
    /\ \E k \in Key, b \in Bytes :
          call' = [call EXCEPT ![w] = [key |-> k, bytes |-> b, outcome |-> "open"]]
    /\ UNCHANGED objects

\* The object is created, or is there with the same bytes.
Take(w) ==
    /\ call[w].outcome = "open"
    /\ objects[call[w].key] \in {Absent, call[w].bytes}
    /\ objects' = [objects EXCEPT ![call[w].key] = call[w].bytes]
    /\ Become(w, "taken")

Succeed(w) ==
    /\ call[w].outcome = "taken"
    /\ Become(w, "ok")
    /\ UNCHANGED objects

Conflict(w) ==
    /\ call[w].outcome = "open"
    /\ objects[call[w].key] \notin {Absent, call[w].bytes}
    /\ Become(w, "conflict")
    /\ UNCHANGED objects

\* An error of the medium, or the end of the process.
Fail(w) ==
    /\ call[w].outcome \in {"open", "taken", "conflict"}
    /\ Become(w, "failed")
    /\ UNCHANGED objects

Return(w) ==
    /\ call[w].outcome \in {"ok", "conflict", "failed"}
    /\ call' = [call EXCEPT ![w] = Idle]
    /\ UNCHANGED objects

Damage ==
    /\ \E k \in Key, b \in Bytes \cup {Absent, Garbage} :
          objects[k] # Absent /\ objects' = [objects EXCEPT ![k] = b]
    /\ UNCHANGED call

Next ==
    \/ \E w \in Writer : Begin(w) \/ Take(w) \/ Succeed(w) \/ Conflict(w) \/ Fail(w) \/ Return(w)
    \/ Damage

Spec == Init /\ [][Next]_vars
=============================================================================
