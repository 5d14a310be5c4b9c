------------------------------ MODULE EventBus ------------------------------
(***************************************************************************)
(* The event bus of a run (crates/agentive/src/run/handle.rs): one list of *)
(* observers behind a mutex, a bounded channel to each of them, and one    *)
(* receiver that exists from the start, attached to the bus until the      *)
(* caller takes it or detaches it.                                         *)
(*                                                                         *)
(* The emitters are the run's own task and the tasks of the child runs     *)
(* below it.  A child's bus has no observers of its own, so what it emits  *)
(* comes straight to this bus, from its own task.  An emitter clones the   *)
(* list, sends to each channel in turn, waiting where one is full, and     *)
(* then prunes the list; the lock is held for the clone and for the        *)
(* pruning only.  The run's task emits the terminal status last and closes *)
(* the bus.  Callers subscribe, read and drop their receivers at any time. *)
(*                                                                         *)
(* An event is its emitter and its number; after, which the code does not  *)
(* have, counts the emissions of each emitter that were over when this one *)
(* began.  finished, excused, since and got only record what has happened. *)
(***************************************************************************)
EXTENDS Integers, Sequences, FiniteSets

CONSTANTS
    Emitter,    \* the tasks that emit to this bus
    Root,       \* the run's own task
    Receiver,   \* the receiving ends a caller may ever hold
    Attached,   \* the one created with the bus
    Capacity,   \* of every channel; 256 in the code
    MaxEvents,  \* bound on the events of each emitter
    Delta       \* the events, as pairs of emitter and number, that are stream deltas

ASSUME BusAssumption ==
    /\ Root \in Emitter
    /\ Attached \in Receiver
    /\ Capacity \in Nat \ {0}
    /\ MaxEvents \in [Emitter -> Nat \ {0}]
    /\ Delta \subseteq Emitter \X Nat

VARIABLES
    observers,  \* the senders in the bus, in the order they were pushed
    closed,     \* the closed flag
    receiver,   \* what became of each receiver
    queue,      \* what each channel holds
    task,       \* what each emitter is doing
    emitted,    \* emissions each emitter has begun
    cancelled,  \* a run of the tree was cancelled, by a caller or by its deadline
    finished,   \* emissions of each emitter that are over
    excused,    \* events given up by a cancellation, or begun after the close
    since,      \* emissions begun when a receiver was subscribed
    got         \* what the caller has read from each receiver

vars == <<observers, closed, receiver, queue, task, emitted, cancelled,
          finished, excused, since, got>>

history == <<finished, excused, since, got>>

Event == [from : Emitter, n : Nat \ {0}, after : [Emitter -> Nat]]

\* A receiver is created by a subscription (checked: it has seen the flag and
\* not taken the lock), except the attached one, which the bus holds at first.
ReceiverState == {"none", "held", "checked", "open", "ended", "dropped"}

NoEvent == [from |-> Root, n |-> 1, after |-> [e \in Emitter |-> 0]]

Idle == [stage |-> "idle", event |-> NoEvent, targets |-> << >>]

Init ==
    /\ observers = <<Attached>>
    /\ closed = FALSE
    /\ receiver = [r \in Receiver |-> IF r = Attached THEN "held" ELSE "none"]
    /\ queue = [r \in Receiver |-> << >>]
    /\ task = [e \in Emitter |-> Idle]
    /\ emitted = [e \in Emitter |-> 0]
    /\ cancelled = FALSE
    /\ finished = [e \in Emitter |-> 0]
    /\ excused = {}
    /\ since = [r \in Receiver |-> [e \in Emitter |-> 0]]
    /\ got = [r \in Receiver |-> << >>]

Members(s) == {s[i] : i \in 1..Len(s)}

\* A sender for r exists: in the list, in a clone of it, or in a subscription.
Connected(r) ==
    \/ r \in Members(observers)
    \/ \E e \in Emitter : r \in Members(task[e].targets)
    \/ receiver[r] = "checked"

\* Faulty variant: a receiver that was dropped still exerts back-pressure.
AliveForEver(r) == receiver[r] # "none"

Alive(r) == receiver[r] \in {"held", "checked", "open"}

-----------------------------------------------------------------------------
(* The caller: RunHandle::events, run_with_options, and a dropped stream. *)

Caller == UNCHANGED <<closed, task, emitted, cancelled, finished, excused>>

\* events takes the attached receiver if the bus still has it.
TakeAttached ==
    /\ receiver[Attached] = "held"
    /\ receiver' = [receiver EXCEPT ![Attached] = "open"]
    /\ Caller /\ UNCHANGED <<observers, queue, since, got>>

DetachAttached ==
    /\ receiver[Attached] = "held"
    /\ receiver' = [receiver EXCEPT ![Attached] = "dropped"]
    /\ queue' = [queue EXCEPT ![Attached] = << >>]
    /\ Caller /\ UNCHANGED <<observers, since, got>>

\* Otherwise it subscribes: subscribe looks at the flag before it takes the
\* lock, and a subscription to a closed bus has no sender.
CheckClosed(r) ==
    /\ receiver[Attached] # "held"
    /\ receiver[r] = "none"
    /\ receiver' = [receiver EXCEPT ![r] = IF closed THEN "open" ELSE "checked"]
    /\ since' = IF closed THEN [since EXCEPT ![r] = MaxEvents] ELSE since
    /\ Caller /\ UNCHANGED <<observers, queue, got>>

PushSender(r) ==
    /\ receiver[r] = "checked"
    /\ receiver' = [receiver EXCEPT ![r] = "open"]
    /\ observers' = Append(observers, r)
    /\ since' = [since EXCEPT ![r] = emitted]
    /\ Caller /\ UNCHANGED <<queue, got>>

Receive(r) ==
    /\ receiver[r] = "open"
    /\ queue[r] # << >>
    /\ got' = [got EXCEPT ![r] = Append(@, Head(queue[r]))]
    /\ queue' = [queue EXCEPT ![r] = Tail(@)]
    /\ Caller /\ UNCHANGED <<observers, receiver, since>>

\* The channel is empty and its last sender is gone: the stream ends.
EndOfStream(r) ==
    /\ receiver[r] = "open"
    /\ queue[r] = << >>
    /\ ~Connected(r)
    /\ receiver' = [receiver EXCEPT ![r] = "ended"]
    /\ Caller /\ UNCHANGED <<observers, queue, since, got>>

DropReceiver(r) ==
    /\ receiver[r] = "open"
    /\ receiver' = [receiver EXCEPT ![r] = "dropped"]
    /\ queue' = [queue EXCEPT ![r] = << >>]
    /\ got' = [got EXCEPT ![r] = << >>]
    /\ since' = [since EXCEPT ![r] = [e \in Emitter |-> 0]]
    /\ Caller /\ UNCHANGED observers

CancelRun ==
    /\ ~cancelled
    /\ ~closed
    /\ cancelled' = TRUE
    /\ UNCHANGED <<observers, closed, receiver, queue, task, emitted, history>>

-----------------------------------------------------------------------------
(* The emitters. *)

\* emit clones the list.
BeginEmit(e) ==
    /\ task[e].stage = "idle"
    /\ emitted[e] < MaxEvents[e]
    /\ emitted' = [emitted EXCEPT ![e] = @ + 1]
    /\ task' = [task EXCEPT ![e] =
                  [stage |-> "sending", targets |-> observers,
                   event |-> [from |-> e, n |-> emitted[e] + 1, after |-> finished]]]
    /\ excused' = IF task[Root].stage = "over"
                  THEN excused \cup {<<e, emitted[e] + 1>>} ELSE excused
    /\ UNCHANGED <<observers, closed, receiver, queue, cancelled, finished, since, got>>

\* Faulty variant: an event is sent to an observer only if there is room.
SendIfRoom(e) ==
    /\ task[e].stage = "sending"
    /\ task[e].targets # << >>
    /\ LET r == Head(task[e].targets) IN
          queue' = IF Alive(r) /\ Len(queue[r]) < Capacity
                   THEN [queue EXCEPT ![r] = Append(@, task[e].event)]
                   ELSE queue
    /\ task' = [task EXCEPT ![e].targets = Tail(@)]
    /\ UNCHANGED <<observers, closed, receiver, emitted, cancelled, history>>

\* Faulty variant: a send does not wait for room.
SendUnbounded(e) ==
    /\ task[e].stage = "sending"
    /\ task[e].targets # << >>
    /\ LET r == Head(task[e].targets) IN
          queue' = IF Alive(r) THEN [queue EXCEPT ![r] = Append(@, task[e].event)] ELSE queue
    /\ task' = [task EXCEPT ![e].targets = Tail(@)]
    /\ UNCHANGED <<observers, closed, receiver, emitted, cancelled, history>>

\* Faulty variant: the newest event overtakes what the channel holds.
SendFirst(e) ==
    /\ task[e].stage = "sending"
    /\ task[e].targets # << >>
    /\ LET r == Head(task[e].targets) IN
          /\ Alive(r) => Len(queue[r]) < Capacity
          /\ queue' = IF Alive(r) THEN [queue EXCEPT ![r] = <<task[e].event>> \o @] ELSE queue
    /\ task' = [task EXCEPT ![e].targets = Tail(@)]
    /\ UNCHANGED <<observers, closed, receiver, emitted, cancelled, history>>

\* One send: it waits for room, and fails at once if the receiver is gone.
Send(e) ==
    /\ task[e].stage = "sending"
    /\ task[e].targets # << >>
    /\ LET r == Head(task[e].targets) IN
          /\ Alive(r) => Len(queue[r]) < Capacity
          /\ queue' = IF Alive(r) THEN [queue EXCEPT ![r] = Append(@, task[e].event)] ELSE queue
    /\ task' = [task EXCEPT ![e].targets = Tail(@)]
    /\ UNCHANGED <<observers, closed, receiver, emitted, cancelled, history>>

\* Vec::retain: the senders whose receivers are there, in the order they have.
Retained(kept) ==
    /\ Members(kept) = {r \in Members(observers) : Alive(r)}
    /\ \A j \in 1..Len(kept) : \A i \in 1..(j - 1) :
          \E b \in 1..Len(observers) : \E a \in 1..(b - 1) :
             observers[a] = kept[i] /\ observers[b] = kept[j]

\* Every observer was served: receivers that are gone leave the list.
Prune(e) ==
    /\ task[e].stage = "sending"
    /\ task[e].targets = << >>
    /\ \E n \in 0..Len(observers) : \E kept \in [1..n -> Members(observers)] :
          Retained(kept) /\ observers' = kept
    /\ finished' = [finished EXCEPT ![e] = @ + 1]
    /\ task' = [task EXCEPT ![e] = Idle]
    /\ UNCHANGED <<closed, receiver, queue, emitted, cancelled, excused, since, got>>

\* A provider attempt that is cancelled is dropped after its grace period,
\* wherever it is: observers not yet served do not get the delta.
AbandonDelta(e) ==
    /\ cancelled
    /\ task[e].stage = "sending"
    /\ <<e, task[e].event.n>> \in Delta
    /\ task' = [task EXCEPT ![e] = Idle]
    /\ finished' = [finished EXCEPT ![e] = @ + 1]
    /\ excused' = excused \cup {<<e, task[e].event.n>>}
    /\ UNCHANGED <<observers, closed, receiver, queue, emitted, cancelled, since, got>>

\* A child run is over.
LeaveBus(e) ==
    /\ e # Root
    /\ task[e].stage = "idle"
    /\ task' = [task EXCEPT ![e].stage = "over"]
    /\ UNCHANGED <<observers, closed, receiver, queue, emitted, cancelled, history>>

\* close: first the flag, then the list.
SetClosed ==
    /\ task[Root].stage = "idle"
    /\ closed' = TRUE
    /\ task' = [task EXCEPT ![Root].stage = "closing"]
    /\ UNCHANGED <<observers, receiver, queue, emitted, cancelled, history>>

\* Faulty variant: the senders stay in the list.
KeepObservers ==
    /\ task[Root].stage = "closing"
    /\ task' = [task EXCEPT ![Root].stage = "over"]
    /\ UNCHANGED <<observers, closed, receiver, queue, emitted, cancelled, history>>

ClearObservers ==
    /\ task[Root].stage = "closing"
    /\ observers' = << >>
    /\ task' = [task EXCEPT ![Root].stage = "over"]
    /\ UNCHANGED <<closed, receiver, queue, emitted, cancelled, history>>

\* Every task is over and the callers do nothing more.
Over ==
    /\ \A e \in Emitter : task[e].stage = "over"
    /\ UNCHANGED vars

-----------------------------------------------------------------------------

EmitStep(e) ==
    \/ BeginEmit(e) \/ Send(e) \/ Prune(e) \/ AbandonDelta(e) \/ LeaveBus(e)
    \/ e = Root /\ (SetClosed \/ ClearObservers)

ReadStep(r) == PushSender(r) \/ Receive(r) \/ EndOfStream(r)

Next ==
    \/ \E e \in Emitter : EmitStep(e)
    \/ \E r \in Receiver : ReadStep(r) \/ CheckClosed(r) \/ DropReceiver(r)
    \/ TakeAttached \/ DetachAttached \/ CancelRun
    \/ Over

Spec == Init /\ [][Next]_vars

\* The tasks are scheduled, and a stream that a caller holds is read.  Nobody
\* has to take the attached receiver, nor to drop anything.
LiveSpec ==
    /\ Spec
    /\ \A e \in Emitter : WF_vars(EmitStep(e))
    /\ \A r \in Receiver : WF_vars(ReadStep(r))

-----------------------------------------------------------------------------
(* Properties. *)

Task ==
    [stage : {"idle", "sending", "closing", "over"},
     event : Event, targets : Seq(Receiver)]

\* No channel ever holds more than its capacity, and the bus is well formed.
TypeOK ==
    /\ observers \in Seq(Receiver)
    /\ {closed, cancelled} \subseteq BOOLEAN
    /\ receiver \in [Receiver -> ReceiverState]
    /\ queue \in [Receiver -> Seq(Event)]
    /\ \A r \in Receiver : Len(queue[r]) <= Capacity
    /\ task \in [Emitter -> Task]
    /\ {emitted, finished} \subseteq [Emitter -> Nat]
    /\ excused \subseteq Emitter \X Nat
    /\ since \in [Receiver -> [Emitter -> Nat]]
    /\ got \in [Receiver -> Seq(Event)]

Stream(r) == got[r] \o queue[r]

\* "Attached events are never silently dropped or reordered": what was emitted
\* completely before another emission began is never read after it, whichever
\* tasks they came from, and nothing is read twice.
NeverReordered ==
    \A r \in Receiver : \A j \in 1..Len(Stream(r)) : \A i \in 1..(j - 1) :
        LET earlier == Stream(r)[i]
            later == Stream(r)[j]
        IN  /\ later # earlier
            /\ later.n > earlier.after[later.from]

\* A receiver that is still there gets every event begun after its subscription
\* and before the bus was closed, but for a delta that a cancellation cut off.
NeverDropped ==
    \A r \in Receiver : receiver[r] \in {"held", "open", "ended"} =>
        \A e \in Emitter : \A n \in (since[r][e] + 1)..finished[e] :
            <<e, n>> \in excused \/ \E i \in 1..Len(Stream(r)) :
                                       Stream(r)[i].from = e /\ Stream(r)[i].n = n

\* A run whose attached receiver was taken or detached closes its bus, so its
\* result is published: no observer who reads or drops what he holds stops it
\* (emit awaits every full channel).  And a stream ends: one that was subscribed
\* before the list was cleared, and one that never had a sender.  A subscription
\* that reads the flag before it is set and takes the lock after the list was
\* cleared is neither: its sender stays in the closed bus, and its stream ends
\* only when every handle is dropped.
BusCloses ==
    /\ receiver[Attached] # "held" ~> task[Root].stage = "over"
    /\ \A r \in Receiver :
          /\ receiver[Attached] # "held"
          /\ receiver[r] = "open"
          /\ task[Root].stage # "over" \/ ~Connected(r)
          ~> receiver[r] \in {"ended", "dropped"}
=============================================================================
