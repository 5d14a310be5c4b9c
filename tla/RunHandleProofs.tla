-------------------------- MODULE RunHandleProofs --------------------------
(***************************************************************************)
(* Proofs about the two objects that the tasks of a run and the holders of *)
(* its handle share: the event bus and the cancellation token.             *)
(*                                                                         *)
(* EventBus, for every set of emitters and receivers, every capacity and   *)
(* every number of events: no channel exceeds its capacity, what was       *)
(* emitted completely before another event began is never read after it,   *)
(* and a receiver that is still there is sent every event begun after its  *)
(* subscription and before the close, but for a delta that a cancellation  *)
(* cut off.                                                                *)
(*                                                                         *)
(* CancellationToken, for any number of callers: a request that returned   *)
(* has taken effect, and the token implements AtomicToken.  What happens   *)
(* under the lock is seen as one step because the flag is stored before    *)
(* the lock is released: while it is free, a recorded reason and a set     *)
(* flag go together.                                                       *)
(***************************************************************************)
EXTENDS EventBus, CancellationToken, SequenceTheorems, TLAPS

-----------------------------------------------------------------------------
(* The event bus: the inductive invariant. *)

\* An emitter has at most one emission under way, the last it began.
Counted ==
    \A e \in Emitter :
        /\ emitted[e] <= MaxEvents[e]
        /\ task[e].stage = "sending" =>
              /\ finished[e] + 1 = emitted[e]
              /\ task[e].event.from = e
              /\ task[e].event.n = emitted[e]
              /\ \A x \in Emitter : task[e].event.after[x] <= finished[x]
        /\ task[e].stage # "sending" => finished[e] = emitted[e] /\ task[e].targets = << >>

Distinct(s) == \A i, j \in 1..Len(s) : s[i] = s[j] => i = j

\* A sender is in a list at most once, and only for a receiver that has one.
Unlisted(r) ==
    /\ r \notin Members(observers)
    /\ \A e \in Emitter : r \notin Members(task[e].targets)

Senders ==
    /\ Distinct(observers)
    /\ \A e \in Emitter : Distinct(task[e].targets)
    /\ \A r \in Receiver : receiver[r] \in {"none", "checked", "ended"} => Unlisted(r)
    /\ \A r \in Receiver : receiver[r] \in {"none", "held", "checked"} => got[r] = << >>
    /\ \A r \in Receiver : receiver[r] \in {"none", "checked"} => queue[r] = << >>

\* A receiver that is there has its sender in the list, until the list is cleared
\* or if it was subscribed after the close.
Listed ==
    \A r \in Receiver : receiver[r] \in {"held", "open", "ended"} =>
        \/ r \in Members(observers)
        \/ task[Root].stage = "over"
        \/ \A e \in Emitter : since[r][e] >= MaxEvents[e]

InStream(r, e, n) ==
    \E i \in 1..Len(Stream(r)) : Stream(r)[i].from = e /\ Stream(r)[i].n = n

\* What is in a stream was begun, after emissions that were over.
Known ==
    \A r \in Receiver : \A i \in 1..Len(Stream(r)) :
        /\ Stream(r)[i].n <= emitted[Stream(r)[i].from]
        /\ \A x \in Emitter : Stream(r)[i].after[x] <= finished[x]

\* An event is sent to each observer once.
Unsent ==
    \A e \in Emitter : \A r \in Members(task[e].targets) : ~InStream(r, e, emitted[e])

\* An event under way has reached an observer, or will.
Underway ==
    \A r \in Receiver, e \in Emitter :
        /\ receiver[r] \in {"held", "open", "ended"}
        /\ task[e].stage = "sending"
        /\ since[r][e] < emitted[e]
        => \/ <<e, emitted[e]>> \in excused
           \/ r \in Members(task[e].targets)
           \/ InStream(r, e, emitted[e])

Inv ==
    /\ TypeOK /\ Counted /\ Senders /\ Listed
    /\ Known /\ Unsent /\ NeverReordered /\ Underway /\ NeverDropped

-----------------------------------------------------------------------------
(* Lists and streams. *)

LEMMA MembersTail ==
    ASSUME NEW S, NEW s \in Seq(S), s # << >>
    PROVE  /\ Members(s) = {Head(s)} \cup Members(Tail(s))
           /\ Distinct(s) => Distinct(Tail(s)) /\ Head(s) \notin Members(Tail(s))
<1>1. /\ Len(s) \in Nat \ {0} /\ Head(s) = s[1]
      /\ Tail(s) \in Seq(S) /\ Len(Tail(s)) = Len(s) - 1
      /\ \A i \in 1..(Len(s) - 1) : Tail(s)[i] = s[i + 1]
  BY HeadTailProperties
<1>2. \A i \in 1..Len(s) : i = 1 \/ (i - 1 \in 1..(Len(s) - 1) /\ s[i] = Tail(s)[i - 1])
  BY <1>1
<1>3. \A i \in 1..(Len(s) - 1) : i + 1 \in 1..Len(s)
  BY <1>1
<1>4. Members(s) = {Head(s)} \cup Members(Tail(s))
  <2>1. ASSUME NEW x \in Members(s)
        PROVE  x \in {Head(s)} \cup Members(Tail(s))
    BY <1>1, <1>2 DEF Members
  <2>2. ASSUME NEW x \in {Head(s)} \cup Members(Tail(s))
        PROVE  x \in Members(s)
    BY <1>1, <1>3 DEF Members
  <2>3. QED
    BY <2>1, <2>2
<1>5. ASSUME Distinct(s)
      PROVE  Distinct(Tail(s))
  <2>1. ASSUME NEW i \in 1..(Len(s) - 1), NEW j \in 1..(Len(s) - 1), Tail(s)[i] = Tail(s)[j]
        PROVE  i = j
    <3>1. i + 1 = j + 1
      BY <1>1, <1>3, <1>5, <2>1 DEF Distinct
    <3>2. QED
      BY <1>1, <3>1
  <2>2. QED
    BY <1>1, <2>1 DEF Distinct
<1>6. ASSUME Distinct(s), NEW i \in 1..Len(Tail(s)), Tail(s)[i] = Head(s)
      PROVE  FALSE
  <2>1. i + 1 = 1
    BY <1>1, <1>3, <1>6 DEF Distinct
  <2>2. QED
    BY <1>1, <2>1
<1>7. QED
  BY <1>4, <1>5, <1>6 DEF Members

LEMMA MembersAppend ==
    ASSUME NEW S, NEW s \in Seq(S), NEW x \in S
    PROVE  /\ Members(Append(s, x)) = Members(s) \cup {x}
           /\ Distinct(s) /\ x \notin Members(s) => Distinct(Append(s, x))
<1> DEFINE t == Append(s, x)
<1>1. /\ Len(t) = Len(s) + 1 /\ Len(s) \in Nat
      /\ \A i \in 1..Len(s) : t[i] = s[i]
      /\ t[Len(s) + 1] = x
  BY AppendProperties
<1> HIDE DEF t
<1>2. \A i \in 1..Len(t) : i \in 1..Len(s) \/ i = Len(s) + 1
  BY <1>1
<1>3. Members(t) = Members(s) \cup {x}
  <2>1. ASSUME NEW y \in Members(t) PROVE y \in Members(s) \cup {x}
    BY <1>1, <1>2 DEF Members
  <2>2. ASSUME NEW y \in Members(s) \cup {x} PROVE y \in Members(t)
    BY <1>1 DEF Members
  <2>3. QED
    BY <2>1, <2>2
<1>4. ASSUME Distinct(s), x \notin Members(s)
      PROVE  Distinct(t)
  BY <1>1, <1>2, <1>4 DEF Distinct, Members
<1>5. QED
  BY <1>3, <1>4 DEF t

\* Pruning keeps the order, so no sender is doubled.
LEMMA RetainedList ==
    ASSUME observers \in Seq(Receiver), Distinct(observers),
           NEW n \in 0..Len(observers), NEW kept \in [1..n -> Members(observers)], Retained(kept)
    PROVE  /\ kept \in Seq(Receiver)
           /\ Distinct(kept)
           /\ Members(kept) = {r \in Members(observers) : Alive(r)}
<1>1. n \in Nat /\ Members(observers) \subseteq Receiver /\ Len(observers) \in Nat
  BY DEF Members
<1>2. kept \in Seq(Receiver) /\ Len(kept) = n
  BY <1>1
<1>3. ASSUME NEW j \in 1..n, NEW i \in 1..n, i < j, kept[i] = kept[j]
      PROVE  FALSE
  <2>1. i \in 1..(j - 1)
    BY <1>1, <1>3
  <2>2. PICK b \in 1..Len(observers) : \E a \in 1..(b - 1) :
           observers[a] = kept[i] /\ observers[b] = kept[j]
    BY <1>2, <2>1 DEF Retained
  <2>3. PICK a \in 1..(b - 1) : observers[a] = kept[i] /\ observers[b] = kept[j]
    BY <2>2
  <2>4. a \in 1..Len(observers) /\ a # b
    BY <1>1
  <2>5. QED
    BY <1>3, <2>3, <2>4 DEF Distinct
<1>4. Distinct(kept)
  BY <1>1, <1>2, <1>3 DEF Distinct
<1>5. QED
  BY <1>2, <1>4 DEF Retained

\* The conjuncts of TypeOK that are written as inclusions.
LEMMA Types ==
    ASSUME TypeOK
    PROVE  /\ emitted \in [Emitter -> Nat] /\ finished \in [Emitter -> Nat]
           /\ closed \in BOOLEAN /\ cancelled \in BOOLEAN
           /\ MaxEvents \in [Emitter -> Nat \ {0}]
           /\ \A r \in Receiver : /\ queue[r] \in Seq(Event) /\ got[r] \in Seq(Event)
                                  /\ Stream(r) \in Seq(Event)
           /\ \A e \in Emitter : /\ task[e].event \in Event
                                 /\ task[e].targets \in Seq(Receiver)
                                 /\ task[e].stage \in {"idle", "sending", "closing", "over"}
<1>1. \A r \in Receiver : queue[r] \in Seq(Event) /\ got[r] \in Seq(Event)
  BY DEF TypeOK
<1>2. \A r \in Receiver : Stream(r) \in Seq(Event)
  BY <1>1, ConcatProperties DEF Stream
<1>3. \A e \in Emitter : /\ task[e].event \in Event
                         /\ task[e].targets \in Seq(Receiver)
                         /\ task[e].stage \in {"idle", "sending", "closing", "over"}
  BY DEF TypeOK, Task
<1>4. QED
  BY <1>1, <1>2, <1>3, BusAssumption DEF TypeOK

\* What a send that finds its receiver does to the stream, and a read does not.
LEMMA StreamGrows ==
    ASSUME NEW g \in Seq(Event), NEW q \in Seq(Event), NEW ev \in Event
    PROVE  /\ g \o Append(q, ev) = Append(g \o q, ev)
           /\ q # << >> => Append(g, Head(q)) \o Tail(q) = g \o q
<1>1. g \o Append(q, ev) = Append(g \o q, ev)
  <2>1. Append(q, ev) = q \o <<ev>> /\ Append(g \o q, ev) = (g \o q) \o <<ev>>
    BY AppendIsConcat, ConcatProperties
  <2>2. <<ev>> \in Seq(Event)
    OBVIOUS
  <2>3. QED
    BY <2>1, <2>2, ConcatAssociative
<1>2. ASSUME q # << >>
      PROVE  Append(g, Head(q)) \o Tail(q) = g \o q
  <2>1. /\ Head(q) \in Event /\ Tail(q) \in Seq(Event)
        /\ <<Head(q)>> \in Seq(Event)
    BY <1>2, HeadTailProperties
  <2>2. <<Head(q)>> \o Tail(q) = q
    BY <1>2
  <2>3. Append(g, Head(q)) = g \o <<Head(q)>>
    BY <2>1, AppendIsConcat
  <2>4. QED
    BY <2>1, <2>2, <2>3, ConcatAssociative
<1>3. QED
  BY <1>1, <1>2

-----------------------------------------------------------------------------
(* The types. *)

\* The steps of Next, one by one.
LEMMA Steps ==
    ASSUME [Next]_vars
    PROVE  \/ \E e \in Emitter : BeginEmit(e) \/ Send(e) \/ Prune(e) \/ AbandonDelta(e) \/ LeaveBus(e)
           \/ SetClosed \/ ClearObservers
           \/ \E r \in Receiver :
                 PushSender(r) \/ Receive(r) \/ EndOfStream(r) \/ CheckClosed(r) \/ DropReceiver(r)
           \/ TakeAttached \/ DetachAttached
           \/ CancelRun \/ UNCHANGED vars
BY DEF Next, EmitStep, ReadStep, Over

LEMMA EmitterTypes ==
    ASSUME TypeOK, NEW e \in Emitter,
           BeginEmit(e) \/ Send(e) \/ Prune(e) \/ AbandonDelta(e) \/ LeaveBus(e)
    PROVE  TypeOK'
<1>1. /\ observers \in Seq(Receiver) /\ task \in [Emitter -> Task] /\ task[e] \in Task
      /\ queue \in [Receiver -> Seq(Event)]
      /\ excused \subseteq Emitter \X Nat
      /\ emitted \in [Emitter -> Nat] /\ finished \in [Emitter -> Nat]
      /\ \A r \in Receiver : Len(queue[r]) <= Capacity
  BY Types DEF TypeOK
<1>2. Idle \in Task
  BY BusAssumption DEF Idle, NoEvent, Task, Event
<1>3. CASE BeginEmit(e)
  <2> DEFINE ev == [from |-> e, n |-> emitted[e] + 1, after |-> finished]
  <2>1. emitted[e] \in Nat /\ emitted[e] + 1 \in Nat \ {0}
    BY <1>1
  <2>2. ev \in Event
    BY <1>1, <2>1 DEF Event
  <2>3. emitted' = [emitted EXCEPT ![e] = emitted[e] + 1]
    BY <1>3 DEF BeginEmit
  <2>4. excused' \in {excused, excused \cup {<<e, emitted[e] + 1>>}}
    BY <1>3 DEF BeginEmit
  <2>5. /\ task' = [task EXCEPT ![e] = [stage |-> "sending", targets |-> observers, event |-> ev]]
        /\ UNCHANGED <<observers, closed, receiver, queue, cancelled, finished, since, got>>
    BY <1>3 DEF BeginEmit
  <2> HIDE DEF ev
  <2>6. [stage |-> "sending", targets |-> observers, event |-> ev] \in Task
    BY <1>1, <2>2 DEF Task
  <2>7. task' \in [Emitter -> Task] /\ emitted' \in [Emitter -> Nat]
    BY <1>1, <2>1, <2>3, <2>5, <2>6
  <2>8. excused' \subseteq Emitter \X Nat
    BY <1>1, <2>1, <2>4
  <2>9. QED
    BY <2>5, <2>7, <2>8 DEF TypeOK
<1>4. CASE Send(e)
  <2> DEFINE r == Head(task[e].targets)
  <2>1. /\ task[e].targets # << >> /\ task[e].targets \in Seq(Receiver) /\ task[e].event \in Event
        /\ Alive(r) => Len(queue[r]) < Capacity
        /\ queue' = IF Alive(r) THEN [queue EXCEPT ![r] = Append(queue[r], task[e].event)] ELSE queue
        /\ task' = [task EXCEPT ![e].targets = Tail(task[e].targets)]
        /\ UNCHANGED <<observers, closed, receiver, emitted, cancelled, finished, excused, since, got>>
    BY <1>1, <1>4 DEF Send, Task, history
  <2>2. r \in Receiver /\ Tail(task[e].targets) \in Seq(Receiver)
    BY <2>1, HeadTailProperties
  <2> HIDE DEF r
  <2>3. task' \in [Emitter -> Task]
    BY <1>1, <2>1, <2>2 DEF Task
  <2>4. /\ Append(queue[r], task[e].event) \in Seq(Event)
        /\ Len(Append(queue[r], task[e].event)) = Len(queue[r]) + 1
        /\ Len(queue[r]) \in Nat
    BY <1>1, <2>1, <2>2, AppendProperties
  <2>5. queue' \in [Receiver -> Seq(Event)]
    BY <1>1, <2>1, <2>2, <2>4
  <2>6. ASSUME NEW q \in Receiver
        PROVE  Len(queue'[q]) <= Capacity
    BY <1>1, <2>1, <2>2, <2>4, BusAssumption
  <2>7. QED
    BY <2>1, <2>3, <2>5, <2>6 DEF TypeOK
<1>5. CASE Prune(e)
  <2>1. PICK n \in 0..Len(observers) : \E kept \in [1..n -> Members(observers)] : observers' = kept
    BY <1>5 DEF Prune
  <2>2. observers' \in [1..n -> Members(observers)]
    BY <2>1
  <2>3. Members(observers) \subseteq Receiver /\ n \in Nat
    BY <1>1 DEF Members
  <2>4. observers' \in Seq(Receiver)
    BY <2>2, <2>3
  <2>5. /\ finished' = [finished EXCEPT ![e] = finished[e] + 1]
        /\ task' = [task EXCEPT ![e] = Idle]
        /\ UNCHANGED <<closed, receiver, queue, emitted, cancelled, excused, since, got>>
    BY <1>5 DEF Prune
  <2>6. task' \in [Emitter -> Task] /\ finished' \in [Emitter -> Nat]
    BY <1>1, <1>2, <2>5
  <2>7. QED
    BY <2>4, <2>5, <2>6 DEF TypeOK
<1>6. CASE AbandonDelta(e)
  <2>1. /\ finished' = [finished EXCEPT ![e] = finished[e] + 1]
        /\ task' = [task EXCEPT ![e] = Idle]
        /\ excused' = excused \cup {<<e, task[e].event.n>>}
        /\ UNCHANGED <<observers, closed, receiver, queue, emitted, cancelled, since, got>>
    BY <1>6 DEF AbandonDelta
  <2>2. task' \in [Emitter -> Task] /\ finished' \in [Emitter -> Nat]
    BY <1>1, <1>2, <2>1
  <2>3. task[e].event.n \in Nat
    BY <1>1 DEF Task, Event
  <2>4. QED
    BY <1>1, <2>1, <2>2, <2>3 DEF TypeOK
<1>7. CASE LeaveBus(e)
  <2>1. [task[e] EXCEPT !.stage = "over"] \in Task
    BY <1>1 DEF Task
  <2>2. task' = [task EXCEPT ![e] = [task[e] EXCEPT !.stage = "over"]]
    BY <1>7 DEF LeaveBus
  <2>3. task' \in [Emitter -> Task]
    BY <1>1, <2>1, <2>2
  <2>4. QED
    BY <1>7, <2>3 DEF LeaveBus, TypeOK, history
<1>8. QED
  BY <1>3, <1>4, <1>5, <1>6, <1>7

LEMMA CallerTypes ==
    ASSUME TypeOK, NEW r \in Receiver,
           PushSender(r) \/ Receive(r) \/ EndOfStream(r) \/ CheckClosed(r) \/ DropReceiver(r)
    PROVE  TypeOK'
<1>1. /\ observers \in Seq(Receiver) /\ receiver \in [Receiver -> ReceiverState]
      /\ queue \in [Receiver -> Seq(Event)] /\ got \in [Receiver -> Seq(Event)]
      /\ since \in [Receiver -> [Emitter -> Nat]]
      /\ emitted \in [Emitter -> Nat]
      /\ \A q \in Receiver : Len(queue[q]) <= Capacity
  BY Types DEF TypeOK
<1>2. MaxEvents \in [Emitter -> Nat] /\ [e \in Emitter |-> 0] \in [Emitter -> Nat] /\ Capacity \in Nat
  BY BusAssumption
<1>3. /\ receiver' \in [Receiver -> ReceiverState]
      /\ Caller
  BY <1>1 DEF PushSender, Receive, EndOfStream, CheckClosed, DropReceiver, ReceiverState
<1>4. observers' \in Seq(Receiver)
  <2>1. observers' \in {observers, Append(observers, r)}
    BY DEF PushSender, Receive, EndOfStream, CheckClosed, DropReceiver
  <2>2. Append(observers, r) \in Seq(Receiver)
    BY <1>1, AppendProperties
  <2>3. QED
    BY <1>1, <2>1, <2>2
<1>5. since' \in [Receiver -> [Emitter -> Nat]]
  BY <1>1, <1>2 DEF PushSender, Receive, EndOfStream, CheckClosed, DropReceiver
<1>6. CASE Receive(r)
  <2>1. /\ queue[r] # << >>
        /\ got' = [got EXCEPT ![r] = Append(got[r], Head(queue[r]))]
        /\ queue' = [queue EXCEPT ![r] = Tail(queue[r])]
    BY <1>6 DEF Receive
  <2>2. /\ Head(queue[r]) \in Event /\ Tail(queue[r]) \in Seq(Event)
        /\ Len(Tail(queue[r])) = Len(queue[r]) - 1 /\ Len(queue[r]) \in Nat
    BY <1>1, <2>1, HeadTailProperties
  <2>3. Append(got[r], Head(queue[r])) \in Seq(Event)
    BY <1>1, <2>2, AppendProperties
  <2>4. queue' \in [Receiver -> Seq(Event)] /\ got' \in [Receiver -> Seq(Event)]
    BY <1>1, <2>1, <2>2, <2>3
  <2>5. ASSUME NEW q \in Receiver
        PROVE  Len(queue'[q]) <= Capacity
    BY <1>1, <1>2, <2>1, <2>2
  <2>6. QED
    BY <1>3, <1>4, <1>5, <2>4, <2>5 DEF TypeOK, Caller
<1>7. CASE ~Receive(r)
  <2>1. queue' \in {queue, [queue EXCEPT ![r] = << >>]} /\ got' \in {got, [got EXCEPT ![r] = << >>]}
    BY <1>7 DEF PushSender, Receive, EndOfStream, CheckClosed, DropReceiver
  <2>2. << >> \in Seq(Event) /\ Len(<< >>) = 0
    OBVIOUS
  <2>3. queue' \in [Receiver -> Seq(Event)] /\ got' \in [Receiver -> Seq(Event)]
    BY <1>1, <2>1, <2>2
  <2>4. ASSUME NEW q \in Receiver
        PROVE  Len(queue'[q]) <= Capacity
    <3>1. queue'[q] \in {queue[q], << >>}
      BY <1>1, <2>1
    <3>2. 0 <= Capacity
      BY <1>2
    <3>3. QED
      BY <1>1, <2>2, <3>1, <3>2
  <2>5. QED
    BY <1>3, <1>4, <1>5, <2>3, <2>4 DEF TypeOK, Caller
<1>8. QED
  BY <1>6, <1>7

LEMMA StepKeepsTypes ==
    ASSUME TypeOK, [Next]_vars
    PROVE  TypeOK'
<1>1. Root \in Emitter /\ Attached \in Receiver /\ Capacity \in Nat
  BY BusAssumption
<1>2. CASE SetClosed \/ ClearObservers
  <2>1. task \in [Emitter -> Task] /\ task[Root] \in Task
    BY <1>1 DEF TypeOK
  <2>2. ASSUME NEW stage \in {"closing", "over"}
        PROVE  [task EXCEPT ![Root].stage = stage] \in [Emitter -> Task]
    BY <1>1, <2>1 DEF Task
  <2>3. task' \in [Emitter -> Task]
    BY <1>2, <2>2 DEF SetClosed, ClearObservers
  <2>4. << >> \in Seq(Receiver)
    OBVIOUS
  <2>5. QED
    BY <1>2, <2>3, <2>4 DEF SetClosed, ClearObservers, TypeOK, history
<1>3. CASE TakeAttached \/ DetachAttached
  <2>1. receiver' \in [Receiver -> ReceiverState]
    BY <1>1, <1>3 DEF TakeAttached, DetachAttached, TypeOK, ReceiverState
  <2>2. queue' \in {queue, [queue EXCEPT ![Attached] = << >>]}
    BY <1>3 DEF TakeAttached, DetachAttached
  <2>3. << >> \in Seq(Event) /\ Len(<< >>) = 0
    OBVIOUS
  <2>4. queue \in [Receiver -> Seq(Event)] /\ \A r \in Receiver : Len(queue[r]) <= Capacity
    BY DEF TypeOK
  <2>5. queue' \in [Receiver -> Seq(Event)]
    BY <1>1, <2>2, <2>3, <2>4
  <2>6. ASSUME NEW r \in Receiver
        PROVE  Len(queue'[r]) <= Capacity
    <3>1. queue'[r] \in {queue[r], << >>}
      BY <1>1, <2>2, <2>4
    <3>2. 0 <= Capacity
      BY <1>1
    <3>3. QED
      BY <2>3, <2>4, <3>1, <3>2
  <2>7. QED
    BY <1>3, <2>1, <2>5, <2>6 DEF TakeAttached, DetachAttached, TypeOK, Caller
<1>4. CASE CancelRun \/ UNCHANGED vars
  BY <1>4 DEF CancelRun, TypeOK, history, vars
<1>5. QED
  BY <1>2, <1>3, <1>4, EmitterTypes, CallerTypes, Steps

-----------------------------------------------------------------------------
(* The steps, as far as emissions and streams go. *)

Here(r) == receiver[r] \in {"held", "open", "ended"}

\* An emission ends, with every observer served or excused.
Finishes(e) ==
    /\ task[e].stage = "sending"
    /\ finished' = [finished EXCEPT ![e] = finished[e] + 1]
    /\ task' = [task EXCEPT ![e] = Idle]
    /\ excused \subseteq excused'
    /\ task[e].targets = << >> \/ <<e, task[e].event.n>> \in excused'
    /\ UNCHANGED <<receiver, queue, emitted, since, got>>

\* No emission moves.  A stream is dropped with its receiver or stays, and a
\* receiver that comes to be there is promised nothing that has begun.
Quiet ==
    /\ UNCHANGED <<emitted, finished, excused>>
    /\ \A e \in Emitter :
          /\ task'[e].targets = task[e].targets
          /\ task'[e].event = task[e].event
          /\ task'[e].stage = "sending" <=> task[e].stage = "sending"
    /\ \A r \in Receiver :
          /\ Stream(r)' = Stream(r) \/ (Stream(r)' = << >> /\ receiver'[r] = "dropped")
          /\ Here(r)' => \/ Here(r) /\ since'[r] = since[r]
                         \/ \A e \in Emitter : since'[r][e] >= emitted[e]

\* What a send does to a stream.
LEMMA SendMoves ==
    ASSUME TypeOK, NEW e \in Emitter, Send(e), NEW r \in Receiver
    PROVE  /\ r = Head(task[e].targets) /\ Alive(r)
                => Stream(r)' = Append(Stream(r), task[e].event)
           /\ ~(r = Head(task[e].targets) /\ Alive(r)) => Stream(r)' = Stream(r)
<1>1. /\ queue[r] \in Seq(Event) /\ got[r] \in Seq(Event) /\ task[e].event \in Event
      /\ queue \in [Receiver -> Seq(Event)]
  BY Types DEF TypeOK
<1>2. got' = got
  BY DEF Send, history
<1>3. ASSUME r = Head(task[e].targets), Alive(r)
      PROVE  Stream(r)' = Append(Stream(r), task[e].event)
  <2>1. queue'[r] = Append(queue[r], task[e].event)
    BY <1>1, <1>3 DEF Send
  <2>2. got[r] \o Append(queue[r], task[e].event) = Append(got[r] \o queue[r], task[e].event)
    BY <1>1, StreamGrows
  <2>3. QED
    BY <1>2, <2>1, <2>2 DEF Stream
<1>4. ASSUME ~(r = Head(task[e].targets) /\ Alive(r))
      PROVE  Stream(r)' = Stream(r)
  <2>1. queue'[r] = queue[r]
    BY <1>1, <1>4 DEF Send
  <2>2. QED
    BY <1>2, <2>1 DEF Stream
<1>5. QED
  BY <1>3, <1>4

\* A step of a caller is quiet.
LEMMA CallerIsQuiet ==
    ASSUME TypeOK, Counted, NEW q \in Receiver,
           PushSender(q) \/ Receive(q) \/ EndOfStream(q) \/ CheckClosed(q) \/ DropReceiver(q)
    PROVE  Quiet
<1>1. /\ queue \in [Receiver -> Seq(Event)] /\ got \in [Receiver -> Seq(Event)]
      /\ receiver \in [Receiver -> ReceiverState]
      /\ since \in [Receiver -> [Emitter -> Nat]]
      /\ emitted \in [Emitter -> Nat]
  BY Types DEF TypeOK
<1>2. Caller
  BY DEF PushSender, Receive, EndOfStream, CheckClosed, DropReceiver
<1>3. ASSUME NEW r \in Receiver
      PROVE  Stream(r)' = Stream(r) \/ (Stream(r)' = << >> /\ receiver'[r] = "dropped")
  <2>1. CASE Receive(q) /\ q = r
    <3>1. queue[r] # << >> /\ queue'[r] = Tail(queue[r]) /\ got'[r] = Append(got[r], Head(queue[r]))
      BY <1>1, <2>1 DEF Receive
    <3>2. Head(queue[r]) \in Event /\ queue[r] \in Seq(Event) /\ got[r] \in Seq(Event)
      BY <1>1, <3>1, HeadTailProperties
    <3>3. Append(got[r], Head(queue[r])) \o Tail(queue[r]) = got[r] \o queue[r]
      BY <3>1, <3>2, StreamGrows
    <3>4. QED
      BY <3>1, <3>3 DEF Stream
  <2>2. CASE DropReceiver(q) /\ q = r
    <3>1. queue'[r] = << >> /\ got'[r] = << >> /\ receiver'[r] = "dropped"
      BY <1>1, <2>2 DEF DropReceiver
    <3>2. QED
      BY <3>1 DEF Stream
  <2>3. CASE ~(Receive(q) /\ q = r) /\ ~(DropReceiver(q) /\ q = r)
    <3>1. queue'[r] = queue[r] /\ got'[r] = got[r]
      BY <1>1, <2>3 DEF PushSender, Receive, EndOfStream, CheckClosed, DropReceiver
    <3>2. QED
      BY <3>1 DEF Stream
  <2>4. QED
    BY <2>1, <2>2, <2>3
<1>4. ASSUME NEW r \in Receiver, Here(r)'
      PROVE  \/ Here(r) /\ since'[r] = since[r]
             \/ \A e \in Emitter : since'[r][e] >= emitted[e]
  <2>1. CASE PushSender(q) /\ q = r
    <3>1. since'[r] = emitted
      BY <1>1, <2>1 DEF PushSender
    <3>2. QED
      BY <1>1, <3>1
  <2>2. CASE CheckClosed(q) /\ q = r
    <3>1. closed
      BY <1>1, <1>4, <2>2 DEF CheckClosed, Here
    <3>2. since'[r] = MaxEvents
      BY <1>1, <2>2, <3>1 DEF CheckClosed
    <3>3. QED
      BY <1>1, <3>2, Types DEF Counted
  <2>3. CASE (DropReceiver(q) \/ EndOfStream(q) \/ Receive(q)) /\ q = r
    BY <1>1, <1>4, <2>3 DEF DropReceiver, EndOfStream, Receive, Here
  <2>4. CASE q # r
    <3>1. receiver'[r] = receiver[r] /\ since'[r] = since[r]
      BY <1>1, <2>4 DEF PushSender, Receive, EndOfStream, CheckClosed, DropReceiver
    <3>2. QED
      BY <1>4, <3>1 DEF Here
  <2>5. QED
    BY <2>1, <2>2, <2>3, <2>4
<1>5. QED
  BY <1>2, <1>3, <1>4 DEF Quiet, Caller

LEMMA Kinds ==
    ASSUME TypeOK, Counted, Senders, [Next]_vars
    PROVE  (\E e \in Emitter : BeginEmit(e) \/ Send(e) \/ Finishes(e)) \/ Quiet
<1>1. /\ queue \in [Receiver -> Seq(Event)] /\ task \in [Emitter -> Task]
      /\ receiver \in [Receiver -> ReceiverState]
      /\ Attached \in Receiver /\ Root \in Emitter
  BY BusAssumption DEF TypeOK
<1>2. ASSUME NEW e \in Emitter, Prune(e) \/ AbandonDelta(e)
      PROVE  Finishes(e)
  BY <1>2 DEF Prune, AbandonDelta, Finishes
<1>3. ASSUME UNCHANGED <<queue, got, receiver, since>>, NEW r \in Receiver
      PROVE  /\ Stream(r)' = Stream(r)
             /\ Here(r)' => Here(r) /\ since'[r] = since[r]
  BY <1>3 DEF Stream, Here
<1>4. ASSUME NEW e \in Emitter, task[e].stage \in {"idle", "closing"},
             NEW stage \in {"closing", "over"}, task' = [task EXCEPT ![e].stage = stage]
      PROVE  \A x \in Emitter : /\ task'[x].targets = task[x].targets
                                /\ task'[x].event = task[x].event
                                /\ task'[x].stage = "sending" <=> task[x].stage = "sending"
  BY <1>1, <1>4 DEF Task
<1>5. ASSUME NEW e \in Emitter, LeaveBus(e)
      PROVE  Quiet
  BY <1>3, <1>4, <1>5 DEF LeaveBus, history, Quiet
<1>6. CASE SetClosed \/ ClearObservers
  BY <1>1, <1>3, <1>4, <1>6 DEF SetClosed, ClearObservers, history, Quiet
<1>7. CASE TakeAttached
  <2>1. \A r \in Receiver : Stream(r)' = Stream(r)
    BY <1>7 DEF TakeAttached, Stream
  <2>2. \A r \in Receiver : Here(r)' => Here(r) /\ since'[r] = since[r]
    BY <1>1, <1>7 DEF TakeAttached, Here
  <2>3. QED
    BY <1>7, <2>1, <2>2 DEF TakeAttached, Caller, Quiet
<1>8. CASE DetachAttached
  <2>1. got[Attached] = << >> /\ got' = got
    BY <1>8, BusAssumption DEF DetachAttached, Senders
  <2>2. queue'[Attached] = << >> /\ receiver'[Attached] = "dropped"
    BY <1>1, <1>8 DEF DetachAttached
  <2>3. Stream(Attached)' = << >>
    BY <2>1, <2>2 DEF Stream
  <2>4. \A r \in Receiver : r = Attached \/ Stream(r)' = Stream(r)
    BY <1>1, <1>8, <2>1 DEF DetachAttached, Stream
  <2>5. \A r \in Receiver : Here(r)' => Here(r) /\ since'[r] = since[r]
    BY <1>1, <1>8 DEF DetachAttached, Here
  <2>6. QED
    BY <1>8, <2>2, <2>3, <2>4, <2>5 DEF DetachAttached, Caller, Quiet
<1>9. CASE CancelRun \/ UNCHANGED vars
  BY <1>3, <1>9 DEF CancelRun, history, vars, Quiet
<1>10. QED
  BY <1>2, <1>5, <1>6, <1>7, <1>8, <1>9, CallerIsQuiet, Steps
-----------------------------------------------------------------------------
(* The counts and the lists. *)

LEMMA StepKeepsCounts ==
    ASSUME TypeOK, Counted, Senders, [Next]_vars
    PROVE  Counted'
<1>1. /\ task \in [Emitter -> Task] /\ MaxEvents \in [Emitter -> Nat \ {0}]
      /\ emitted \in [Emitter -> Nat] /\ finished \in [Emitter -> Nat]
      /\ \A e \in Emitter : task[e].event.after \in [Emitter -> Nat]
  BY Types DEF TypeOK, Task, Event
<1>2. ASSUME NEW e \in Emitter, BeginEmit(e), NEW x \in Emitter
      PROVE  Counted!(x)'
  <2>1. /\ task[e].stage = "idle" /\ emitted[e] < MaxEvents[e]
        /\ emitted' = [emitted EXCEPT ![e] = emitted[e] + 1]
        /\ task' = [task EXCEPT ![e] =
                      [stage |-> "sending", targets |-> observers,
                       event |-> [from |-> e, n |-> emitted[e] + 1, after |-> finished]]]
        /\ finished' = finished
    BY <1>2 DEF BeginEmit
  <2>2. CASE x = e
    <3>1. /\ task'[e].stage = "sending" /\ task'[e].event.from = e
          /\ task'[e].event.n = emitted[e] + 1 /\ task'[e].event.after = finished
          /\ emitted'[e] = emitted[e] + 1
      BY <1>1, <2>1
    <3>2. finished[e] = emitted[e]
      BY <2>1 DEF Counted
    <3>3. QED
      BY <1>1, <2>1, <2>2, <3>1, <3>2
  <2>3. CASE x # e
    <3>1. task'[x] = task[x] /\ emitted'[x] = emitted[x]
      BY <1>1, <2>1, <2>3
    <3>2. QED
      BY <2>1, <3>1 DEF Counted
  <2>4. QED
    BY <2>2, <2>3
<1>3. ASSUME NEW e \in Emitter, Send(e), NEW x \in Emitter
      PROVE  Counted!(x)'
  <2>1. task[e].stage = "sending" /\ emitted' = emitted /\ finished' = finished
    BY <1>3 DEF Send, history
  <2>2. /\ task'[x].stage = task[x].stage /\ task'[x].event = task[x].event
        /\ x = e \/ task'[x].targets = task[x].targets
    BY <1>1, <1>3 DEF Send, Task
  <2>3. QED
    BY <2>1, <2>2 DEF Counted
<1>4. ASSUME NEW e \in Emitter, Finishes(e), NEW x \in Emitter
      PROVE  Counted!(x)'
  <2>1. /\ task[e].stage = "sending" /\ emitted' = emitted
        /\ finished' = [finished EXCEPT ![e] = finished[e] + 1]
        /\ task' = [task EXCEPT ![e] = Idle]
    BY <1>4 DEF Finishes
  <2>2. \A y \in Emitter : finished'[y] >= finished[y]
    BY <1>1, <2>1
  <2>3. CASE x = e
    <3>1. task'[e] = Idle /\ finished'[e] = finished[e] + 1
      BY <1>1, <2>1
    <3>2. QED
      BY <2>1, <2>3, <3>1 DEF Counted, Idle
  <2>4. CASE x # e
    <3>1. task'[x] = task[x] /\ finished'[x] = finished[x]
      BY <1>1, <2>1, <2>4
    <3>2. ASSUME task[x].stage = "sending", NEW y \in Emitter
          PROVE  task[x].event.after[y] <= finished'[y]
      <4>1. task[x].event.after[y] <= finished[y] /\ finished[y] <= finished'[y]
        BY <2>2, <3>2 DEF Counted
      <4>2. task[x].event.after[y] \in Nat /\ finished[y] \in Nat /\ finished'[y] \in Nat
        BY <1>1, <2>1
      <4>3. QED
        BY <4>1, <4>2
    <3>3. QED
      BY <2>1, <3>1, <3>2 DEF Counted
  <2>5. QED
    BY <2>3, <2>4
<1>5. CASE Quiet
  BY <1>5 DEF Quiet, Counted
<1>6. QED
  BY <1>2, <1>3, <1>4, <1>5, Kinds DEF Counted

\* Senders are added by subscriptions, and cloned by emissions.
LEMMA ListMoves ==
    ASSUME TypeOK, Counted, Senders, [Next]_vars
    PROVE  /\ Distinct(observers') /\ \A e \in Emitter : Distinct(task'[e].targets)
           /\ \A r \in Members(observers') : r \in Members(observers) \/ PushSender(r)
           /\ \A r \in Members(observers) :
                 r \in Members(observers') \/ ~Alive(r) \/ task'[Root].stage = "over"
           /\ \A e \in Emitter : \A r \in Members(task'[e].targets) :
                 r \in Members(task[e].targets) \/ r \in Members(observers)
<1> DEFINE Grown == \A r \in Members(observers') : r \in Members(observers) \/ PushSender(r)
           Kept  == \A r \in Members(observers) :
                       r \in Members(observers') \/ ~Alive(r) \/ task'[Root].stage = "over"
           Cloned(e) == \A r \in Members(task'[e].targets) :
                           r \in Members(task[e].targets) \/ r \in Members(observers)
<1>1. /\ observers \in Seq(Receiver) /\ task \in [Emitter -> Task]
      /\ \A e \in Emitter : task[e].targets \in Seq(Receiver)
      /\ Distinct(observers) /\ \A e \in Emitter : Distinct(task[e].targets)
      /\ Root \in Emitter
  BY Types, BusAssumption DEF TypeOK, Senders
<1>2. Distinct(<< >>) /\ Members(<< >>) = {}
  BY DEF Distinct, Members
<1>3. ASSUME observers' = observers
      PROVE  Distinct(observers') /\ Grown /\ Kept
  BY <1>1, <1>3
<1>4. ASSUME NEW e \in Emitter, task'[e].targets = task[e].targets
      PROVE  Distinct(task'[e].targets) /\ Cloned(e)
  BY <1>1, <1>4
<1>5. ASSUME NEW e \in Emitter, NEW x \in Emitter, BeginEmit(e)
      PROVE  Distinct(task'[x].targets) /\ Cloned(x)
  <2>1. task'[x].targets \in {task[x].targets, observers}
    BY <1>1, <1>5 DEF BeginEmit
  <2>2. QED
    BY <1>1, <2>1
<1>6. ASSUME NEW e \in Emitter, NEW x \in Emitter, Send(e)
      PROVE  Distinct(task'[x].targets) /\ Cloned(x)
  <2>1. CASE x = e
    <3>1. task[x].targets # << >> /\ task'[x].targets = Tail(task[x].targets)
      BY <1>1, <1>6, <2>1 DEF Send, Task
    <3>2. QED
      BY <1>1, <3>1, MembersTail
  <2>2. CASE x # e
    <3>1. task'[x].targets = task[x].targets
      BY <1>1, <1>6, <2>2 DEF Send
    <3>2. QED
      BY <1>4, <3>1
  <2>3. QED
    BY <2>1, <2>2
<1>7. ASSUME NEW e \in Emitter, NEW x \in Emitter, Finishes(e)
      PROVE  Distinct(task'[x].targets) /\ Cloned(x)
  <2>1. task'[x].targets \in {task[x].targets, << >>}
    BY <1>1, <1>7 DEF Finishes, Idle
  <2>2. QED
    BY <1>1, <1>2, <2>1
<1>8. \A x \in Emitter : Distinct(task'[x].targets) /\ Cloned(x)
  BY <1>4, <1>5, <1>6, <1>7, Kinds DEF Quiet
<1>9. CASE \E e \in Emitter : Prune(e)
  <2>1. PICK n \in 0..Len(observers) : \E kept \in [1..n -> Members(observers)] :
           Retained(kept) /\ observers' = kept
    BY <1>9 DEF Prune
  <2>2. PICK kept \in [1..n -> Members(observers)] : Retained(kept) /\ observers' = kept
    BY <2>1
  <2>3. Distinct(kept) /\ Members(kept) = {r \in Members(observers) : Alive(r)}
    BY <1>1, <2>2, RetainedList
  <2>4. QED
    BY <1>8, <2>2, <2>3
<1>10. CASE \E r \in Receiver : PushSender(r)
  <2>1. PICK r \in Receiver : PushSender(r)
    BY <1>10
  <2>2. observers' = Append(observers, r) /\ r \notin Members(observers)
    BY <2>1 DEF PushSender, Senders, Unlisted
  <2>3. QED
    BY <1>1, <1>8, <2>1, <2>2, MembersAppend
<1>11. CASE ClearObservers
  <2>1. observers' = << >> /\ task'[Root].stage = "over"
    BY <1>1, <1>11 DEF ClearObservers, Task
  <2>2. QED
    BY <1>2, <1>8, <2>1
<1>12. CASE observers' = observers
  BY <1>3, <1>8, <1>12
<1>13. \/ \E e \in Emitter : Prune(e)
       \/ \E r \in Receiver : PushSender(r)
       \/ ClearObservers
       \/ observers' = observers
  BY Steps DEF BeginEmit, Send, AbandonDelta, LeaveBus, SetClosed, Receive, EndOfStream,
               CheckClosed, DropReceiver, TakeAttached, DetachAttached, CancelRun, Caller, vars
<1>14. QED
  BY <1>9, <1>10, <1>11, <1>12, <1>13

\* What becomes of a receiver.
LEMMA ReceiverMoves ==
    ASSUME TypeOK, [Next]_vars, NEW r \in Receiver
    PROVE  \/ receiver'[r] = receiver[r] /\ since'[r] = since[r]
           \/ receiver[r] = "none" /\ receiver'[r] = "checked"
           \/ receiver[r] = "none" /\ receiver'[r] = "open" /\ since'[r] = MaxEvents
           \/ PushSender(r) /\ receiver[r] = "checked" /\ receiver'[r] = "open"
           \/ receiver[r] = "held" /\ receiver'[r] = "open" /\ since'[r] = since[r]
           \/ ~Connected(r) /\ receiver[r] = "open" /\ receiver'[r] = "ended" /\ since'[r] = since[r]
           \/ receiver'[r] = "dropped"
<1>1. /\ receiver \in [Receiver -> ReceiverState]
      /\ since \in [Receiver -> [Emitter -> Nat]]
      /\ Attached \in Receiver
  BY BusAssumption DEF TypeOK
<1>2. CASE UNCHANGED <<receiver, since>>
  BY <1>2
<1>3. ASSUME NEW q \in Receiver, CheckClosed(q) \/ PushSender(q), q = r
      PROVE  \/ receiver[r] = "none" /\ receiver'[r] = "checked"
             \/ receiver[r] = "none" /\ receiver'[r] = "open" /\ since'[r] = MaxEvents
             \/ PushSender(r) /\ receiver[r] = "checked" /\ receiver'[r] = "open"
  BY <1>1, <1>3 DEF CheckClosed, PushSender
<1>4. ASSUME NEW q \in Receiver, EndOfStream(q) \/ DropReceiver(q), q = r
      PROVE  \/ ~Connected(r) /\ receiver[r] = "open" /\ receiver'[r] = "ended" /\ since'[r] = since[r]
             \/ receiver'[r] = "dropped"
  BY <1>1, <1>4 DEF EndOfStream, DropReceiver
<1>5. ASSUME NEW q \in Receiver, q # r,
             CheckClosed(q) \/ PushSender(q) \/ EndOfStream(q) \/ DropReceiver(q)
      PROVE  receiver'[r] = receiver[r] /\ since'[r] = since[r]
  BY <1>1, <1>5 DEF CheckClosed, PushSender, EndOfStream, DropReceiver
<1>6. CASE TakeAttached \/ DetachAttached
  BY <1>1, <1>6 DEF TakeAttached, DetachAttached
<1>7. \/ \E q \in Receiver : CheckClosed(q) \/ PushSender(q) \/ EndOfStream(q) \/ DropReceiver(q)
      \/ TakeAttached \/ DetachAttached
      \/ UNCHANGED <<receiver, since>>
  BY Steps DEF BeginEmit, Send, Prune, AbandonDelta, LeaveBus, SetClosed, ClearObservers, Receive,
               CancelRun, Caller, history, vars
<1>8. QED
  BY <1>2, <1>3, <1>4, <1>5, <1>6, <1>7

\* A run's own task that is over stays over.
LEMMA RootStaysOver ==
    ASSUME TypeOK, [Next]_vars, task[Root].stage = "over"
    PROVE  task'[Root].stage = "over"
<1>1. task \in [Emitter -> Task] /\ Root \in Emitter
  BY BusAssumption DEF TypeOK
<1>2. ASSUME NEW e \in Emitter, BeginEmit(e) \/ Send(e) \/ Prune(e) \/ AbandonDelta(e) \/ LeaveBus(e)
      PROVE  task'[Root] = task[Root]
  BY <1>1, <1>2 DEF BeginEmit, Send, Prune, AbandonDelta, LeaveBus
<1>3. CASE task' = task
  BY <1>3
<1>4. \/ \E e \in Emitter : BeginEmit(e) \/ Send(e) \/ Prune(e) \/ AbandonDelta(e) \/ LeaveBus(e)
      \/ task' = task
  BY Steps DEF SetClosed, ClearObservers, PushSender, Receive, EndOfStream, CheckClosed,
               DropReceiver, TakeAttached, DetachAttached, CancelRun, Caller, vars
<1>5. QED
  BY <1>2, <1>3, <1>4

LEMMA StepKeepsSenders ==
    ASSUME TypeOK, Counted, Senders, [Next]_vars
    PROVE  Senders'
<1>1. /\ queue \in [Receiver -> Seq(Event)] /\ got \in [Receiver -> Seq(Event)]
      /\ Attached \in Receiver
  BY BusAssumption DEF TypeOK
<1>2. Distinct(observers') /\ \A e \in Emitter : Distinct(task'[e].targets)
  BY ListMoves
<1>3. ASSUME NEW r \in Receiver, receiver'[r] \in {"none", "checked", "ended"}
      PROVE  Unlisted(r)'
  <2>1. receiver[r] \in {"none", "checked", "ended"} \/ ~Connected(r)
    BY <1>3, ReceiverMoves
  <2>2. Unlisted(r)
    BY <2>1 DEF Senders, Connected, Unlisted
  <2>3. ~PushSender(r)
    <3>1. ASSUME PushSender(r) PROVE receiver'[r] = "open"
      BY <3>1 DEF PushSender, TypeOK
    <3>2. QED
      BY <1>3, <3>1
  <2>4. QED
    BY <2>2, <2>3, ListMoves DEF Unlisted
<1>4. ASSUME NEW r \in Receiver, receiver'[r] \in {"none", "held", "checked"}
      PROVE  got'[r] = << >>
  <2>1. receiver[r] \in {"none", "held", "checked"}
    BY <1>4, ReceiverMoves
  <2>2. got[r] = << >>
    BY <2>1 DEF Senders
  <2>3. got'[r] = got[r] \/ Receive(r) \/ got'[r] = << >>
    <3>1. ASSUME NEW q \in Receiver, Receive(q) \/ DropReceiver(q)
          PROVE  got'[r] = got[r] \/ Receive(r) \/ got'[r] = << >>
      BY <1>1, <3>1 DEF Receive, DropReceiver
    <3>2. \/ \E q \in Receiver : Receive(q) \/ DropReceiver(q)
          \/ got' = got
      BY Steps DEF BeginEmit, Send, Prune, AbandonDelta, LeaveBus, SetClosed, ClearObservers, PushSender,
                   EndOfStream, CheckClosed, TakeAttached, DetachAttached, CancelRun, history, vars
    <3>3. QED
      BY <3>1, <3>2
  <2>4. ~Receive(r)
    BY <2>1 DEF Receive
  <2>5. QED
    BY <2>2, <2>3, <2>4
<1>5. ASSUME NEW r \in Receiver, receiver'[r] \in {"none", "checked"}
      PROVE  queue'[r] = << >>
  <2>1. receiver[r] \in {"none", "checked"}
    BY <1>5, ReceiverMoves
  <2>2. queue[r] = << >> /\ Unlisted(r)
    BY <2>1 DEF Senders
  <2>3. CASE \E e \in Emitter : Send(e)
    <3>1. PICK e \in Emitter : Send(e)
      BY <2>3
    <3>2. /\ task[e].targets # << >> /\ task[e].targets \in Seq(Receiver)
          /\ queue' = queue \/ queue' = [queue EXCEPT ![Head(task[e].targets)] =
                                            Append(queue[Head(task[e].targets)], task[e].event)]
      BY <3>1, Types DEF Send
    <3>3. Head(task[e].targets) \in Members(task[e].targets)
      BY <3>2, MembersTail
    <3>4. Head(task[e].targets) # r
      BY <2>2, <3>3 DEF Unlisted
    <3>5. QED
      BY <1>1, <2>2, <3>2, <3>4
  <2>4. ASSUME NEW q \in Receiver, Receive(q) \/ DropReceiver(q)
        PROVE  queue'[r] = << >>
    BY <1>1, <2>1, <2>2, <2>4 DEF Receive, DropReceiver
  <2>5. CASE DetachAttached
    BY <1>1, <2>2, <2>5 DEF DetachAttached
  <2>6. \/ \E e \in Emitter : Send(e)
        \/ \E q \in Receiver : Receive(q) \/ DropReceiver(q)
        \/ DetachAttached
        \/ queue' = queue
    BY Steps DEF BeginEmit, Prune, AbandonDelta, LeaveBus, SetClosed, ClearObservers, PushSender,
                 EndOfStream, CheckClosed, TakeAttached, CancelRun, vars
  <2>7. QED
    BY <2>2, <2>3, <2>4, <2>5, <2>6
<1>6. QED
  BY <1>2, <1>3, <1>4, <1>5 DEF Senders

LEMMA StepKeepsListed ==
    ASSUME TypeOK, Counted, Senders, Listed, [Next]_vars, NEW r \in Receiver, Here(r)'
    PROVE  \/ r \in Members(observers')
           \/ task'[Root].stage = "over"
           \/ \A e \in Emitter : since'[r][e] >= MaxEvents[e]
<1>1. MaxEvents \in [Emitter -> Nat \ {0}]
  BY BusAssumption
<1>2. CASE Here(r) /\ since'[r] = since[r]
  <2>1. r \in Members(observers) \/ task[Root].stage = "over" \/ \A e \in Emitter : since[r][e] >= MaxEvents[e]
    BY <1>2 DEF Listed, Here
  <2>2. CASE r \in Members(observers)
    <3>1. Alive(r)
      BY <1>2, <2>2 DEF Here, Alive, Senders, Unlisted
    <3>2. QED
      BY <2>2, <3>1, ListMoves
  <2>3. CASE task[Root].stage = "over"
    BY <2>3, RootStaysOver
  <2>4. CASE \A e \in Emitter : since[r][e] >= MaxEvents[e]
    BY <1>2, <2>4
  <2>5. QED
    BY <2>1, <2>2, <2>3, <2>4
<1>3. CASE since'[r] = MaxEvents
  BY <1>1, <1>3
<1>4. CASE PushSender(r)
  <2>1. observers' = Append(observers, r) /\ observers \in Seq(Receiver)
    BY <1>4 DEF PushSender, TypeOK
  <2>2. QED
    BY <2>1, MembersAppend
<1>5. (Here(r) /\ since'[r] = since[r]) \/ since'[r] = MaxEvents \/ PushSender(r)
  BY ReceiverMoves DEF Here
<1>6. QED
  BY <1>2, <1>3, <1>4, <1>5

-----------------------------------------------------------------------------
(* The streams. *)

\* What was in a stream, or is sent to it.
LEMMA StreamItems ==
    ASSUME TypeOK, Counted, Senders, [Next]_vars, NEW r \in Receiver,
           NEW j \in 1..Len(Stream(r)')
    PROVE  /\ Len(Stream(r)') \in Nat /\ j \in Nat
           /\ \A i \in 1..(j - 1) : i \in 1..Len(Stream(r)) /\ Stream(r)'[i] = Stream(r)[i]
           /\ \/ j \in 1..Len(Stream(r)) /\ Stream(r)'[j] = Stream(r)[j]
              \/ \E e \in Emitter : /\ Send(e) /\ r \in Members(task[e].targets)
                                    /\ Stream(r)'[j] = task[e].event
<1>1. Stream(r) \in Seq(Event) /\ Len(Stream(r)) \in Nat
  BY Types
<1>2. CASE Stream(r)' = Stream(r)
  <2>1. \A i \in 1..(j - 1) : i \in 1..Len(Stream(r))
    BY <1>1, <1>2
  <2>2. QED
    BY <1>1, <1>2, <2>1
<1>3. CASE Stream(r)' = << >>
  <2>1. j \in 1..0
    BY <1>3
  <2>2. QED
    BY <2>1
<1>4. ASSUME NEW e \in Emitter, Send(e), Stream(r)' # Stream(r)
      PROVE  /\ r \in Members(task[e].targets) /\ task[e].event \in Event
             /\ Stream(r)' = Append(Stream(r), task[e].event)
  <2>1. /\ task[e].targets # << >> /\ task[e].targets \in Seq(Receiver) /\ task[e].event \in Event
    BY <1>4, Types DEF Send
  <2>2. r = Head(task[e].targets) /\ Stream(r)' = Append(Stream(r), task[e].event)
    BY <1>4, SendMoves
  <2>3. QED
    BY <2>1, <2>2, MembersTail
<1>5. CASE \E e \in Emitter : Send(e) /\ Stream(r)' # Stream(r)
  <2>1. PICK e \in Emitter : Send(e) /\ Stream(r)' # Stream(r)
    BY <1>5
  <2>2. /\ r \in Members(task[e].targets) /\ task[e].event \in Event
        /\ Stream(r)' = Append(Stream(r), task[e].event)
    BY <1>4, <2>1
  <2>3. /\ Len(Stream(r)') = Len(Stream(r)) + 1
        /\ \A i \in 1..Len(Stream(r)) : Stream(r)'[i] = Stream(r)[i]
        /\ Stream(r)'[Len(Stream(r)) + 1] = task[e].event
    BY <1>1, <2>2, AppendProperties
  <2>4. \A i \in 1..(j - 1) : i \in 1..Len(Stream(r))
    BY <1>1, <2>3
  <2>5. j \in 1..Len(Stream(r)) \/ j = Len(Stream(r)) + 1
    BY <1>1, <2>3
  <2>6. QED
    BY <1>1, <2>1, <2>2, <2>3, <2>4, <2>5
<1>6. \/ Stream(r)' = Stream(r)
      \/ Stream(r)' = << >>
      \/ \E e \in Emitter : Send(e) /\ Stream(r)' # Stream(r)
  <2>1. ASSUME UNCHANGED <<queue, got>>
        PROVE  Stream(r)' = Stream(r)
    BY <2>1 DEF Stream
  <2>2. QED
    BY <2>1, Kinds DEF BeginEmit, Finishes, Quiet
<1>7. QED
  BY <1>2, <1>3, <1>5, <1>6

\* Counts only grow.
LEMMA CountsGrow ==
    ASSUME TypeOK, Counted, Senders, [Next]_vars, NEW e \in Emitter
    PROVE  /\ emitted[e] \in Nat /\ emitted'[e] \in Nat /\ emitted[e] <= emitted'[e]
           /\ finished[e] \in Nat /\ finished'[e] \in Nat /\ finished[e] <= finished'[e]
           /\ excused \subseteq excused'
<1>1. emitted \in [Emitter -> Nat] /\ finished \in [Emitter -> Nat]
  BY Types
<1>2. emitted' = emitted \/ \E x \in Emitter : emitted' = [emitted EXCEPT ![x] = emitted[x] + 1]
  BY Kinds DEF BeginEmit, Send, Finishes, Quiet
<1>3. finished' = finished \/ \E x \in Emitter : finished' = [finished EXCEPT ![x] = finished[x] + 1]
  BY Kinds DEF BeginEmit, Send, Finishes, Quiet, history
<1>4. excused \subseteq excused'
  BY Kinds DEF BeginEmit, Send, Finishes, Quiet, history
<1>5. QED
  BY <1>1, <1>2, <1>3, <1>4

\* A stream that is kept keeps its events.
LEMMA StreamsKeep ==
    ASSUME TypeOK, Counted, Senders, [Next]_vars, NEW r \in Receiver, Here(r)',
           NEW e \in Emitter, NEW n, InStream(r, e, n)
    PROVE  InStream(r, e, n)'
<1>1. Stream(r) \in Seq(Event) /\ Len(Stream(r)) \in Nat
  BY Types
<1>2. CASE Stream(r)' = Stream(r)
  BY <1>2 DEF InStream
<1>3. ASSUME NEW x \in Emitter, Stream(r)' = Append(Stream(r), task[x].event), task[x].event \in Event
      PROVE  InStream(r, e, n)'
  <2>1. PICK i \in 1..Len(Stream(r)) : Stream(r)[i].from = e /\ Stream(r)[i].n = n
    BY DEF InStream
  <2>2. i \in 1..Len(Stream(r)') /\ Stream(r)'[i] = Stream(r)[i]
    BY <1>1, <1>3, AppendProperties
  <2>3. QED
    BY <2>1, <2>2 DEF InStream
<1>4. \/ Stream(r)' = Stream(r)
      \/ \E x \in Emitter : Stream(r)' = Append(Stream(r), task[x].event) /\ task[x].event \in Event
  <2>1. ASSUME UNCHANGED <<queue, got>>
        PROVE  Stream(r)' = Stream(r)
    BY <2>1 DEF Stream
  <2>2. receiver'[r] # "dropped"
    BY DEF Here
  <2>3. QED
    BY <2>1, <2>2, Kinds, SendMoves, Types DEF BeginEmit, Finishes, Quiet
<1>5. QED
  BY <1>2, <1>3, <1>4

LEMMA StepKeepsKnown ==
    ASSUME TypeOK, Counted, Senders, Known, [Next]_vars
    PROVE  Known'
<1>1. ASSUME NEW r \in Receiver, NEW j \in 1..Len(Stream(r)')
      PROVE  /\ Stream(r)'[j].from \in Emitter /\ Stream(r)'[j].n \in Nat
             /\ \A x \in Emitter : Stream(r)'[j].after[x] \in Nat
             /\ Stream(r)'[j].n <= emitted[Stream(r)'[j].from]
             /\ \A x \in Emitter : Stream(r)'[j].after[x] <= finished[x]
  <2>1. CASE j \in 1..Len(Stream(r)) /\ Stream(r)'[j] = Stream(r)[j]
    <3>1. Stream(r)[j] \in Event
      BY <2>1, Types
    <3>2. QED
      BY <2>1, <3>1 DEF Known, Event
  <2>2. CASE \E e \in Emitter : Send(e) /\ Stream(r)'[j] = task[e].event
    <3>1. PICK e \in Emitter : Send(e) /\ Stream(r)'[j] = task[e].event
      BY <2>2
    <3>2. /\ task[e].stage = "sending" /\ task[e].event \in Event
          /\ task[e].event.from = e /\ task[e].event.n = emitted[e]
          /\ \A x \in Emitter : task[e].event.after[x] <= finished[x]
      BY <3>1, Types DEF Send, Counted
    <3>3. emitted[e] \in Nat
      BY Types
    <3>4. QED
      BY <3>1, <3>2, <3>3 DEF Event
  <2>3. QED
    BY <2>1, <2>2, StreamItems
<1>2. ASSUME NEW r \in Receiver, NEW j \in 1..Len(Stream(r)')
      PROVE  /\ Stream(r)'[j].n <= emitted'[Stream(r)'[j].from]
             /\ \A x \in Emitter : Stream(r)'[j].after[x] <= finished'[x]
  <2> DEFINE item == Stream(r)'[j]
  <2>1. /\ item.from \in Emitter /\ item.n \in Nat /\ \A x \in Emitter : item.after[x] \in Nat
        /\ item.n <= emitted[item.from] /\ \A x \in Emitter : item.after[x] <= finished[x]
    BY <1>1
  <2> HIDE DEF item
  <2>2. item.n <= emitted'[item.from]
    BY <2>1, CountsGrow
  <2>3. ASSUME NEW x \in Emitter
        PROVE  item.after[x] <= finished'[x]
    <3>1. item.after[x] <= finished[x] /\ item.after[x] \in Nat
      BY <2>1
    <3>2. finished[x] <= finished'[x] /\ finished[x] \in Nat /\ finished'[x] \in Nat
      BY CountsGrow
    <3>3. QED
      BY <3>1, <3>2
  <2>4. QED
    BY <2>2, <2>3 DEF item
<1>3. QED
  BY <1>2 DEF Known

LEMMA StepKeepsUnsent ==
    ASSUME TypeOK, Counted, Senders, Known, Unsent, [Next]_vars,
           NEW e \in Emitter, NEW r \in Members(task'[e].targets)
    PROVE  ~InStream(r, e, emitted[e])'
<1>1. /\ task \in [Emitter -> Task] /\ emitted \in [Emitter -> Nat]
      /\ \A x \in Emitter : task[x].targets \in Seq(Receiver)
      /\ observers \in Seq(Receiver)
  BY Types DEF TypeOK
<1>2. \A x \in Emitter : Members(task[x].targets) \subseteq Receiver
  BY <1>1 DEF Members
<1>3. Members(observers) \subseteq Receiver
  BY <1>1 DEF Members
<1>4. r \in Receiver
  BY <1>2, <1>3, ListMoves
<1>5. ASSUME Stream(r)' = Stream(r), ~InStream(r, e, emitted'[e])
      PROVE  ~InStream(r, e, emitted[e])'
  BY <1>5 DEF InStream
<1>6. ASSUME NEW x \in Emitter, BeginEmit(x) \/ Finishes(x)
      PROVE  Stream(r)' = Stream(r)
  BY <1>6 DEF BeginEmit, Finishes, Stream
<1>7. CASE BeginEmit(e)
  <2>1. emitted'[e] = emitted[e] + 1 /\ emitted[e] \in Nat
    BY <1>1, <1>7 DEF BeginEmit
  <2>2. ASSUME NEW i \in 1..Len(Stream(r)), Stream(r)[i].from = e, Stream(r)[i].n = emitted[e] + 1
        PROVE  FALSE
    <3>1. emitted[e] + 1 <= emitted[e]
      BY <1>4, <2>2 DEF Known
    <3>2. QED
      BY <2>1, <3>1
  <2>3. ~InStream(r, e, emitted'[e])
    BY <2>1, <2>2 DEF InStream
  <2>4. QED
    BY <1>5, <1>6, <1>7, <2>3
<1>8. ASSUME NEW x \in Emitter, BeginEmit(x) \/ Finishes(x), x # e
      PROVE  ~InStream(r, e, emitted[e])'
  <2>1. task'[e] = task[e] /\ emitted'[e] = emitted[e]
    BY <1>1, <1>8 DEF BeginEmit, Finishes
  <2>2. ~InStream(r, e, emitted'[e])
    BY <2>1 DEF Unsent
  <2>3. QED
    BY <1>5, <1>6, <1>8, <2>2
<1>9. ASSUME Finishes(e)
      PROVE  FALSE
  <2>1. task'[e].targets = << >>
    BY <1>1, <1>9 DEF Finishes, Idle
  <2>2. QED
    BY <2>1 DEF Members
<1>10. ASSUME NEW x \in Emitter, Send(x)
       PROVE  ~InStream(r, e, emitted[e])'
  <2>1. /\ emitted' = emitted /\ task[x].stage = "sending" /\ task[x].targets # << >>
        /\ task[x].event \in Event
    BY <1>10, Types DEF Send
  <2>2. r \in Members(task[e].targets) /\ (x = e => r # Head(task[e].targets))
    <3>1. CASE x = e
      <4>1. task'[e].targets = Tail(task[e].targets)
        BY <1>1, <1>10, <3>1 DEF Send, Task
      <4>2. Distinct(task[e].targets)
        BY DEF Senders
      <4>3. QED
        BY <1>1, <2>1, <3>1, <4>1, <4>2, MembersTail
    <3>2. CASE x # e
      BY <1>1, <1>10, <3>2 DEF Send
    <3>3. QED
      BY <3>1, <3>2
  <2>3. ~InStream(r, e, emitted'[e])
    BY <2>1, <2>2 DEF Unsent
  <2>4. CASE x = e
    <3>1. Stream(r)' = Stream(r)
      BY <1>4, <1>10, <2>2, <2>4, SendMoves
    <3>2. QED
      BY <1>5, <2>3, <3>1
  <2>5. CASE x # e
    <3>1. task[x].event.from = x
      BY <2>1 DEF Counted
    <3>2. Stream(r) \in Seq(Event) /\ Len(Stream(r)) \in Nat
      BY <1>4, Types
    <3>3. CASE Stream(r)' = Append(Stream(r), task[x].event)
      <4>1. ASSUME NEW i \in 1..Len(Stream(r)'), Stream(r)'[i].from = e, Stream(r)'[i].n = emitted'[e]
            PROVE  FALSE
        <5>1. i \in 1..Len(Stream(r)) \/ i = Len(Stream(r)) + 1
          BY <2>1, <3>2, <3>3, AppendProperties
        <5>2. CASE i \in 1..Len(Stream(r))
          <6>1. Stream(r)'[i] = Stream(r)[i]
            BY <2>1, <3>2, <3>3, <5>2, AppendProperties
          <6>2. QED
            BY <2>3, <4>1, <5>2, <6>1 DEF InStream
        <5>3. CASE i = Len(Stream(r)) + 1
          <6>1. Stream(r)'[i] = task[x].event
            BY <2>1, <3>2, <3>3, <5>3, AppendProperties
          <6>2. QED
            BY <2>5, <3>1, <4>1, <6>1
        <5>4. QED
          BY <5>1, <5>2, <5>3
      <4>2. QED
        BY <4>1 DEF InStream
    <3>4. CASE Stream(r)' = Stream(r)
      BY <1>5, <2>3, <3>4
    <3>5. QED
      BY <1>4, <1>10, <3>3, <3>4, SendMoves
  <2>6. QED
    BY <2>4, <2>5
<1>11. CASE Quiet
  <2>1. r \in Members(task[e].targets) /\ emitted'[e] = emitted[e]
    BY <1>11 DEF Quiet
  <2>2. ~InStream(r, e, emitted'[e])
    BY <2>1 DEF Unsent
  <2>3. CASE Stream(r)' = << >>
    <3>1. Len(Stream(r)') = 0
      BY <2>3
    <3>2. QED
      BY <3>1 DEF InStream
  <2>4. QED
    BY <1>4, <1>5, <1>11, <2>2, <2>3 DEF Quiet
<1>12. QED
  BY <1>7, <1>8, <1>9, <1>10, <1>11, Kinds

\* The event that is sent was begun after what is in the stream had begun, so it
\* is no earlier than what any of it came after.
LEMMA StepKeepsOrder ==
    ASSUME TypeOK, Counted, Senders, Known, Unsent, NeverReordered, [Next]_vars
    PROVE  NeverReordered'
<1>1. ASSUME NEW r \in Receiver, NEW j \in 1..Len(Stream(r)'), NEW i \in 1..(j - 1)
      PROVE  /\ Stream(r)'[j] # Stream(r)'[i]
             /\ Stream(r)'[j].n > Stream(r)'[i].after[Stream(r)'[j].from]
  <2>1. i \in 1..Len(Stream(r)) /\ Stream(r)'[i] = Stream(r)[i]
    BY <1>1, StreamItems
  <2>2. CASE j \in 1..Len(Stream(r)) /\ Stream(r)'[j] = Stream(r)[j]
    BY <1>1, <2>1, <2>2 DEF NeverReordered
  <2>3. ASSUME NEW e \in Emitter, Send(e), r \in Members(task[e].targets), Stream(r)'[j] = task[e].event
        PROVE  /\ Stream(r)'[j] # Stream(r)'[i]
               /\ Stream(r)'[j].n > Stream(r)'[i].after[Stream(r)'[j].from]
    <3> DEFINE earlier == Stream(r)[i]
               later == task[e].event
    <3>1. later.from = e /\ later.n = emitted[e] /\ finished[e] + 1 = emitted[e]
      BY <2>3 DEF Send, Counted
    <3>2. earlier \in Event
      BY <2>1, Types
    <3>3. earlier.after[e] <= finished[e]
      BY <2>1 DEF Known
    <3>4. ~(earlier.from = e /\ earlier.n = emitted[e])
      BY <2>1, <2>3 DEF Unsent, InStream
    <3>5. Stream(r)'[i] = earlier /\ Stream(r)'[j] = later
      BY <2>1, <2>3
    <3>6. earlier.after[e] \in Nat /\ finished[e] \in Nat /\ emitted[e] \in Nat
      BY <3>2, Types DEF Event
    <3> HIDE DEF earlier, later
    <3>7. later.n > earlier.after[e]
      BY <3>1, <3>3, <3>6
    <3>8. QED
      BY <3>1, <3>4, <3>5, <3>7
  <2>4. QED
    BY <2>2, <2>3, StreamItems
<1>2. QED
  BY <1>1 DEF NeverReordered

LEMMA StepKeepsUnderway ==
    ASSUME TypeOK, Counted, Senders, Listed, Underway, Counted', [Next]_vars,
           NEW r \in Receiver, NEW e \in Emitter,
           Here(r)', task'[e].stage = "sending", since'[r][e] < emitted'[e]
    PROVE  \/ <<e, emitted'[e]>> \in excused'
           \/ r \in Members(task'[e].targets)
           \/ InStream(r, e, emitted[e])'
<1>1. /\ task \in [Emitter -> Task] /\ emitted \in [Emitter -> Nat]
      /\ MaxEvents \in [Emitter -> Nat \ {0}]
      /\ since \in [Receiver -> [Emitter -> Nat]]
      /\ task[e].targets \in Seq(Receiver)
      /\ excused \subseteq excused'
  BY Types, CountsGrow DEF TypeOK
<1>2. ASSUME Here(r), task[e].stage = "sending", since[r][e] < emitted[e], emitted'[e] = emitted[e]
      PROVE  \/ <<e, emitted'[e]>> \in excused'
             \/ r \in Members(task[e].targets)
             \/ InStream(r, e, emitted[e])'
  <2>1. \/ <<e, emitted[e]>> \in excused
        \/ r \in Members(task[e].targets)
        \/ InStream(r, e, emitted[e])
    BY <1>2 DEF Underway, Here
  <2>2. InStream(r, e, emitted[e]) => InStream(r, e, emitted[e])'
    <3>1. ASSUME InStream(r, e, emitted'[e]) PROVE InStream(r, e, emitted[e])'
      BY <3>1, StreamsKeep
    <3>2. QED
      BY <1>2, <3>1
  <2>3. QED
    BY <1>1, <1>2, <2>1, <2>2
<1>3. CASE BeginEmit(e)
  <2>1. /\ receiver' = receiver /\ since' = since /\ emitted'[e] = emitted[e] + 1
        /\ emitted[e] < MaxEvents[e] /\ task'[e].targets = observers
        /\ task[Root].stage = "over" => <<e, emitted[e] + 1>> \in excused'
    BY <1>1, <1>3 DEF BeginEmit
  <2>2. r \in Members(observers) \/ task[Root].stage = "over" \/ since[r][e] >= MaxEvents[e]
    BY <2>1 DEF Listed, Here
  <2>3. ~(since[r][e] >= MaxEvents[e])
    <3>1. since[r][e] \in Nat /\ MaxEvents[e] \in Nat /\ emitted[e] \in Nat
      BY <1>1
    <3>2. since[r][e] < emitted[e] + 1
      BY <2>1
    <3>3. QED
      BY <2>1, <3>1, <3>2
  <2>4. QED
    BY <2>1, <2>2, <2>3
<1>4. CASE Send(e)
  <2>1. /\ receiver' = receiver /\ since' = since /\ emitted' = emitted
        /\ task[e].stage = "sending" /\ task[e].targets # << >>
        /\ task'[e].targets = Tail(task[e].targets) /\ task[e].event \in Event
    BY <1>1, <1>4, Types DEF Send, history, Task
  <2>2. \/ <<e, emitted'[e]>> \in excused'
        \/ r \in Members(task[e].targets)
        \/ InStream(r, e, emitted[e])'
    BY <1>2, <2>1 DEF Here
  <2>3. ASSUME r = Head(task[e].targets)
        PROVE  InStream(r, e, emitted[e])'
    <3>1. r \in Members(task[e].targets)
      BY <1>1, <2>1, <2>3, MembersTail
    <3>2. Alive(r)
      BY <2>1, <3>1 DEF Here, Alive, Senders, Unlisted
    <3>3. Stream(r)' = Append(Stream(r), task[e].event) /\ Stream(r) \in Seq(Event)
      BY <1>4, <2>3, <3>2, SendMoves, Types
    <3>4. /\ Len(Stream(r)) + 1 \in 1..Len(Stream(r)')
          /\ Stream(r)'[Len(Stream(r)) + 1] = task[e].event
      BY <2>1, <3>3, AppendProperties
    <3>5. task[e].event.from = e /\ task[e].event.n = emitted'[e]
      BY <2>1 DEF Counted
    <3>6. QED
      BY <3>4, <3>5 DEF InStream
  <2>4. r \in Members(task[e].targets) => r = Head(task[e].targets) \/ r \in Members(task'[e].targets)
    BY <1>1, <2>1, MembersTail
  <2>5. QED
    BY <2>2, <2>3, <2>4
<1>5. ASSUME Finishes(e)
      PROVE  FALSE
  BY <1>1, <1>5 DEF Finishes, Idle
<1>6. ASSUME NEW x \in Emitter, x # e, BeginEmit(x) \/ Send(x) \/ Finishes(x)
      PROVE  \/ <<e, emitted'[e]>> \in excused'
             \/ r \in Members(task'[e].targets)
             \/ InStream(r, e, emitted[e])'
  <2>1. /\ task'[e] = task[e] /\ emitted'[e] = emitted[e] /\ receiver' = receiver /\ since' = since
    BY <1>1, <1>6 DEF BeginEmit, Send, Finishes, history
  <2>2. QED
    BY <1>2, <2>1 DEF Here
<1>7. CASE Quiet
  <2>1. /\ task'[e].targets = task[e].targets /\ task[e].stage = "sending" /\ emitted' = emitted
        /\ (Here(r) /\ since'[r] = since[r]) \/ since'[r][e] >= emitted[e]
    BY <1>7 DEF Quiet
  <2>2. ~(since'[r][e] >= emitted[e])
    <3>1. TypeOK'
      BY StepKeepsTypes
    <3>2. since'[r][e] \in Nat /\ emitted[e] \in Nat
      BY <1>1, <3>1 DEF TypeOK
    <3>3. QED
      BY <2>1, <3>2
  <2>3. QED
    BY <1>2, <2>1, <2>2
<1>8. QED
  BY <1>3, <1>4, <1>5, <1>6, <1>7, Kinds

\* What an emission left out when it was over was excused.
LEMMA StepKeepsDelivered ==
    ASSUME TypeOK, Counted, Senders, Underway, NeverDropped, [Next]_vars
    PROVE  NeverDropped'
<1> DEFINE Reached(r, e, n) == <<e, n>> \in excused \/ InStream(r, e, n)
<1>1. ASSUME NEW r \in Receiver, Here(r)', NEW e \in Emitter, NEW n, Reached(r, e, n)
      PROVE  <<e, n>> \in excused' \/ InStream(r, e, n)'
  BY <1>1, StreamsKeep, CountsGrow
<1>2. ASSUME NEW r \in Receiver, Here(r), NEW e \in Emitter, NEW n \in (since[r][e] + 1)..finished[e]
      PROVE  Reached(r, e, n)
  BY <1>2 DEF NeverDropped, Here, InStream
<1> HIDE DEF Reached
<1>3. ASSUME NEW r \in Receiver, Here(r)', NEW e \in Emitter,
             NEW n \in (since'[r][e] + 1)..finished'[e]
      PROVE  <<e, n>> \in excused' \/ InStream(r, e, n)'
  <2>1. /\ since[r][e] \in Nat /\ since'[r][e] \in Nat /\ emitted[e] \in Nat
        /\ finished[e] \in Nat /\ finished'[e] \in Nat /\ n \in Nat
        /\ finished \in [Emitter -> Nat]
    <3>1. TypeOK'
      BY StepKeepsTypes
    <3>2. since \in [Receiver -> [Emitter -> Nat]] /\ since' \in [Receiver -> [Emitter -> Nat]]
      BY <3>1 DEF TypeOK
    <3>3. since[r][e] \in Nat /\ since'[r][e] \in Nat
      BY <3>2
    <3>4. emitted[e] \in Nat /\ finished[e] \in Nat /\ finished'[e] \in Nat
      BY CountsGrow
    <3>5. n \in Nat
      BY <1>3, <3>3, <3>4
    <3>6. QED
      BY <3>3, <3>4, <3>5, Types
  <2>2. finished[e] <= emitted[e]
    <3>1. finished[e] = emitted[e] \/ finished[e] + 1 = emitted[e]
      BY DEF Counted
    <3>2. QED
      BY <2>1, <3>1
  <2>3. CASE Here(r) /\ since'[r] = since[r] /\ finished'[e] = finished[e]
    BY <1>1, <1>2, <1>3, <2>3
  <2>4. CASE since'[r][e] >= emitted[e] /\ finished'[e] = finished[e]
    BY <1>3, <2>1, <2>2, <2>4
  <2>5. CASE Finishes(e)
    <3>1. /\ receiver' = receiver /\ since' = since /\ finished'[e] = finished[e] + 1
          /\ task[e].stage = "sending"
          /\ task[e].targets = << >> \/ <<e, task[e].event.n>> \in excused'
      BY <2>1, <2>5 DEF Finishes
    <3>2. finished[e] + 1 = emitted[e] /\ task[e].event.n = emitted[e]
      BY <3>1 DEF Counted
    <3>3. Here(r)
      BY <1>3, <3>1 DEF Here
    <3>4. CASE n <= finished[e]
      <4>1. n \in (since[r][e] + 1)..finished[e]
        BY <1>3, <2>1, <3>1, <3>4
      <4>2. QED
        BY <1>1, <1>2, <1>3, <3>3, <4>1
    <3>5. CASE n > finished[e]
      <4>1. n = emitted[e] /\ since[r][e] < emitted[e]
        BY <1>3, <2>1, <3>1, <3>2, <3>5
      <4>2. \/ <<e, n>> \in excused
            \/ r \in Members(task[e].targets)
            \/ InStream(r, e, n)
        BY <3>1, <3>3, <4>1 DEF Underway, Here
      <4>3. CASE r \in Members(task[e].targets)
        <5>1. task[e].targets # << >>
          BY <4>3 DEF Members
        <5>2. QED
          BY <3>1, <3>2, <4>1, <5>1
      <4>4. CASE <<e, n>> \in excused \/ InStream(r, e, n)
        BY <1>1, <1>3, <4>4 DEF Reached
      <4>5. QED
        BY <4>2, <4>3, <4>4
    <3>6. QED
      BY <2>1, <3>4, <3>5
  <2>6. ASSUME NEW x \in Emitter, BeginEmit(x) \/ Send(x) \/ Finishes(x)
        PROVE  Finishes(e) \/ (Here(r) /\ since'[r] = since[r] /\ finished'[e] = finished[e])
    <3>1. receiver' = receiver /\ since' = since
      BY <2>6 DEF BeginEmit, Send, Finishes, history
    <3>2. Finishes(e) \/ finished'[e] = finished[e]
      BY <2>1, <2>6 DEF BeginEmit, Send, Finishes, history
    <3>3. QED
      BY <1>3, <3>1, <3>2 DEF Here
  <2>7. CASE Quiet
    <3>1. /\ finished'[e] = finished[e]
          /\ (Here(r) /\ since'[r] = since[r]) \/ since'[r][e] >= emitted[e]
      BY <1>3, <2>7 DEF Quiet
    <3>2. QED
      BY <2>3, <2>4, <3>1
  <2>8. QED
    BY <2>3, <2>5, <2>6, <2>7, Kinds
<1>4. QED
  BY <1>3 DEF NeverDropped, Here, InStream

-----------------------------------------------------------------------------
(* The invariant of the bus. *)

LEMMA InitEstablishes ==
    ASSUME Init
    PROVE  Inv
<1>1. /\ observers = <<Attached>>
      /\ \A e \in Emitter : task[e] = Idle /\ emitted[e] = 0 /\ finished[e] = 0
      /\ \A r \in Receiver : queue[r] = << >> /\ got[r] = << >> /\ receiver[r] \in {"held", "none"}
      /\ \A r \in Receiver : receiver[r] = "held" <=> r = Attached
      /\ Attached \in Receiver
  BY BusAssumption DEF Init
<1>2. Members(<<Attached>>) = {Attached} /\ Members(<< >>) = {}
  BY DEF Members
<1>3. TypeOK
  <2>1. Idle \in Task
    BY BusAssumption DEF Idle, NoEvent, Task, Event
  <2>2. << >> \in Seq(Event) /\ Len(<< >>) = 0 /\ <<Attached>> \in Seq(Receiver)
    BY <1>1
  <2>3. \A r \in Receiver : Len(queue[r]) <= Capacity
    BY <1>1, <2>2, BusAssumption
  <2>4. /\ {emitted, finished} \subseteq [Emitter -> Nat]
        /\ since \in [Receiver -> [Emitter -> Nat]]
        /\ receiver \in [Receiver -> ReceiverState]
    BY DEF Init, ReceiverState
  <2>5. queue \in [Receiver -> Seq(Event)] /\ got \in [Receiver -> Seq(Event)]
    BY <2>2 DEF Init
  <2>6. task \in [Emitter -> Task] /\ {closed, cancelled} \subseteq BOOLEAN /\ excused = {}
    BY <2>1 DEF Init
  <2>7. QED
    BY <1>1, <2>2, <2>3, <2>4, <2>5, <2>6 DEF TypeOK
<1>4. \A r \in Receiver : Stream(r) = << >> /\ Len(Stream(r)) = 0
  <2>1. << >> \o << >> = << >> /\ Len(<< >>) = 0
    <3>1. << >> \in Seq(Event)
      OBVIOUS
    <3>2. QED
      BY <3>1, ConcatEmptySeq
  <2>2. ASSUME NEW r \in Receiver
        PROVE  Stream(r) = << >>
    BY <1>1, <2>1 DEF Stream
  <2>3. QED
    BY <2>1, <2>2
<1>5. \A e \in Emitter : task[e].stage = "idle" /\ task[e].targets = << >>
  BY <1>1 DEF Idle
<1>6. Counted
  BY <1>1, <1>5, BusAssumption DEF Counted
<1>7. Senders
  <2>1. Distinct(observers) /\ \A e \in Emitter : Distinct(task[e].targets)
    BY <1>1, <1>5 DEF Distinct
  <2>2. \A r \in Receiver : receiver[r] \in {"none", "checked", "ended"} => Unlisted(r)
    BY <1>1, <1>2, <1>5 DEF Unlisted
  <2>3. QED
    BY <1>1, <2>1, <2>2 DEF Senders
<1>8. Listed
  BY <1>1, <1>2 DEF Listed
<1>9. Known /\ NeverReordered
  BY <1>4 DEF Known, NeverReordered
<1>10. Unsent
  BY <1>2, <1>5 DEF Unsent
<1>11. Underway
  BY <1>5 DEF Underway
<1>12. NeverDropped
  <2>1. ASSUME NEW r \in Receiver, NEW e \in Emitter, NEW n \in (since[r][e] + 1)..finished[e]
        PROVE  FALSE
    <3>1. since[r][e] = 0 /\ finished[e] = 0
      BY DEF Init
    <3>2. QED
      BY <2>1, <3>1
  <2>2. QED
    BY <2>1 DEF NeverDropped
<1>13. QED
  BY <1>3, <1>6, <1>7, <1>8, <1>9, <1>10, <1>11, <1>12 DEF Inv

LEMMA StepKeepsInv ==
    ASSUME Inv, [Next]_vars
    PROVE  Inv'
<1>1. TypeOK /\ Counted /\ Senders /\ Listed /\ Known /\ Unsent /\ NeverReordered /\ Underway /\ NeverDropped
  BY DEF Inv
<1>2. TypeOK'
  BY <1>1, StepKeepsTypes
<1>3. Counted'
  BY <1>1, StepKeepsCounts
<1>4. Senders'
  BY <1>1, StepKeepsSenders
<1>5. Listed'
  BY <1>1, StepKeepsListed DEF Listed, Here
<1>6. Known'
  BY <1>1, StepKeepsKnown
<1>7. Unsent'
  BY <1>1, StepKeepsUnsent DEF Unsent
<1>8. NeverReordered'
  BY <1>1, StepKeepsOrder
<1>9. Underway'
  BY <1>1, <1>3, StepKeepsUnderway DEF Underway, Here
<1>10. NeverDropped'
  BY <1>1, StepKeepsDelivered
<1>11. QED
  BY <1>2, <1>3, <1>4, <1>5, <1>6, <1>7, <1>8, <1>9, <1>10 DEF Inv

\* The bus stays sound, whatever the callers and the emitters do: run/handle.rs,
\* EventBus.
THEOREM BusStaysSound == Spec => []Inv
<1>1. Init => Inv
  BY InitEstablishes
<1>2. Inv /\ [Next]_vars => Inv'
  BY StepKeepsInv
<1>3. QED
  BY <1>1, <1>2, PTL DEF Spec

\* No channel holds more than its capacity, and the bus is well formed.
THEOREM BusIsTyped == Spec => []TypeOK
<1>1. Inv => TypeOK
  BY DEF Inv
<1>2. QED
  BY <1>1, BusStaysSound, PTL

\* No stream shows an event after one that was begun when it was over, nor any
\* event twice: emit, with one list of senders and one queue per receiver.
THEOREM EventsAreNeverReordered == Spec => []NeverReordered
<1>1. Inv => NeverReordered
  BY DEF Inv
<1>2. QED
  BY <1>1, BusStaysSound, PTL

\* What is begun after a subscription and before the close reaches a receiver
\* that is still there, however emissions, subscriptions, prunings and the close
\* interleave; only a delta may be cut off, by a cancellation.
THEOREM EventsAreNeverDropped == Spec => []NeverDropped
<1>1. Inv => NeverDropped
  BY DEF Inv
<1>2. QED
  BY <1>1, BusStaysSound, PTL

-----------------------------------------------------------------------------
(* The cancellation token. *)

\* Between the recording of the reason and the notification.
Winning == {"recorded", "stored", "unlocked"}

Holding == {"locked", "recorded", "stored"}

HolderKnown == \A c \in Canceller : canceller[c] \in Holding <=> holder = c

OneWinner ==
    /\ \A c, d \in Canceller :
          canceller[c] \in Winning /\ canceller[d] \in Winning => c = d
    /\ notified # 0 => \A c \in Canceller : canceller[c] \notin Winning

\* A recorded reason whose flag is not set yet is still behind the lock.
FlagFollows ==
    /\ \A c \in Canceller :
          /\ canceller[c] \in Winning => reason # Unset
          /\ canceller[c] \in {"stored", "unlocked", "returned"} => flag
    /\ flag \/ notified # 0 => reason # Unset
    /\ reason # Unset /\ ~flag => \E c \in Canceller : canceller[c] = "recorded"
    /\ notified # 0 => flag

WaitersHonest ==
    \A w \in Waiter :
        /\ waiter[w] = "asking" => flag
        /\ waiter[w] # "returned" => answer[w] = Unset

\* The inductive invariant.
TokenInv == TokenTypeOK /\ HolderKnown /\ OneWinner /\ FlagFollows /\ WaitersHonest

LEMMA TokenStarts == TokenInit => TokenInv
BY TokenAssumption DEF TokenInit, TokenInv, TokenTypeOK, HolderKnown, OneWinner, FlagFollows,
   WaitersHonest, CancelStage, WaitStage, Winning, Holding

-----------------------------------------------------------------------------
(* One lemma per step of cancel, one for those of cancelled. *)

LEMMA LockKeeps ==
    ASSUME TokenInv, NEW c \in Canceller, LockReason(c)
    PROVE  TokenInv'
<1> USE TokenAssumption DEF TokenInv, LockReason, SameWaiters
<1>1. TokenTypeOK'
  BY DEF TokenTypeOK, CancelStage
<1>2. HolderKnown' /\ OneWinner' /\ FlagFollows'
  BY DEF TokenTypeOK, HolderKnown, OneWinner, FlagFollows, CancelStage, Winning, Holding
<1>3. WaitersHonest'
  BY DEF WaitersHonest
<1> QED BY <1>1, <1>2, <1>3

LEMMA FindKeeps ==
    ASSUME TokenInv, NEW c \in Canceller, FindRecorded(c)
    PROVE  TokenInv'
<1> USE TokenAssumption DEF TokenInv, FindRecorded, SameWaiters
<1>1. TokenTypeOK'
  BY DEF TokenTypeOK, CancelStage
<1>2. flag
  \* Were it not set, the canceller that recorded the reason would hold the lock.
  BY DEF HolderKnown, FlagFollows, Holding
<1>3. HolderKnown' /\ OneWinner' /\ FlagFollows'
  BY <1>2 DEF TokenTypeOK, HolderKnown, OneWinner, FlagFollows, CancelStage, Winning, Holding
<1>4. WaitersHonest'
  BY DEF WaitersHonest
<1> QED BY <1>1, <1>3, <1>4

LEMMA RecordKeeps ==
    ASSUME TokenInv, NEW c \in Canceller, Record(c)
    PROVE  TokenInv'
<1> USE TokenAssumption DEF TokenInv, Record, SameWaiters
<1>1. TokenTypeOK'
  BY DEF TokenTypeOK, CancelStage
<1>2. HolderKnown'
  BY DEF TokenTypeOK, HolderKnown, Holding
<1>3. notified = 0 /\ ~flag /\ \A d \in Canceller : canceller[d] \notin Winning
  BY DEF TokenTypeOK, FlagFollows
<1>4. OneWinner'
  BY <1>3 DEF TokenTypeOK, OneWinner
<1>5. FlagFollows'
  <2>0. Why[c] \in Reason
    BY DEF TokenAssumption
  <2>1. reason' # Unset /\ canceller'[c] = "recorded"
    BY <2>0 DEF TokenTypeOK
  <2>2. \A d \in Canceller : canceller'[d] \notin {"stored", "unlocked", "returned"}
    BY <1>3 DEF TokenTypeOK, FlagFollows
  <2> QED BY <1>3, <2>1, <2>2 DEF FlagFollows
<1>6. WaitersHonest'
  BY DEF WaitersHonest
<1> QED BY <1>1, <1>2, <1>4, <1>5, <1>6

LEMMA StoreKeeps ==
    ASSUME TokenInv, NEW c \in Canceller, StoreFlag(c)
    PROVE  TokenInv'
<1> USE TokenAssumption DEF TokenInv, StoreFlag, SameWaiters
<1>1. TokenTypeOK'
  BY DEF TokenTypeOK, CancelStage
<1>2. HolderKnown' /\ OneWinner' /\ FlagFollows'
  BY DEF TokenTypeOK, HolderKnown, OneWinner, FlagFollows, CancelStage, Winning, Holding
<1>3. WaitersHonest'
  BY DEF WaitersHonest
<1> QED BY <1>1, <1>2, <1>3

LEMMA UnlockKeeps ==
    ASSUME TokenInv, NEW c \in Canceller, Unlock(c)
    PROVE  TokenInv'
<1> USE TokenAssumption DEF TokenInv, Unlock, SameWaiters
<1>1. TokenTypeOK'
  BY DEF TokenTypeOK, CancelStage
<1>2. HolderKnown' /\ OneWinner' /\ FlagFollows'
  BY DEF TokenTypeOK, HolderKnown, OneWinner, FlagFollows, CancelStage, Winning, Holding
<1>3. WaitersHonest'
  BY DEF WaitersHonest
<1> QED BY <1>1, <1>2, <1>3

LEMMA NotifyKeeps ==
    ASSUME TokenInv, NEW c \in Canceller, NotifyWaiters(c)
    PROVE  TokenInv'
<1> USE TokenAssumption DEF TokenInv, NotifyWaiters, SameWaiters
<1>1. notified = 0
  BY DEF TokenTypeOK, OneWinner, Winning
<1>2. TokenTypeOK'
  BY <1>1 DEF TokenTypeOK, CancelStage
<1>3. HolderKnown' /\ OneWinner' /\ FlagFollows'
  BY <1>1 DEF TokenTypeOK, HolderKnown, OneWinner, FlagFollows, CancelStage, Winning, Holding
<1>4. WaitersHonest'
  BY DEF WaitersHonest
<1> QED BY <1>2, <1>3, <1>4

LEMMA WaitingKeeps ==
    ASSUME TokenInv, NEW w \in Waiter, WaitGoesOn(w) \/ Leave(w)
    PROVE  TokenInv'
<1> USE TokenAssumption DEF TokenInv, SameCancellers
<1>1. SameCancellers
  BY DEF WaitGoesOn, Register, CheckFlag, Wake, TakeReason, Leave
<1>2. HolderKnown' /\ OneWinner' /\ FlagFollows'
  BY <1>1 DEF HolderKnown, OneWinner, FlagFollows
<1>3. CASE Register(w)
  BY <1>2, <1>3 DEF Register, TokenTypeOK, WaitStage, WaitersHonest
<1>4. CASE CheckFlag(w)
  BY <1>2, <1>4 DEF CheckFlag, TokenTypeOK, WaitStage, WaitersHonest
<1>5. CASE Wake(w)
  BY <1>2, <1>5 DEF Wake, TokenTypeOK, WaitStage, WaitersHonest
<1>6. CASE TakeReason(w)
  BY <1>2, <1>6 DEF TakeReason, TokenTypeOK, WaitStage, WaitersHonest
<1>7. CASE Leave(w)
  BY <1>2, <1>7 DEF Leave, TokenTypeOK, WaitStage, WaitersHonest
<1> QED BY <1>3, <1>4, <1>5, <1>6, <1>7 DEF WaitGoesOn

LEMMA TokenStep == TokenInv /\ [TokenNext]_tokenVars => TokenInv'
<1> SUFFICES ASSUME TokenInv, [TokenNext]_tokenVars
             PROVE  TokenInv'
  OBVIOUS
<1>1. CASE \E c \in Canceller : LockReason(c) \/ CancelGoesOn(c)
  BY <1>1, LockKeeps, FindKeeps, RecordKeeps, StoreKeeps, UnlockKeeps, NotifyKeeps
     DEF CancelGoesOn
<1>2. CASE \E w \in Waiter : WaitGoesOn(w) \/ Leave(w)
  BY <1>2, WaitingKeeps
<1>3. CASE UNCHANGED tokenVars
  BY <1>3 DEF tokenVars, TokenInv, TokenTypeOK, HolderKnown, OneWinner, FlagFollows, WaitersHonest
<1> QED BY <1>1, <1>2, <1>3 DEF TokenNext, TokenQuiet

\* Every reachable state satisfies the inductive invariant.
LEMMA TokenStaysGood == TokenSpec => []TokenInv
BY TokenStarts, TokenStep, PTL DEF TokenSpec

\* The types, and that at most one request notifies the waiters.
THEOREM TokenTypeCorrect == TokenSpec => []TokenTypeOK
<1>1. TokenInv => TokenTypeOK
  BY DEF TokenInv
<1> QED BY <1>1, TokenStaysGood, PTL

\* cancel() returns, and waiters are notified, only when the flag is set.
THEOREM CancelTakesEffectHolds == TokenSpec => []CancelTakesEffect
<1>1. TokenInv => CancelTakesEffect
  BY DEF TokenInv, FlagFollows, CancelTakesEffect, TokenTypeOK
<1> QED BY <1>1, TokenStaysGood, PTL

-----------------------------------------------------------------------------
(* The refinement. *)

Signal == IF flag THEN reason ELSE Unset

LEMMA CancellerMaps ==
    ASSUME TokenInv, NEW c \in Canceller, LockReason(c) \/ CancelGoesOn(c)
    PROVE  [Atomic!Next]_(Atomic!vars)
<1> SUFFICES Signal' = Signal \/ (Signal = Unset /\ Signal' \in Reason)
  BY DEF Signal, SameWaiters, LockReason, CancelGoesOn, FindRecorded, Record, StoreFlag,
     Unlock, NotifyWaiters, Atomic!Next, Atomic!Request, Atomic!vars
<1>1. CASE Record(c)
  BY <1>1 DEF Record, Signal, TokenInv, FlagFollows
<1>2. CASE StoreFlag(c)
  <2>1. reason # Unset /\ reason \in Reason
    BY <1>2 DEF StoreFlag, TokenInv, FlagFollows, TokenTypeOK, Winning
  <2> QED BY <1>2, <2>1 DEF StoreFlag, SameWaiters, Signal, TokenInv, TokenTypeOK
<1>3. CASE ~Record(c) /\ ~StoreFlag(c)
  BY <1>3 DEF LockReason, CancelGoesOn, FindRecorded, Unlock, NotifyWaiters, Signal
<1> QED BY <1>1, <1>2, <1>3

LEMMA WaiterMaps ==
    ASSUME TokenInv, NEW w \in Waiter, WaitGoesOn(w) \/ Leave(w)
    PROVE  [Atomic!Next]_(Atomic!vars)
<1>1. CASE TakeReason(w)
  <2>1. flag /\ reason # Unset /\ answer[w] = Unset
    BY <1>1 DEF TakeReason, TokenInv, FlagFollows, WaitersHonest
  <2>2. Atomic!Answer(w)
    BY <1>1, <2>1 DEF TakeReason, SameCancellers, Atomic!Answer
  <2> QED BY <2>2 DEF Atomic!Next
<1>2. CASE ~TakeReason(w)
  BY <1>2 DEF WaitGoesOn, Register, CheckFlag, Wake, Leave, SameCancellers, Atomic!vars
<1> QED BY <1>1, <1>2

\* The lock, the flag and the notifier together are one atomic signal: the store
\* of the flag is the request, and everything else a caller does is a stutter or
\* an answer.
THEOREM TokenIsAtomic == TokenSpec => Implements
<1>1. TokenInit => Atomic!Init
  BY DEF TokenInit, Atomic!Init
<1>2. TokenInv /\ [TokenNext]_tokenVars => [Atomic!Next]_(Atomic!vars)
  <2> SUFFICES ASSUME TokenInv, [TokenNext]_tokenVars
               PROVE  [Atomic!Next]_(Atomic!vars)
    OBVIOUS
  <2>1. CASE UNCHANGED tokenVars
    BY <2>1 DEF tokenVars, Atomic!vars
  <2> QED BY <2>1, CancellerMaps, WaiterMaps DEF TokenNext, TokenQuiet
<1> QED BY <1>1, <1>2, TokenStaysGood, PTL DEF TokenSpec, Implements, Atomic!Spec
=============================================================================
