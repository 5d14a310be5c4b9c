--------------------------- MODULE CodexTurnProofs ---------------------------
(***************************************************************************)
(* Proofs about CodexTurn for every request, every tool id and every       *)
(* number of messages of the server: an answer holds nothing of another    *)
(* turn, and it is the whole answer of its own one unless the server       *)
(* reported the end of another turn of the thread; the server is           *)
(* interrupted once and only for the caller.                               *)
(***************************************************************************)
EXTENDS CodexTurn, SequenceTheorems, FiniteSetTheorems, TLAPS

-----------------------------------------------------------------------------
(* The inductive invariant. *)

Kinds == {"none", "initialize", "initialized", "thread/start", "turn/start", "turn/interrupt",
          "result", "error", "garbage", "notice", "delta", "tool", "answer",
          "completed", "interrupted", "failed"}

ToolNames == {"none", "unknown"} \cup UNION {Names(s.registered) : s \in Setups}

Messages == [kind : Kinds, id : Nat, own : BOOLEAN, named : BOOLEAN, n : Nat, tool : ToolNames,
             valid : BOOLEAN]

\* The parts of a run of the client.
Early == {"open", "send", "await"}
Handling == {"tool", "running", "answer"}
Ending == {"shutdown", "reap", "done"}
Stages == Early \cup {"collect", "interrupt"} \cup Handling \cup Ending

Finals == {"completed", "interrupted", "failed"}

\* Messages by which the turn speaks.
OwnDelta(m) == m.own /\ m.kind = "delta"
Final(m) == m.own /\ m.kind \in Finals
OfTurn(m) == OwnDelta(m) \/ Final(m) \/ m.kind = "tool"

Typed ==
    /\ setup \in Setups /\ stage \in Stages /\ phase \in 1..4 /\ outcome \in Outcomes
    /\ process \in {"none", "alive", "gone", "reaped"}
    /\ cancelled \in BOOLEAN /\ interrupted \in BOOLEAN
    /\ text \in Seq(Nat) /\ call \in Messages
    /\ requests \in Seq(Messages) /\ inbox \in Seq(Messages)
    /\ turn \in {"none", "running", "interrupting", "over"}
    /\ spoken \in 0..MaxMessages /\ emitted \in 0..spoken
    /\ asked \subseteq ToolIds /\ strayed \in BOOLEAN
    /\ ran \in [ToolIds -> 0..1] /\ answered \in [ToolIds -> 0..1]

\* What the stage says of the client.
Staged ==
    /\ stage \in Ending <=> outcome # "none"
    /\ stage = "done" /\ outcome = "ok" => process = "reaped"
    /\ interrupted => cancelled
    /\ stage \in Early => text = << >> /\ ~interrupted
    /\ stage = "interrupt" => cancelled /\ ~interrupted

AtMostOne(s, kind) ==
    \A i, j \in 1..Len(s) : s[i].kind = kind /\ s[j].kind = kind => i = j

Unwritten(s, kind) == \A i \in 1..Len(s) : s[i].kind # kind

\* Stages in which the turn is not asked for yet.
Unasked == stage \in Early /\ ~(stage = "await" /\ phase = 4)

\* The turn is started once and interrupted once.
Requested ==
    /\ AtMostOne(requests, "turn/start") /\ AtMostOne(requests, "turn/interrupt")
    /\ ~interrupted => Unwritten(requests, "turn/interrupt")
    /\ turn # "none" => Unwritten(requests, "turn/start")
    /\ Unasked => turn = "none" /\ Unwritten(requests, "turn/start")
    /\ \A i \in 1..Len(requests) : requests[i].kind = "turn/start" => requests[i].id = 3

Silent(s) == \A i \in 1..Len(s) : ~OfTurn(s[i])

\* The reply that starts the turn is on its way, and the turn speaks after it.
Started(s) ==
    \E j \in 1..Len(s) : /\ s[j].kind = "result" /\ s[j].id = 3
                         /\ \A i \in 1..j : ~OfTurn(s[i])

Concluded(s) == \E i \in 1..Len(s) : Final(s[i])

LastWord(s) == \A i, j \in 1..Len(s) : Final(s[i]) /\ j > i => ~OfTurn(s[j])

\* The turn speaks after the reply that started it and until it is over.
Spoken ==
    /\ turn = "none" => emitted = 0 /\ asked = {} /\ Silent(inbox)
    /\ stage \in Early /\ turn # "none" => Started(inbox)
    /\ Concluded(inbox) => turn = "over"
    /\ LastWord(inbox)

\* The deltas of a stream are those after the first k, up to the last one, in order.
Carries(s, k, last) ==
    /\ k <= last
    /\ \A i \in 1..Len(s) : OwnDelta(s[i]) => s[i].n \in (k + 1)..last
    /\ \A n \in (k + 1)..last : \E i \in 1..Len(s) : OwnDelta(s[i]) /\ s[i].n = n
    /\ \A i, j \in 1..Len(s) : OwnDelta(s[i]) /\ OwnDelta(s[j]) /\ i < j => s[i].n < s[j].n

Counts(t) == \A n \in 1..Len(t) : t[n] = n

Deltas ==
    stage \notin Ending /\ ~interrupted => Counts(text) /\ Carries(inbox, Len(text), emitted)

Waits(s, id) == \E i \in 1..Len(s) : s[i].kind = "tool" /\ s[i].id = id

\* The tool calls of a stream are of these ids.
CallsAreOf(s, ids) == \A i \in 1..Len(s) : s[i].kind = "tool" => s[i].id \in ids

OncePerCall(s) ==
    \A i, j \in 1..Len(s) : s[i].kind = "tool" /\ s[j].kind = "tool" /\ s[i].id = s[j].id => i = j

\* A tool call waits, is handled, or was answered.
Tools ==
    /\ OncePerCall(inbox) /\ CallsAreOf(inbox, asked)
    /\ \A id \in asked : Waits(inbox, id) => ran[id] = 0 /\ answered[id] = 0
    /\ stage \in Handling => /\ call.id \in asked /\ answered[call.id] = 0
                             /\ ~Waits(inbox, call.id)
                             /\ stage = "tool" => ran[call.id] = 0
    /\ \A id \in ToolIds : ran[id] = 1 \/ answered[id] = 1 => id \in asked
    /\ stage \notin Ending /\ ~interrupted =>
          \A id \in asked : \/ answered[id] = 1
                            \/ stage \in Handling /\ call.id = id
                            \/ Waits(inbox, id)

\* What passes the filter and is not of the turn is the end of another one.
Astray(s, told) == \A i \in 1..Len(s) : ~s[i].own /\ ~s[i].named => told /\ s[i].kind \in Finals

Strays == Astray(inbox, strayed)

\* An answer.
Whole ==
    outcome = "ok" => /\ ~interrupted
                      /\ Len(text) <= emitted /\ Counts(text)
                      /\ \A id \in asked : answered[id] = 1 \/ Waits(inbox, id)
                      /\ ~strayed => /\ turn = "over" /\ Len(text) = emitted
                                     /\ \A id \in asked : answered[id] = 1

Inv == Typed /\ Staged /\ Requested /\ Spoken /\ Deltas /\ Tools /\ Strays /\ Whole

-----------------------------------------------------------------------------
(* Messages and streams. *)

LEMMA MessageType ==
    ASSUME NEW kind \in Kinds, NEW id \in Nat
    PROVE  /\ Message(kind, id) \in Messages
           /\ Message(kind, id).kind = kind /\ Message(kind, id).id = id
           /\ Message(kind, id).own = TRUE /\ Message(kind, id).named = TRUE
BY DEF Message, Messages, ToolNames

LEMMA AlteredMessage ==
    ASSUME NEW m \in Messages
    PROVE  /\ Foreign(m) \in Messages /\ Foreign(m).kind = m.kind /\ Foreign(m).id = m.id
           /\ ~Foreign(m).own /\ Foreign(m).named = m.named
           /\ Stray(m) \in Messages /\ Stray(m).kind = m.kind /\ ~Stray(m).own
           /\ Malformed(m) \in Messages /\ Malformed(m).kind = m.kind /\ Malformed(m).id = m.id
           /\ Malformed(m).own = m.own /\ Malformed(m).named = m.named
BY DEF Messages, Foreign, Stray, Malformed

LEMMA PhaseRequests ==
    ASSUME NEW p \in 1..4
    PROVE  /\ Len(Phases) = 4 /\ Phases[p] \in Kinds
           /\ RequestId(Phases[p]) \in Nat
           /\ Phases[p] = "turn/start" <=> p = 4
           /\ Phases[p] \notin {"turn/interrupt", "answer"}
           /\ RequestId(Phases[p]) = 3 <=> p = 4
           /\ RequestId(Phases[p]) = 0 <=> p = 2
           /\ RequestId("turn/interrupt") = 4 /\ RequestId("turn/start") = 3
<1>1. Phases[1] = "initialize" /\ Phases[2] = "initialized" /\ Phases[3] = "thread/start"
      /\ Phases[4] = "turn/start" /\ Len(Phases) = 4
  BY DEF Phases
<1>2. /\ RequestId("initialize") = 1 /\ RequestId("initialized") = 0
      /\ RequestId("thread/start") = 2 /\ RequestId("turn/start") = 3
      /\ RequestId("turn/interrupt") = 4
  BY DEF RequestId
<1>3. p = 1 \/ p = 2 \/ p = 3 \/ p = 4
  OBVIOUS
<1>4. QED
  BY <1>1, <1>2, <1>3 DEF Kinds

\* A message is taken from a stream, or put into it.
LEMMA Taken ==
    ASSUME NEW s \in Seq(Messages), s # << >>
    PROVE  /\ Head(s) = s[1] /\ Head(s) \in Messages
           /\ Tail(s) \in Seq(Messages) /\ Len(s) \in Nat /\ Len(s) >= 1
           /\ Len(Tail(s)) = Len(s) - 1
           /\ \A i \in 1..Len(Tail(s)) : i + 1 \in 1..Len(s) /\ Tail(s)[i] = s[i + 1]
           /\ \A i \in 1..Len(s) : i # 1 => i - 1 \in 1..Len(Tail(s)) /\ Tail(s)[i - 1] = s[i]
<1>1. /\ Head(s) = s[1] /\ Tail(s) \in Seq(Messages) /\ Len(s) \in Nat /\ Len(s) # 0
      /\ Len(Tail(s)) = Len(s) - 1
      /\ \A i \in 1..(Len(s) - 1) : Tail(s)[i] = s[i + 1]
  BY HeadTailProperties, EmptySeq, LenProperties
<1>2. Head(s) \in Messages
  BY HeadTailProperties
<1> DEFINE n == Len(s)
           t == Tail(s)
           k == Len(t)
<1>3. n \in Nat /\ n # 0 /\ k = n - 1 /\ \A i \in 1..(n - 1) : t[i] = s[i + 1]
  BY <1>1
<1> HIDE DEF n, t, k
<1>4. /\ n >= 1
      /\ \A i \in 1..k : i + 1 \in 1..n /\ t[i] = s[i + 1]
      /\ \A i \in 1..n : i # 1 => i - 1 \in 1..k
  BY <1>3
<1>5. ASSUME NEW i \in 1..n, i # 1
      PROVE  t[i - 1] = s[i]
  <2>1. i - 1 \in 1..k /\ (i - 1) + 1 = i
    BY <1>3, <1>5
  <2>2. QED
    BY <1>4, <2>1
<1>6. QED
  BY <1>1, <1>2, <1>4, <1>5 DEF n, t, k

LEMMA Put ==
    ASSUME NEW s \in Seq(Messages), NEW m \in Messages
    PROVE  /\ Append(s, m) \in Seq(Messages) /\ Len(s) \in Nat /\ Len(Append(s, m)) = Len(s) + 1
           /\ \A i \in 1..Len(s) : i \in 1..(Len(s) + 1) /\ Append(s, m)[i] = s[i]
           /\ Append(s, m)[Len(s) + 1] = m /\ Len(s) + 1 \in 1..(Len(s) + 1)
           /\ \A i \in 1..(Len(s) + 1) : i \in 1..Len(s) \/ i = Len(s) + 1
<1>1. /\ Append(s, m) \in Seq(Messages) /\ Len(s) \in Nat /\ Len(Append(s, m)) = Len(s) + 1
      /\ \A i \in 1..Len(s) : Append(s, m)[i] = s[i]
      /\ Append(s, m)[Len(s) + 1] = m
  BY AppendProperties, LenProperties
<1> DEFINE n == Len(s)
<1>2. n \in Nat
  BY <1>1
<1> HIDE DEF n
<1>3. /\ \A i \in 1..n : i \in 1..(n + 1)
      /\ n + 1 \in 1..(n + 1)
      /\ \A i \in 1..(n + 1) : i \in 1..n \/ i = n + 1
  BY <1>2
<1>4. QED
  BY <1>1, <1>3 DEF n

\* What a server says of its own accord.
LEMMA SpeechKinds ==
    ASSUME Typed, NEW m \in Speeches
    PROVE  /\ m \in Messages /\ ~Final(m)
           /\ OwnDelta(m) => InTurn /\ m.n = emitted + 1
           /\ m.kind = "tool" => InTurn /\ m.id \in ToolIds
           /\ m.kind # "result"
           /\ m.named \/ m.kind \in Finals
<1>1. emitted \in Nat /\ emitted + 1 \in Nat /\ setup \in Setups
  BY DEF Typed
<1>2. CASE m \in {Message("garbage", 0), Message("notice", 0), Foreign(Message("completed", 0)),
                  Foreign(Message("delta", 0))}
  <2>1. 0 \in Nat /\ {"garbage", "notice", "completed", "delta"} \subseteq Kinds
    BY DEF Kinds
  <2>2. \A kind \in {"garbage", "notice", "completed", "delta"} :
           /\ Message(kind, 0) \in Messages /\ Message(kind, 0).kind = kind
           /\ Message(kind, 0).named
    BY MessageType, <2>1
  <2>3. /\ m \in Messages /\ m.named
        /\ m.kind \in {"garbage", "notice"} \/ (m.kind \in {"completed", "delta"} /\ ~m.own)
    BY <1>2, <2>2, AlteredMessage
  <2>4. QED
    BY <2>3 DEF Final, Finals, OwnDelta
<1>3. CASE InTurn /\ m = [Message("delta", 0) EXCEPT !.n = emitted + 1]
  <2>1. "delta" \in Kinds /\ 0 \in Nat
    BY DEF Kinds
  <2>2. Message("delta", 0) \in Messages /\ Message("delta", 0).kind = "delta"
        /\ Message("delta", 0).named
    BY <2>1, MessageType
  <2> DEFINE n == emitted + 1
  <2>3. n \in Nat /\ m = [Message("delta", 0) EXCEPT !.n = n]
    BY <1>1, <1>3
  <2> HIDE DEF n
  <2>4. m \in Messages /\ m.kind = "delta" /\ m.n = n /\ m.named
    BY <2>2, <2>3 DEF Messages
  <2>5. m.n = emitted + 1
    BY <2>4 DEF n
  <2>6. QED
    BY <1>3, <2>4, <2>5 DEF Final, Finals, OwnDelta
<1>4. ASSUME InTurn, NEW id \in ToolIds, m \in ToolCalls(id)
      PROVE  m \in Messages /\ m.kind = "tool" /\ m.id = id /\ m.named
  <2>1. id \in Nat /\ "tool" \in Kinds
    BY TurnAssumption DEF Kinds
  <2>2. Message("tool", id) \in Messages /\ Message("tool", id).kind = "tool"
        /\ Message("tool", id).id = id /\ Message("tool", id).named
    BY <2>1, MessageType
  <2>3. "unknown" \in ToolNames /\ Names(setup.registered) \subseteq ToolNames
    BY <1>1 DEF ToolNames
  <2>4. \A name \in ToolNames : /\ ToolCall(name, id) \in Messages
                                /\ ToolCall(name, id).kind = "tool" /\ ToolCall(name, id).id = id
                                /\ ToolCall(name, id).named
    <3>1. ASSUME NEW m1 \in Messages, NEW name \in ToolNames
          PROVE  LET c == [m1 EXCEPT !.tool = name]
                 IN  c \in Messages /\ c.kind = m1.kind /\ c.id = m1.id /\ c.named = m1.named
      BY DEF Messages
    <3>2. QED
      BY <2>2, <3>1 DEF ToolCall
  <2>5. PICK name \in ToolNames : m \in {ToolCall(name, id), Malformed(ToolCall(name, id)),
                                         Foreign(ToolCall(name, id))}
    BY <1>4, <2>3 DEF ToolCalls
  <2>6. QED
    BY <2>4, <2>5, AlteredMessage
<1>5. ASSUME NEW status \in {"completed", "failed", "interrupted"}, m = Stray(Message(status, 0))
      PROVE  m \in Messages /\ ~m.own /\ m.kind \in Finals
  <2>1. 0 \in Nat /\ status \in Kinds
    BY DEF Kinds
  <2>2. Message(status, 0) \in Messages /\ Message(status, 0).kind = status
    BY <2>1, MessageType
  <2>3. QED
    BY <1>5, <2>2, AlteredMessage DEF Finals
<1>6. QED
  BY <1>2, <1>3, <1>4, <1>5 DEF Speeches, Final, Finals, OwnDelta

-----------------------------------------------------------------------------
(* What is said of a stream, when a message is put into it or taken from it. *)

LEMMA RequestsPut ==
    ASSUME NEW s \in Seq(Messages), NEW m \in Messages, NEW kind
    PROVE  /\ Unwritten(s, kind) /\ m.kind # kind => Unwritten(Append(s, m), kind)
           /\ AtMostOne(s, kind) /\ (m.kind = kind => Unwritten(s, kind)) =>
                 AtMostOne(Append(s, m), kind)
<1> DEFINE t == Append(s, m)
           n == Len(s)
<1>1. /\ Len(t) = n + 1 /\ t[n + 1] = m
      /\ \A i \in 1..n : t[i] = s[i]
      /\ \A i \in 1..(n + 1) : i \in 1..n \/ i = n + 1
  BY Put
<1> HIDE DEF t, n
<1>2. ASSUME \A i \in 1..n : s[i].kind # kind, m.kind # kind
      PROVE  \A i \in 1..Len(t) : t[i].kind # kind
  BY <1>1, <1>2
<1>3. ASSUME \A i, j \in 1..n : s[i].kind = kind /\ s[j].kind = kind => i = j,
             m.kind = kind => \A i \in 1..n : s[i].kind # kind,
             NEW i \in 1..Len(t), NEW j \in 1..Len(t), t[i].kind = kind, t[j].kind = kind
      PROVE  i = j
  BY <1>1, <1>3
<1>4. QED
  BY <1>2, <1>3 DEF Unwritten, AtMostOne, t, n

LEMMA RequestsTaken ==
    ASSUME NEW s \in Seq(Messages), s # << >>, NEW kind
    PROVE  /\ Unwritten(s, kind) => Unwritten(Tail(s), kind)
           /\ AtMostOne(s, kind) => AtMostOne(Tail(s), kind)
           /\ AtMostOne(s, kind) /\ s[1].kind = kind => Unwritten(Tail(s), kind)
<1> DEFINE t == Tail(s)
           n == Len(s)
           k == Len(t)
<1>1. /\ n \in Nat /\ n >= 1
      /\ \A i \in 1..k : i + 1 \in 1..n /\ t[i] = s[i + 1]
  BY Taken
<1> HIDE DEF t, n, k
<1>2. 1 \in 1..n
  BY <1>1
<1>3. ASSUME \A i \in 1..n : s[i].kind # kind
      PROVE  \A i \in 1..k : t[i].kind # kind
  BY <1>1, <1>3
<1>4. ASSUME \A i, j \in 1..n : s[i].kind = kind /\ s[j].kind = kind => i = j,
             NEW i \in 1..k, NEW j \in 1..k, t[i].kind = kind, t[j].kind = kind
      PROVE  i = j
  <2>1. i + 1 = j + 1
    BY <1>1, <1>4
  <2>2. QED
    BY <2>1
<1>5. ASSUME \A i, j \in 1..n : s[i].kind = kind /\ s[j].kind = kind => i = j,
             s[1].kind = kind, NEW i \in 1..k, t[i].kind = kind
      PROVE  FALSE
  <2>1. i + 1 = 1
    BY <1>1, <1>2, <1>5
  <2>2. QED
    BY <2>1
<1>6. QED
  BY <1>3, <1>4, <1>5 DEF Unwritten, AtMostOne, t, n, k

LEMMA SpeechPut ==
    ASSUME NEW s \in Seq(Messages), NEW m \in Messages
    PROVE  /\ Silent(s) /\ ~OfTurn(m) => Silent(Append(s, m))
           /\ Started(s) => Started(Append(s, m))
           /\ Silent(s) /\ m.kind = "result" /\ m.id = 3 => Started(Append(s, m))
           /\ LastWord(s) /\ (OfTurn(m) => ~Concluded(s)) => LastWord(Append(s, m))
           /\ Concluded(Append(s, m)) => Concluded(s) \/ Final(m)
<1> DEFINE t == Append(s, m)
           n == Len(s)
           k == Len(t)
<1>1. /\ n \in Nat /\ k = n + 1 /\ t[n + 1] = m
      /\ \A i \in 1..n : i \in 1..(n + 1) /\ t[i] = s[i]
      /\ n + 1 \in 1..(n + 1)
      /\ \A i \in 1..(n + 1) : i \in 1..n \/ i = n + 1
  BY Put
<1> HIDE DEF t, n, k
<1>2. \A j \in 1..n : \A i \in 1..j : i \in 1..n
  BY <1>1
<1>3. ASSUME \A i \in 1..n : ~OfTurn(s[i]), ~OfTurn(m)
      PROVE  \A i \in 1..k : ~OfTurn(t[i])
  BY <1>1, <1>3
<1>4. ASSUME NEW j \in 1..n, s[j].kind = "result", s[j].id = 3, \A i \in 1..j : ~OfTurn(s[i])
      PROVE  \E l \in 1..k : /\ t[l].kind = "result" /\ t[l].id = 3
                             /\ \A i \in 1..l : ~OfTurn(t[i])
  <2>1. j \in 1..k /\ t[j] = s[j] /\ \A i \in 1..j : t[i] = s[i]
    BY <1>1, <1>2
  <2>2. QED
    BY <1>4, <2>1
<1>5. ASSUME \A i \in 1..n : ~OfTurn(s[i]), m.kind = "result", m.id = 3
      PROVE  \E l \in 1..k : /\ t[l].kind = "result" /\ t[l].id = 3
                             /\ \A i \in 1..l : ~OfTurn(t[i])
  <2>1. ~OfTurn(m)
    BY <1>5 DEF OfTurn, OwnDelta, Final, Finals
  <2>2. k \in 1..k /\ t[k] = m /\ \A i \in 1..k : ~OfTurn(t[i])
    BY <1>1, <1>3, <1>5, <2>1
  <2>3. QED
    BY <1>5, <2>2
<1>6. ASSUME NEW i \in 1..k, Final(t[i])
      PROVE  Final(m) \/ \E j \in 1..n : Final(s[j])
  BY <1>1, <1>6
<1>7. ASSUME \A i, j \in 1..n : Final(s[i]) /\ j > i => ~OfTurn(s[j]),
             OfTurn(m) => \A i \in 1..n : ~Final(s[i]),
             NEW i \in 1..k, NEW j \in 1..k, Final(t[i]), j > i
      PROVE  ~OfTurn(t[j])
  <2>1. i \in 1..n
    BY <1>1, <1>7
  <2>2. t[i] = s[i]
    BY <1>1, <2>1
  <2>3. CASE j \in 1..n
    BY <1>1, <1>7, <2>1, <2>2, <2>3
  <2>4. CASE j = n + 1
    BY <1>1, <1>7, <2>1, <2>2, <2>4
  <2>5. QED
    BY <1>1, <2>3, <2>4
<1>8. QED
  BY <1>3, <1>4, <1>5, <1>6, <1>7 DEF Silent, Started, Concluded, LastWord, t, n, k

LEMMA SpeechTaken ==
    ASSUME NEW s \in Seq(Messages), s # << >>
    PROVE  /\ Silent(s) => Silent(Tail(s)) /\ ~OfTurn(s[1])
           /\ Started(s) => /\ ~OfTurn(s[1])
                            /\ (s[1].kind = "result" /\ s[1].id = 3) \/ Started(Tail(s))
           /\ Concluded(Tail(s)) => Concluded(s)
           /\ Final(s[1]) => Concluded(s)
           /\ LastWord(s) => LastWord(Tail(s))
           /\ LastWord(s) /\ Final(s[1]) => Silent(Tail(s))
<1> DEFINE t == Tail(s)
           n == Len(s)
           k == Len(t)
<1>1. /\ n \in Nat /\ n >= 1 /\ k \in Nat /\ k = n - 1
      /\ \A i \in 1..k : i + 1 \in 1..n /\ t[i] = s[i + 1]
      /\ \A i \in 1..n : i # 1 => i - 1 \in 1..k /\ t[i - 1] = s[i]
  BY Taken
<1> HIDE DEF t, n, k
<1>2. 1 \in 1..n
  BY <1>1
<1>3. ASSUME \A i \in 1..n : ~OfTurn(s[i])
      PROVE  (\A i \in 1..k : ~OfTurn(t[i])) /\ ~OfTurn(s[1])
  BY <1>1, <1>2, <1>3
<1>4. ASSUME NEW j \in 1..n, s[j].kind = "result", s[j].id = 3, \A i \in 1..j : ~OfTurn(s[i])
      PROVE  /\ ~OfTurn(s[1])
             /\ \/ s[1].kind = "result" /\ s[1].id = 3
                \/ \E l \in 1..k : /\ t[l].kind = "result" /\ t[l].id = 3
                                   /\ \A i \in 1..l : ~OfTurn(t[i])
  <2>1. 1 \in 1..j
    OBVIOUS
  <2>2. ASSUME j # 1
        PROVE  \E l \in 1..k : /\ t[l].kind = "result" /\ t[l].id = 3
                               /\ \A i \in 1..l : ~OfTurn(t[i])
    <3>1. j - 1 \in 1..k /\ t[j - 1] = s[j]
      BY <1>1, <2>2
    <3>2. ASSUME NEW i \in 1..(j - 1)
          PROVE  ~OfTurn(t[i])
      <4>1. i \in 1..k /\ i + 1 \in 1..j
        BY <1>1, <3>1
      <4>2. QED
        BY <1>1, <1>4, <4>1
    <3>3. QED
      BY <1>4, <3>1, <3>2
  <2>3. QED
    BY <1>4, <2>1, <2>2
<1>5. ASSUME NEW i \in 1..k, Final(t[i])
      PROVE  \E j \in 1..n : Final(s[j])
  BY <1>1, <1>5
<1>6. ASSUME \A i, j \in 1..n : Final(s[i]) /\ j > i => ~OfTurn(s[j])
      PROVE  /\ \A i, j \in 1..k : Final(t[i]) /\ j > i => ~OfTurn(t[j])
             /\ Final(s[1]) => \A j \in 1..k : ~OfTurn(t[j])
  <2>1. ASSUME NEW i \in 1..k, NEW j \in 1..k, Final(t[i]), j > i
        PROVE  ~OfTurn(t[j])
    <3>1. j + 1 > i + 1
      BY <2>1
    <3>2. QED
      BY <1>1, <1>6, <2>1, <3>1
  <2>2. ASSUME Final(s[1]), NEW j \in 1..k
        PROVE  ~OfTurn(t[j])
    <3>1. j + 1 > 1
      OBVIOUS
    <3>2. QED
      BY <1>1, <1>2, <1>6, <2>2, <3>1
  <2>3. QED
    BY <2>1, <2>2
<1>7. QED
  BY <1>2, <1>3, <1>4, <1>5, <1>6 DEF Silent, Started, Concluded, LastWord, t, n, k

LEMMA DeltasPut ==
    ASSUME NEW s \in Seq(Messages), NEW m \in Messages, NEW c \in Nat, NEW last \in Nat,
           Carries(s, c, last)
    PROVE  /\ ~OwnDelta(m) => Carries(Append(s, m), c, last)
           /\ OwnDelta(m) /\ m.n = last + 1 => Carries(Append(s, m), c, last + 1)
<1> DEFINE t == Append(s, m)
           n == Len(s)
           k == Len(t)
<1>1. /\ n \in Nat /\ k = n + 1 /\ t[n + 1] = m
      /\ \A i \in 1..n : i \in 1..(n + 1) /\ t[i] = s[i]
      /\ n + 1 \in 1..(n + 1)
      /\ \A i \in 1..(n + 1) : i \in 1..n \/ i = n + 1
  BY Put
<1>2. /\ c <= last
      /\ \A i \in 1..n : OwnDelta(s[i]) => s[i].n \in (c + 1)..last
      /\ \A l \in (c + 1)..last : \E i \in 1..n : OwnDelta(s[i]) /\ s[i].n = l
      /\ \A i, j \in 1..n : OwnDelta(s[i]) /\ OwnDelta(s[j]) /\ i < j => s[i].n < s[j].n
  BY DEF Carries
<1> HIDE DEF t, n, k
<1>3. ASSUME ~OwnDelta(m)
      PROVE  /\ \A i \in 1..k : OwnDelta(t[i]) => t[i].n \in (c + 1)..last
             /\ \A l \in (c + 1)..last : \E i \in 1..k : OwnDelta(t[i]) /\ t[i].n = l
             /\ \A i, j \in 1..k : OwnDelta(t[i]) /\ OwnDelta(t[j]) /\ i < j => t[i].n < t[j].n
  <2>1. \A i \in 1..k : OwnDelta(t[i]) => i \in 1..n /\ t[i] = s[i]
    BY <1>1, <1>3
  <2>2. ASSUME NEW l \in (c + 1)..last
        PROVE  \E i \in 1..k : OwnDelta(t[i]) /\ t[i].n = l
    <3>1. PICK i \in 1..n : OwnDelta(s[i]) /\ s[i].n = l
      BY <1>2
    <3>2. i \in 1..k /\ t[i] = s[i]
      BY <1>1
    <3>3. QED
      BY <3>1, <3>2
  <2>3. QED
    BY <1>2, <2>1, <2>2
<1>4. ASSUME OwnDelta(m), m.n = last + 1
      PROVE  /\ c <= last + 1
             /\ \A i \in 1..k : OwnDelta(t[i]) => t[i].n \in (c + 1)..(last + 1)
             /\ \A l \in (c + 1)..(last + 1) : \E i \in 1..k : OwnDelta(t[i]) /\ t[i].n = l
             /\ \A i, j \in 1..k : OwnDelta(t[i]) /\ OwnDelta(t[j]) /\ i < j => t[i].n < t[j].n
  <2>1. c <= last + 1 /\ last + 1 \in (c + 1)..(last + 1)
    BY <1>2
  <2>2. \A l \in (c + 1)..last : l \in (c + 1)..(last + 1) /\ l < last + 1
    OBVIOUS
  <2>3. ASSUME NEW i \in 1..k, OwnDelta(t[i])
        PROVE  t[i].n \in (c + 1)..(last + 1)
    BY <1>1, <1>2, <1>4, <2>1, <2>2, <2>3
  <2>4. ASSUME NEW l \in (c + 1)..(last + 1)
        PROVE  \E i \in 1..k : OwnDelta(t[i]) /\ t[i].n = l
    <3>1. CASE l = last + 1
      BY <1>1, <1>4, <3>1
    <3>2. CASE l # last + 1
      <4>1. l \in (c + 1)..last
        BY <3>2
      <4>2. PICK i \in 1..n : OwnDelta(s[i]) /\ s[i].n = l
        BY <1>2, <4>1
      <4>3. i \in 1..k /\ t[i] = s[i]
        BY <1>1
      <4>4. QED
        BY <4>2, <4>3
    <3>3. QED
      BY <3>1, <3>2
  <2>5. ASSUME NEW i \in 1..k, NEW j \in 1..k, OwnDelta(t[i]), OwnDelta(t[j]), i < j
        PROVE  t[i].n < t[j].n
    <3>1. i \in 1..n /\ t[i] = s[i]
      BY <1>1, <2>5
    <3>2. CASE j \in 1..n
      BY <1>1, <1>2, <2>5, <3>1, <3>2
    <3>3. CASE j = n + 1
      <4>1. t[j].n = last + 1 /\ t[i].n \in (c + 1)..last
        BY <1>1, <1>2, <1>4, <2>5, <3>1, <3>3
      <4>2. QED
        BY <2>2, <4>1
    <3>4. QED
      BY <1>1, <3>2, <3>3
  <2>6. QED
    BY <2>1, <2>3, <2>4, <2>5
<1>5. QED
  BY <1>2, <1>3, <1>4 DEF Carries, t, k

LEMMA DeltasTaken ==
    ASSUME NEW s \in Seq(Messages), s # << >>, NEW c \in Nat, NEW last \in Nat,
           Carries(s, c, last)
    PROVE  /\ ~OwnDelta(s[1]) => Carries(Tail(s), c, last)
           /\ OwnDelta(s[1]) => s[1].n = c + 1 /\ Carries(Tail(s), c + 1, last)
<1> DEFINE t == Tail(s)
           n == Len(s)
           k == Len(t)
<1>1. /\ n \in Nat /\ n >= 1 /\ k \in Nat /\ k = n - 1
      /\ \A i \in 1..k : i + 1 \in 1..n /\ t[i] = s[i + 1]
      /\ \A i \in 1..n : i # 1 => i - 1 \in 1..k /\ t[i - 1] = s[i]
  BY Taken
<1>2. /\ c <= last
      /\ \A i \in 1..n : OwnDelta(s[i]) => s[i].n \in (c + 1)..last
      /\ \A l \in (c + 1)..last : \E i \in 1..n : OwnDelta(s[i]) /\ s[i].n = l
      /\ \A i, j \in 1..n : OwnDelta(s[i]) /\ OwnDelta(s[j]) /\ i < j => s[i].n < s[j].n
  BY DEF Carries
<1> HIDE DEF t, n, k
<1>3. 1 \in 1..n
  BY <1>1
<1>4. \A i, j \in 1..k : OwnDelta(t[i]) /\ OwnDelta(t[j]) /\ i < j => t[i].n < t[j].n
  <2>1. ASSUME NEW i \in 1..k, NEW j \in 1..k, OwnDelta(t[i]), OwnDelta(t[j]), i < j
        PROVE  t[i].n < t[j].n
    <3>1. i + 1 < j + 1
      BY <2>1
    <3>2. QED
      BY <1>1, <1>2, <2>1, <3>1
  <2>2. QED
    BY <2>1
<1>5. ASSUME ~OwnDelta(s[1])
      PROVE  /\ \A i \in 1..k : OwnDelta(t[i]) => t[i].n \in (c + 1)..last
             /\ \A l \in (c + 1)..last : \E i \in 1..k : OwnDelta(t[i]) /\ t[i].n = l
  <2>1. ASSUME NEW l \in (c + 1)..last
        PROVE  \E i \in 1..k : OwnDelta(t[i]) /\ t[i].n = l
    <3>1. PICK i \in 1..n : OwnDelta(s[i]) /\ s[i].n = l
      BY <1>2
    <3>2. i - 1 \in 1..k /\ t[i - 1] = s[i]
      BY <1>1, <1>5, <3>1
    <3>3. QED
      BY <3>1, <3>2
  <2>2. QED
    BY <1>1, <1>2, <2>1
<1>6. ASSUME OwnDelta(s[1])
      PROVE  /\ s[1].n = c + 1 /\ c + 1 <= last
             /\ \A i \in 1..k : OwnDelta(t[i]) => t[i].n \in (c + 2)..last
             /\ \A l \in (c + 2)..last : \E i \in 1..k : OwnDelta(t[i]) /\ t[i].n = l
  <2>1. s[1].n \in (c + 1)..last
    BY <1>2, <1>3, <1>6
  <2>2. c + 1 \in (c + 1)..last
    BY <2>1
  <2>3. PICK i \in 1..n : OwnDelta(s[i]) /\ s[i].n = c + 1
    BY <1>2, <2>2
  <2>4. i = 1
    <3>1. SUFFICES ASSUME i # 1
                   PROVE  FALSE
      OBVIOUS
    <3>2. 1 < i
      BY <1>1, <3>1
    <3>3. s[1].n < c + 1
      BY <1>2, <1>3, <1>6, <2>3, <3>2
    <3>4. QED
      BY <2>1, <3>3
  <2>5. s[1].n = c + 1 /\ c + 1 <= last
    BY <2>1, <2>3, <2>4
  <2>6. ASSUME NEW j \in 1..k, OwnDelta(t[j])
        PROVE  t[j].n \in (c + 2)..last
    <3>1. j + 1 \in 1..n /\ t[j] = s[j + 1] /\ 1 < j + 1
      BY <1>1
    <3>2. t[j].n \in (c + 1)..last /\ c + 1 < t[j].n
      BY <1>2, <1>3, <1>6, <2>5, <2>6, <3>1
    <3>3. QED
      BY <3>2
  <2>7. ASSUME NEW l \in (c + 2)..last
        PROVE  \E j \in 1..k : OwnDelta(t[j]) /\ t[j].n = l
    <3>1. l \in (c + 1)..last /\ l # c + 1
      OBVIOUS
    <3>2. PICK j \in 1..n : OwnDelta(s[j]) /\ s[j].n = l
      BY <1>2, <3>1
    <3>3. j - 1 \in 1..k /\ t[j - 1] = s[j]
      BY <1>1, <2>5, <3>1, <3>2
    <3>4. QED
      BY <3>2, <3>3
  <2>8. QED
    BY <2>5, <2>6, <2>7
<1>7. (c + 1) + 1 = c + 2
  OBVIOUS
<1>8. QED
  BY <1>2, <1>4, <1>5, <1>6, <1>7 DEF Carries, t, k

LEMMA CallsPut ==
    ASSUME NEW s \in Seq(Messages), NEW m \in Messages, NEW ids
    PROVE  /\ m.kind # "tool" => /\ OncePerCall(s) => OncePerCall(Append(s, m))
                                 /\ CallsAreOf(s, ids) => CallsAreOf(Append(s, m), ids)
                                 /\ \A id : Waits(Append(s, m), id) <=> Waits(s, id)
           /\ m.kind = "tool" =>
                 /\ OncePerCall(s) /\ ~Waits(s, m.id) => OncePerCall(Append(s, m))
                 /\ CallsAreOf(s, ids) => CallsAreOf(Append(s, m), ids \cup {m.id})
                 /\ \A id : Waits(Append(s, m), id) <=> Waits(s, id) \/ id = m.id
<1> DEFINE t == Append(s, m)
           n == Len(s)
           k == Len(t)
<1>1. /\ n \in Nat /\ k = n + 1 /\ t[n + 1] = m
      /\ \A i \in 1..n : i \in 1..(n + 1) /\ t[i] = s[i]
      /\ n + 1 \in 1..(n + 1)
      /\ \A i \in 1..(n + 1) : i \in 1..n \/ i = n + 1
  BY Put
<1> HIDE DEF t, n, k
<1>2. \A id : (\E i \in 1..k : t[i].kind = "tool" /\ t[i].id = id) <=>
                 \/ \E i \in 1..n : s[i].kind = "tool" /\ s[i].id = id
                 \/ m.kind = "tool" /\ m.id = id
  BY <1>1
<1>3. \A i \in 1..k : (i \in 1..n /\ t[i] = s[i]) \/ (i = n + 1 /\ t[i] = m)
  BY <1>1
<1>4. ASSUME \A i, j \in 1..n :
                s[i].kind = "tool" /\ s[j].kind = "tool" /\ s[i].id = s[j].id => i = j,
             m.kind = "tool" => ~(\E i \in 1..n : s[i].kind = "tool" /\ s[i].id = m.id),
             NEW i \in 1..k, NEW j \in 1..k,
             t[i].kind = "tool", t[j].kind = "tool", t[i].id = t[j].id
      PROVE  i = j
  BY <1>3, <1>4
<1>5. \A i \in 1..k : (t[i].kind = "tool" => t[i].id \in ids \cup {m.id}) \/
                      ~(\A j \in 1..n : s[j].kind = "tool" => s[j].id \in ids)
  BY <1>3
<1>6. ASSUME m.kind # "tool", \A j \in 1..n : s[j].kind = "tool" => s[j].id \in ids
      PROVE  \A i \in 1..k : t[i].kind = "tool" => t[i].id \in ids
  BY <1>3, <1>6
<1>7. QED
  BY <1>2, <1>4, <1>5, <1>6 DEF OncePerCall, CallsAreOf, Waits, t, n, k

LEMMA CallsTaken ==
    ASSUME NEW s \in Seq(Messages), s # << >>, NEW ids
    PROVE  /\ OncePerCall(s) => OncePerCall(Tail(s))
           /\ CallsAreOf(s, ids) => /\ CallsAreOf(Tail(s), ids)
                                    /\ s[1].kind = "tool" => s[1].id \in ids
           /\ \A id : Waits(Tail(s), id) => Waits(s, id)
           /\ s[1].kind = "tool" => Waits(s, s[1].id)
           /\ \A id : Waits(s, id) => Waits(Tail(s), id) \/ (s[1].kind = "tool" /\ s[1].id = id)
           /\ OncePerCall(s) /\ s[1].kind = "tool" => ~Waits(Tail(s), s[1].id)
<1> DEFINE t == Tail(s)
           n == Len(s)
           k == Len(t)
<1>1. /\ n \in Nat /\ n >= 1 /\ k \in Nat /\ k = n - 1
      /\ \A i \in 1..k : i + 1 \in 1..n /\ t[i] = s[i + 1]
      /\ \A i \in 1..n : i # 1 => i - 1 \in 1..k /\ t[i - 1] = s[i]
  BY Taken
<1> HIDE DEF t, n, k
<1>2. 1 \in 1..n /\ \A i \in 1..k : i + 1 # 1
  BY <1>1
<1>3. ASSUME \A i, j \in 1..n :
                s[i].kind = "tool" /\ s[j].kind = "tool" /\ s[i].id = s[j].id => i = j
      PROVE  /\ \A i, j \in 1..k :
                   t[i].kind = "tool" /\ t[j].kind = "tool" /\ t[i].id = t[j].id => i = j
             /\ s[1].kind = "tool" => ~(\E i \in 1..k : t[i].kind = "tool" /\ t[i].id = s[1].id)
  <2>1. ASSUME NEW i \in 1..k, NEW j \in 1..k,
               t[i].kind = "tool", t[j].kind = "tool", t[i].id = t[j].id
        PROVE  i = j
    <3>1. /\ i + 1 \in 1..n /\ t[i] = s[i + 1]
          /\ j + 1 \in 1..n /\ t[j] = s[j + 1]
      BY <1>1
    <3>2. i + 1 = j + 1
      BY <1>3, <2>1, <3>1
    <3>3. QED
      BY <3>2
  <2>2. QED
    BY <1>1, <1>2, <1>3, <2>1
<1>4. ASSUME NEW id, NEW i \in 1..n, s[i].kind = "tool", s[i].id = id
      PROVE  \/ \E j \in 1..k : t[j].kind = "tool" /\ t[j].id = id
             \/ s[1].kind = "tool" /\ s[1].id = id
  BY <1>1, <1>4
<1>5. \A i \in 1..k : \E j \in 1..n : t[i] = s[j]
  BY <1>1
<1>6. QED
  BY <1>2, <1>3, <1>4, <1>5 DEF OncePerCall, CallsAreOf, Waits, t, n, k

LEMMA StraysPut ==
    ASSUME NEW s \in Seq(Messages), NEW m \in Messages, NEW told \in BOOLEAN, NEW then \in BOOLEAN,
           Astray(s, told), told => then, ~m.own /\ ~m.named => then /\ m.kind \in Finals
    PROVE  Astray(Append(s, m), then)
<1> DEFINE t == Append(s, m)
           n == Len(s)
           k == Len(t)
<1>1. /\ k = n + 1 /\ t[n + 1] = m
      /\ \A i \in 1..n : t[i] = s[i]
      /\ \A i \in 1..(n + 1) : i \in 1..n \/ i = n + 1
  BY Put
<1>2. \A i \in 1..n : ~s[i].own /\ ~s[i].named => told /\ s[i].kind \in Finals
  BY DEF Astray
<1> HIDE DEF t, n, k
<1>3. \A i \in 1..k : ~t[i].own /\ ~t[i].named => then /\ t[i].kind \in Finals
  BY <1>1, <1>2
<1>4. QED
  BY <1>3 DEF Astray, t, k

LEMMA StraysTaken ==
    ASSUME NEW s \in Seq(Messages), s # << >>, NEW told, Astray(s, told)
    PROVE  /\ Astray(Tail(s), told)
           /\ ~s[1].own /\ ~s[1].named => told /\ s[1].kind \in Finals
<1>1. /\ \A i \in 1..Len(Tail(s)) : i + 1 \in 1..Len(s) /\ Tail(s)[i] = s[i + 1]
      /\ 1 \in 1..Len(s)
  BY Taken
<1>2. QED
  BY <1>1 DEF Astray

-----------------------------------------------------------------------------
(* What each step does. *)

\* A step that leaves the streams, the turn and what was made of it alone.
Control ==
    /\ UNCHANGED <<setup, phase, interrupted, text, call, ran, answered,
                   requests, inbox, turn, emitted, spoken, asked, strayed>>
    /\ stage' \in Stages /\ outcome' \in Outcomes /\ cancelled' \in BOOLEAN
    /\ process' \in {"none", "alive", "gone", "reaped"}
    /\ stage' \in Early => stage \in Early /\ (stage' = "await" <=> stage = "await")
    /\ stage' \in Handling => stage \in Handling /\ (stage' = "tool" => stage = "tool")
    /\ stage' \notin Ending => stage \notin Ending /\ (stage \in Handling => stage' \in Handling)
    /\ outcome' = "ok" => outcome = "ok"

ControlActions ==
    \/ RejectRequest \/ Open \/ Broken \/ PhaseCancelled \/ PhaseTimesOut \/ NoticeCancel
    \/ InterruptTimesOut \/ ToolEnds \/ Shutdown \/ Reap \/ ReapFails
    \/ Cancel \/ ServerStopsReading \/ (stage # "done" /\ ServerExits) \/ UNCHANGED vars

LEMMA ControlStep ==
    ASSUME Typed, Staged, ControlActions
    PROVE  Control /\ Staged'
<1> USE DEF Early, Handling, Ending, Stages, Outcomes, Unchanged, ChannelsAndServer, server,
            client, Conclude
<1>1. /\ stage \in Stages /\ outcome \in Outcomes /\ cancelled \in BOOLEAN
      /\ process \in {"none", "alive", "gone", "reaped"}
  BY DEF Typed
<1>2. CASE RejectRequest
  BY <1>1, <1>2 DEF RejectRequest, Control, Staged
<1>3. CASE Open
  BY <1>1, <1>3 DEF Open, Control, Staged
<1>4. CASE Broken
  BY <1>1, <1>4 DEF Broken, Control, Staged
<1>5. CASE PhaseCancelled
  BY <1>1, <1>5 DEF PhaseCancelled, Control, Staged
<1>6. CASE PhaseTimesOut
  BY <1>1, <1>6 DEF PhaseTimesOut, Control, Staged
<1>7. CASE NoticeCancel
  BY <1>1, <1>7 DEF NoticeCancel, Control, Staged
<1>8. CASE InterruptTimesOut
  BY <1>1, <1>8 DEF InterruptTimesOut, Control, Staged
<1>9. CASE ToolEnds
  BY <1>1, <1>9 DEF ToolEnds, Control, Staged
<1>10. CASE Shutdown
  BY <1>1, <1>10 DEF Shutdown, Control, Staged
<1>11. CASE Reap
  BY <1>1, <1>11 DEF Reap, Control, Staged
<1>12. CASE ReapFails
  BY <1>1, <1>12 DEF ReapFails, Control, Staged
<1>13. CASE Cancel
  BY <1>1, <1>13 DEF Cancel, Control, Staged
<1>14. CASE ServerStopsReading
  BY <1>1, <1>14 DEF ServerStopsReading, Control, Staged
<1>15. CASE stage # "done" /\ ServerExits
  BY <1>1, <1>15 DEF ServerExits, Control, Staged
<1>16. CASE UNCHANGED vars
  BY <1>1, <1>16 DEF vars, Control, Staged
<1>17. QED
  BY <1>2, <1>3, <1>4, <1>5, <1>6, <1>7, <1>8, <1>9, <1>10, <1>11, <1>12, <1>13, <1>14,
     <1>15, <1>16 DEF ControlActions

\* The client writes a request of the phase it is in.
LEMMA PhaseSent ==
    ASSUME Typed, Staged, PhaseSend
    PROVE  /\ stage = "send"
           /\ \E m \in Messages : /\ requests' = Append(requests, m)
                                  /\ m.kind = "turn/start" => m.id = 3
                                  /\ m.kind = "turn/start" <=> phase = 4
                                  /\ m.kind # "turn/interrupt"
           /\ stage' \in {"send", "await"} /\ phase' \in 1..4
           /\ stage' = "await" /\ phase' = 4 <=> phase = 4
           /\ UNCHANGED <<setup, cancelled, interrupted, text, call, outcome, ran, answered,
                          process, inbox, turn, emitted, spoken, asked, strayed>>
           /\ Staged'
<1>1. phase \in 1..4
  BY DEF Typed
<1> DEFINE m == Message(Phases[phase], RequestId(Phases[phase]))
<1>2. /\ m \in Messages /\ m.kind = Phases[phase] /\ m.id = RequestId(Phases[phase])
      /\ Len(Phases) = 4
  <2>1. Phases[phase] \in Kinds /\ RequestId(Phases[phase]) \in Nat /\ Len(Phases) = 4
    BY <1>1, PhaseRequests
  <2>2. QED
    BY <2>1, MessageType
<1>3. /\ m.kind = "turn/start" <=> phase = 4
      /\ m.kind = "turn/start" => m.id = 3
      /\ m.kind # "turn/interrupt"
      /\ RequestId(Phases[phase]) = 0 <=> phase = 2
  BY <1>1, <1>2, PhaseRequests
<1>4. requests' = Append(requests, m)
  BY DEF PhaseSend, Write
<1>5. \/ phase # 2 /\ stage' = "await" /\ phase' = phase
      \/ phase = 2 /\ stage' = "send" /\ phase' = phase + 1
  BY <1>2, <1>3 DEF PhaseSend, NextPhase
<1>6. /\ stage' \in {"send", "await"} /\ phase' \in 1..4
      /\ stage' = "await" /\ phase' = 4 <=> phase = 4
  BY <1>1, <1>5
<1>7. /\ stage = "send"
      /\ UNCHANGED <<setup, cancelled, interrupted, text, call, outcome, ran, answered,
                     process, inbox, turn, emitted, spoken, asked, strayed>>
  BY DEF PhaseSend, server
<1>8. Staged'
  BY <1>6, <1>7 DEF Staged, Early, Ending
<1> HIDE DEF m
<1>9. QED
  BY <1>2, <1>3, <1>4, <1>6, <1>7, <1>8

\* A message ends a phase, or the session, or is passed over.
LEMMA PhaseReceived ==
    ASSUME Typed, Staged, PhaseReceive
    PROVE  /\ stage = "await" /\ inbox # << >> /\ inbox' = Tail(inbox)
           /\ \/ stage' = "await" /\ phase' = phase /\ outcome' = outcome /\ inbox[1].id = 0
              \/ phase # 4 /\ stage' = "send" /\ phase' = phase + 1 /\ outcome' = outcome
              \/ phase = 4 /\ stage' = "collect" /\ phase' = phase /\ outcome' = outcome
              \/ stage' = "shutdown" /\ phase' = phase /\ outcome' \in {"server", "protocol"}
           /\ UNCHANGED <<setup, cancelled, interrupted, text, call, ran, answered,
                          process, requests, turn, emitted, spoken, asked, strayed>>
           /\ Staged'
<1>1. /\ stage = "await" /\ inbox # << >> /\ inbox' = Tail(inbox)
      /\ UNCHANGED <<setup, cancelled, interrupted, text, call, ran, answered,
                     process, requests, turn, emitted, spoken, asked, strayed>>
  BY DEF PhaseReceive, server
<1>2. Head(inbox) = inbox[1] /\ Len(Phases) = 4
  BY <1>1, Taken DEF Typed, Phases
<1>3. \/ stage' = "await" /\ phase' = phase /\ outcome' = outcome /\ inbox[1].id = 0
      \/ phase # 4 /\ stage' = "send" /\ phase' = phase + 1 /\ outcome' = outcome
      \/ phase = 4 /\ stage' = "collect" /\ phase' = phase /\ outcome' = outcome
      \/ stage' = "shutdown" /\ phase' = phase /\ outcome' \in {"server", "protocol"}
  <2> DEFINE reply == inbox[1].id = RequestId(Phases[phase])
  <2>1. \/ inbox[1].id = 0 /\ UNCHANGED <<stage, phase, outcome>>
        \/ NextPhase /\ UNCHANGED outcome
        \/ Conclude("server") /\ UNCHANGED phase
        \/ Conclude("protocol") /\ UNCHANGED phase
    BY <1>2 DEF PhaseReceive
  <2>2. QED
    BY <1>1, <1>2, <2>1 DEF NextPhase, Conclude
<1>4. Staged'
  BY <1>1, <1>3 DEF Staged, Early, Ending
<1>5. QED
  BY <1>1, <1>3, <1>4

\* A message of the turn is passed over, collected, handled as a tool call, or
\* ends the session.
LEMMA Received ==
    ASSUME Typed, Staged, Tools, Strays, Receive
    PROVE  /\ stage = "collect" /\ inbox # << >> /\ inbox' = Tail(inbox)
           /\ \/ /\ stage' \in {"collect", "interrupt"} /\ UNCHANGED <<outcome, text, call>>
                 /\ OwnDelta(inbox[1]) \/ inbox[1].kind = "tool" => interrupted
              \/ /\ stage' \in {"collect", "interrupt"} /\ UNCHANGED <<outcome, call>>
                 /\ OwnDelta(inbox[1]) /\ text' = Append(text, inbox[1].n)
              \/ /\ stage' = "tool" /\ UNCHANGED <<outcome, text>>
                 /\ inbox[1].kind = "tool" /\ call' = inbox[1]
              \/ /\ stage' = "shutdown" /\ UNCHANGED <<text, call>>
                 /\ outcome' \in Outcomes
                 /\ outcome' = "ok" => /\ inbox[1].kind = "completed" /\ ~interrupted
                                       /\ inbox[1].own \/ strayed
           /\ UNCHANGED <<setup, cancelled, phase, interrupted, ran, answered,
                          process, requests, turn, emitted, spoken, asked, strayed>>
           /\ Staged'
<1> DEFINE m == inbox[1]
<1>1. /\ stage = "collect" /\ inbox # << >> /\ inbox' = Tail(inbox)
      /\ UNCHANGED <<setup, cancelled, phase, interrupted, ran, answered,
                     process, requests, turn, emitted, spoken, asked, strayed>>
  BY DEF Receive, server
<1>2. Head(inbox) = m /\ m \in Messages
  BY <1>1, Taken DEF Typed
<1>3. m.kind = "tool" => m.id # 0
  BY <1>1, CallsTaken, TurnAssumption DEF Typed, Tools
<1>4. ~Filtered(m) => m.own \/ (strayed /\ m.kind \in Finals)
  BY <1>1, <1>2, StraysTaken DEF Typed, Strays, Filtered, Messages
<1>5. OwnDelta(m) => ~Filtered(m) /\ m.kind = "delta"
  BY DEF OwnDelta, Filtered
<1>6. /\ LoopHead \in {"collect", "interrupt"}
      /\ LoopHead = "interrupt" => cancelled /\ ~interrupted
  BY DEF LoopHead
<1> HIDE DEF m
<1>7. \/ m.kind = "garbage" /\ End("protocol")
      \/ ReceiveInterruptReply(m) \/ ReceiveToolCall(m) \/ ReceiveNotification(m)
  BY <1>2 DEF Receive
<1>8. \/ /\ stage' = LoopHead /\ UNCHANGED <<outcome, text, call>>
         /\ OwnDelta(m) \/ m.kind = "tool" => interrupted
      \/ /\ stage' = LoopHead /\ UNCHANGED <<outcome, call>>
         /\ OwnDelta(m) /\ text' = Append(text, m.n)
      \/ /\ stage' = "tool" /\ UNCHANGED <<outcome, text>>
         /\ m.kind = "tool" /\ call' = m
      \/ /\ stage' = "shutdown" /\ UNCHANGED <<text, call>>
         /\ outcome' \in Outcomes \ {"none"}
         /\ outcome' = "ok" => m.kind = "completed" /\ ~interrupted /\ (m.own \/ strayed)
  <2>1. CASE m.kind = "garbage" /\ End("protocol")
    BY <2>1 DEF End, Conclude, Outcomes
  <2>2. CASE ReceiveInterruptReply(m)
    BY <2>2 DEF ReceiveInterruptReply, IsInterruptReply, Ignore, End, Conclude, Outcomes
  <2>3. CASE ReceiveToolCall(m)
    BY <2>3 DEF ReceiveToolCall, End, Conclude, Outcomes
  <2>4. CASE ReceiveNotification(m)
    <3>1. \/ Ignore /\ (OwnDelta(m) \/ m.kind = "tool" => interrupted)
          \/ OwnDelta(m) /\ text' = Append(text, m.n) /\ stage' = LoopHead /\ UNCHANGED <<outcome, call>>
          \/ /\ m.kind = "completed" /\ (m.own \/ strayed)
             /\ End(IF interrupted THEN "protocol" ELSE "ok")
          \/ m.kind \in {"interrupted", "failed"} /\ End(m.kind)
      BY <1>3, <1>4, <1>5, <2>4 DEF ReceiveNotification, OwnDelta, Finals
    <3>2. QED
      BY <3>1 DEF Ignore, End, Conclude, Outcomes
  <2>5. QED
    BY <1>7, <2>1, <2>2, <2>3, <2>4
<1>9. Staged'
  BY <1>1, <1>6, <1>8 DEF Staged, Early, Ending
<1>10. QED
  BY <1>1, <1>6, <1>8, <1>9 DEF m

LEMMA Interrupted ==
    ASSUME Typed, Staged, SendInterrupt
    PROVE  /\ stage = "interrupt" /\ stage' = "collect" /\ interrupted' = TRUE
           /\ \E m \in Messages : requests' = Append(requests, m) /\ m.kind = "turn/interrupt"
           /\ UNCHANGED <<setup, cancelled, phase, text, call, outcome, ran, answered,
                          process, inbox, turn, emitted, spoken, asked, strayed>>
           /\ Staged'
<1>1. "turn/interrupt" \in Kinds /\ RequestId("turn/interrupt") \in Nat
  BY DEF Kinds, RequestId
<1> DEFINE m == Message("turn/interrupt", RequestId("turn/interrupt"))
<1>2. m \in Messages /\ m.kind = "turn/interrupt"
  BY <1>1, MessageType
<1>3. /\ stage = "interrupt" /\ stage' = "collect" /\ interrupted' = TRUE
      /\ requests' = Append(requests, m)
      /\ UNCHANGED <<setup, cancelled, phase, text, call, outcome, ran, answered,
                     process, inbox, turn, emitted, spoken, asked, strayed>>
  BY DEF SendInterrupt, Write, server
<1> HIDE DEF m
<1>4. Staged'
  BY <1>3 DEF Staged, Early, Ending
<1>5. QED
  BY <1>2, <1>3, <1>4

LEMMA ToolRan ==
    ASSUME Typed, Staged, RunTool
    PROVE  /\ stage = "tool"
           /\ \/ stage' = "running" /\ ran' = [ran EXCEPT ![call.id] = @ + 1]
              \/ stage' = "answer" /\ ran' = ran
           /\ UNCHANGED <<setup, cancelled, phase, interrupted, text, call, outcome, answered,
                          process, requests, inbox, turn, emitted, spoken, asked, strayed>>
           /\ Staged'
<1>1. /\ stage = "tool"
      /\ \/ stage' = "running" /\ ran' = [ran EXCEPT ![call.id] = @ + 1]
         \/ stage' = "answer" /\ ran' = ran
      /\ UNCHANGED <<setup, cancelled, phase, interrupted, text, call, outcome, answered,
                     process, requests, inbox, turn, emitted, spoken, asked, strayed>>
  BY DEF RunTool, ChannelsAndServer, server
<1>2. Staged'
  BY <1>1 DEF Staged, Early, Ending
<1>3. QED
  BY <1>1, <1>2

LEMMA CallAnswered ==
    ASSUME Typed, Staged, SendAnswer
    PROVE  /\ stage = "answer" /\ stage' \in {"collect", "interrupt"}
           /\ \E m \in Messages : requests' = Append(requests, m) /\ m.kind = "answer"
           /\ answered' = [answered EXCEPT ![call.id] = @ + 1]
           /\ call' \in Messages
           /\ UNCHANGED <<setup, cancelled, phase, interrupted, text, outcome, ran,
                          process, inbox, turn, emitted, spoken, asked, strayed>>
           /\ Staged'
<1>1. /\ "answer" \in Kinds /\ "none" \in Kinds /\ 0 \in Nat /\ call.id \in Nat
  BY DEF Kinds, Typed, Messages
<1>2. /\ Message("answer", call.id) \in Messages /\ Message("answer", call.id).kind = "answer"
      /\ NoCall \in Messages
  BY <1>1, MessageType DEF NoCall
<1>3. /\ stage = "answer" /\ stage' = LoopHead
      /\ requests' = Append(requests, Message("answer", call.id))
      /\ answered' = [answered EXCEPT ![call.id] = @ + 1]
      /\ call' = NoCall
      /\ UNCHANGED <<setup, cancelled, phase, interrupted, text, outcome, ran,
                     process, inbox, turn, emitted, spoken, asked, strayed>>
  BY DEF SendAnswer, Write, server
<1>4. /\ LoopHead \in {"collect", "interrupt"}
      /\ LoopHead = "interrupt" => cancelled /\ ~interrupted
  BY DEF LoopHead
<1>5. Staged'
  BY <1>3, <1>4 DEF Staged, Early, Ending
<1>6. QED
  BY <1>2, <1>3, <1>4, <1>5

\* The server takes a request and may reply to it.
LEMMA Handled ==
    ASSUME Typed, Staged, ServerHandles
    PROVE  /\ requests # << >> /\ requests' = Tail(requests)
           /\ \/ inbox' = inbox /\ turn' = turn
              \/ \E m \in Messages :
                    /\ inbox' = Append(inbox, m)
                    /\ m.kind \in {"error", "result"} /\ m.id = requests[1].id /\ m.own
                    /\ \/ turn' = turn /\ (requests[1].kind = "turn/start" => m.kind = "error")
                       \/ /\ requests[1].kind = "turn/start" /\ m.kind = "result"
                          /\ turn' = "running"
                       \/ turn = "running" /\ turn' = "interrupting"
           /\ UNCHANGED <<setup, stage, phase, cancelled, interrupted, text, call, outcome,
                          ran, answered, process, emitted, spoken, asked, strayed>>
           /\ Staged'
<1> DEFINE r == requests[1]
<1>1. /\ requests # << >> /\ requests' = Tail(requests)
      /\ UNCHANGED <<setup, stage, phase, cancelled, interrupted, text, call, outcome,
                     ran, answered, process, emitted, spoken, asked, strayed>>
  BY DEF ServerHandles, client
<1>2. Head(requests) = r /\ r \in Messages
  BY <1>1, Taken DEF Typed
<1> HIDE DEF r
<1>3. r.id \in Nat /\ "error" \in Kinds /\ "result" \in Kinds
  BY <1>2 DEF Messages, Kinds
<1>4. /\ Message("error", r.id) \in Messages /\ Message("error", r.id).kind = "error"
      /\ Message("error", r.id).id = r.id /\ Message("error", r.id).own
      /\ Message("result", r.id) \in Messages /\ Message("result", r.id).kind = "result"
      /\ Message("result", r.id).id = r.id /\ Message("result", r.id).own
  BY <1>3, MessageType
<1>5. LET m == Malformed(Message("result", r.id))
      IN  m \in Messages /\ m.kind = "result" /\ m.id = r.id /\ m.own
  BY <1>4, AlteredMessage
<1>6. \/ inbox' = inbox /\ turn' = turn
      \/ Say(Message("error", r.id)) /\ turn' = turn
      \/ /\ Say(Message("result", r.id)) \/ Say(Malformed(Message("result", r.id)))
         /\ \/ r.kind = "turn/start" /\ turn' = "running"
            \/ r.kind # "turn/start" /\ turn = "running" /\ turn' = "interrupting"
            \/ r.kind # "turn/start" /\ turn' = turn
  BY <1>2 DEF ServerHandles
<1>7. \/ inbox' = inbox /\ turn' = turn
      \/ \E m \in Messages :
            /\ inbox' = Append(inbox, m)
            /\ m.kind \in {"error", "result"} /\ m.id = r.id /\ m.own
            /\ \/ turn' = turn /\ (r.kind = "turn/start" => m.kind = "error")
               \/ r.kind = "turn/start" /\ m.kind = "result" /\ turn' = "running"
               \/ turn = "running" /\ turn' = "interrupting"
  <2>1. CASE Say(Message("error", r.id)) /\ turn' = turn
    BY <1>4, <2>1 DEF Say
  <2>2. ASSUME Say(Message("result", r.id)) \/ Say(Malformed(Message("result", r.id)))
        PROVE  \E m \in Messages : /\ inbox' = Append(inbox, m)
                                   /\ m.kind = "result" /\ m.id = r.id /\ m.own
    BY <1>4, <1>5, <2>2 DEF Say
  <2>3. QED
    BY <1>6, <2>1, <2>2
<1>8. Staged'
  BY <1>1 DEF Staged
<1>9. QED
  BY <1>1, <1>7, <1>8 DEF r

\* The server speaks of its own accord.
LEMMA Spoke ==
    ASSUME Typed, Staged, ServerSpeaks
    PROVE  /\ \E m \in Messages :
                 /\ inbox' = Append(inbox, m)
                 /\ ~Final(m) /\ m.kind # "result"
                 /\ \/ ~OfTurn(m) /\ emitted' = emitted /\ asked' = asked
                    \/ InTurn /\ OwnDelta(m) /\ m.n = emitted + 1
                       /\ emitted' = emitted + 1 /\ asked' = asked
                    \/ InTurn /\ m.kind = "tool" /\ m.id \in ToolIds /\ m.id \notin asked
                       /\ emitted' = emitted /\ asked' = asked \cup {m.id}
                 /\ ~m.own /\ ~m.named => strayed' /\ m.kind \in Finals
           /\ strayed' \in BOOLEAN /\ (strayed => strayed')
           /\ spoken < MaxMessages /\ spoken' = spoken + 1
           /\ UNCHANGED <<setup, stage, phase, cancelled, interrupted, text, call, outcome,
                          ran, answered, process, requests, turn>>
           /\ Staged'
<1>1. /\ spoken < MaxMessages /\ spoken' = spoken + 1
      /\ UNCHANGED <<setup, stage, phase, cancelled, interrupted, text, call, outcome,
                     ran, answered, process, requests, turn>>
  BY DEF ServerSpeaks, client
<1>2. PICK m \in Speeches :
         /\ m.kind = "tool" => m.id \notin asked
         /\ asked' = IF m.kind = "tool" THEN asked \cup {m.id} ELSE asked
         /\ Say(m)
         /\ emitted' = emitted + (IF m.kind = "delta" /\ m.own THEN 1 ELSE 0)
         /\ strayed' = (strayed \/ ~m.named)
  BY DEF ServerSpeaks
<1>3. /\ m \in Messages /\ ~Final(m) /\ m.kind # "result"
      /\ OwnDelta(m) => InTurn /\ m.n = emitted + 1
      /\ m.kind = "tool" => InTurn /\ m.id \in ToolIds
      /\ m.named \/ m.kind \in Finals
  BY SpeechKinds
<1>4. emitted \in Nat
  BY DEF Typed
<1>5. \/ ~OfTurn(m) /\ emitted' = emitted /\ asked' = asked
      \/ InTurn /\ OwnDelta(m) /\ m.n = emitted + 1
         /\ emitted' = emitted + 1 /\ asked' = asked
      \/ InTurn /\ m.kind = "tool" /\ m.id \in ToolIds /\ m.id \notin asked
         /\ emitted' = emitted /\ asked' = asked \cup {m.id}
  BY <1>2, <1>3, <1>4 DEF OfTurn, OwnDelta
<1>6. Staged'
  BY <1>1 DEF Staged
<1>7. strayed' \in BOOLEAN /\ (strayed => strayed') /\ (~m.named => strayed')
  BY <1>2
<1>8. QED
  BY <1>1, <1>2, <1>3, <1>5, <1>6, <1>7 DEF Say

LEMMA TurnEnded ==
    ASSUME Typed, Staged, ServerEndsTurn
    PROVE  /\ InTurn /\ turn' = "over"
           /\ \E m \in Messages : inbox' = Append(inbox, m) /\ Final(m)
           /\ UNCHANGED <<setup, stage, phase, cancelled, interrupted, text, call, outcome,
                          ran, answered, process, requests, emitted, spoken, asked, strayed>>
           /\ Staged'
<1>1. /\ InTurn /\ turn' = "over"
      /\ UNCHANGED <<setup, stage, phase, cancelled, interrupted, text, call, outcome,
                     ran, answered, process, requests, emitted, spoken, asked, strayed>>
  BY DEF ServerEndsTurn, client
<1>2. PICK status \in {"completed", "failed", "interrupted"} : Say(Message(status, 0))
  BY DEF ServerEndsTurn
<1>3. status \in Kinds /\ 0 \in Nat
  BY DEF Kinds
<1>4. /\ Message(status, 0) \in Messages /\ Message(status, 0).kind = status
      /\ Message(status, 0).own = TRUE
  BY <1>3, MessageType
<1>5. Final(Message(status, 0))
  BY <1>4 DEF Final, Finals
<1>6. Staged'
  BY <1>1 DEF Staged
<1>7. QED
  BY <1>1, <1>2, <1>4, <1>5, <1>6 DEF Say

LEMMA NextActions ==
    ASSUME [Next]_vars
    PROVE  \/ ControlActions \/ PhaseSend \/ PhaseReceive \/ Receive \/ SendInterrupt
           \/ RunTool \/ SendAnswer
           \/ (stage # "done" /\ (ServerHandles \/ ServerSpeaks \/ ServerEndsTurn))
BY DEF Next, ClientNext, ServerNext, Finished, ControlActions

-----------------------------------------------------------------------------
(* Each part of the invariant is kept. *)

LEMMA TypedKept ==
    ASSUME Typed, Staged, Tools, Strays, [Next]_vars
    PROVE  Typed'
<1>1. requests \in Seq(Messages) /\ inbox \in Seq(Messages)
  BY DEF Typed
<1>2. \A m \in Messages : /\ Append(requests, m) \in Seq(Messages)
                          /\ Append(inbox, m) \in Seq(Messages)
  BY <1>1, Put
<1>3. /\ requests # << >> => Tail(requests) \in Seq(Messages)
      /\ inbox # << >> => Tail(inbox) \in Seq(Messages) /\ inbox[1] \in Messages
  BY <1>1, Taken
<1>4. MaxMessages \in Nat
  BY TurnAssumption
<1>5. CASE ControlActions
  BY <1>5, ControlStep DEF Control, Typed
<1>6. CASE PhaseSend
  <2>1. stage' \in Stages
    BY <1>6, PhaseSent DEF Stages, Early
  <2>2. QED
    BY <1>2, <1>6, <2>1, PhaseSent DEF Typed
<1>7. CASE PhaseReceive
  <2>1. stage' \in Stages /\ outcome' \in Outcomes /\ phase' \in 1..4
    BY <1>7, PhaseReceived DEF Stages, Early, Ending, Outcomes, Typed
  <2>2. QED
    BY <1>3, <1>7, <2>1, PhaseReceived DEF Typed
<1>8. CASE Receive
  <2>1. stage' \in Stages /\ outcome' \in Outcomes /\ call' \in Messages
    BY <1>3, <1>8, Received DEF Stages, Handling, Ending, Typed
  <2>2. text' \in Seq(Nat)
    <3>1. inbox[1].n \in Nat /\ text \in Seq(Nat)
      BY <1>3, <1>8, Received DEF Messages, Typed
    <3>2. Append(text, inbox[1].n) \in Seq(Nat)
      BY <3>1, AppendProperties
    <3>3. QED
      BY <1>8, <3>1, <3>2, Received
  <2>3. QED
    BY <1>3, <1>8, <2>1, <2>2, Received DEF Typed
<1>9. CASE SendInterrupt
  <2>1. stage' \in Stages
    BY <1>9, Interrupted DEF Stages
  <2>2. QED
    BY <1>2, <1>9, <2>1, Interrupted DEF Typed
<1>10. CASE RunTool
  <2>1. stage' \in Stages
    BY <1>10, ToolRan DEF Stages, Handling
  <2>2. call.id \in ToolIds /\ ran[call.id] = 0
    BY <1>10, ToolRan DEF Tools, Handling, Typed
  <2>3. [ran EXCEPT ![call.id] = @ + 1] \in [ToolIds -> 0..1]
    BY <2>2 DEF Typed
  <2>4. QED
    BY <1>10, <2>1, <2>3, ToolRan DEF Typed
<1>11. CASE SendAnswer
  <2>1. stage' \in Stages
    BY <1>11, CallAnswered DEF Stages
  <2>2. call.id \in ToolIds /\ answered[call.id] = 0
    BY <1>11, CallAnswered DEF Tools, Handling, Typed
  <2>3. [answered EXCEPT ![call.id] = @ + 1] \in [ToolIds -> 0..1]
    BY <2>2 DEF Typed
  <2>4. QED
    BY <1>2, <1>11, <2>1, <2>3, CallAnswered DEF Typed
<1>12. CASE ServerHandles
  BY <1>2, <1>3, <1>12, Handled DEF Typed
<1>13. CASE ServerSpeaks
  <2>1. spoken' \in 0..MaxMessages /\ emitted' \in 0..spoken' /\ asked' \subseteq ToolIds
    BY <1>4, <1>13, Spoke DEF Typed
  <2>2. inbox' \in Seq(Messages)
    BY <1>2, <1>13, Spoke
  <2>3. QED
    BY <1>13, <2>1, <2>2, Spoke DEF Typed
<1>14. CASE ServerEndsTurn
  BY <1>2, <1>14, TurnEnded DEF Typed
<1>15. QED
  BY <1>5, <1>6, <1>7, <1>8, <1>9, <1>10, <1>11, <1>12, <1>13, <1>14, NextActions

LEMMA StagedKept ==
    ASSUME Typed, Staged, Tools, Strays, [Next]_vars
    PROVE  Staged'
BY NextActions, ControlStep, PhaseSent, PhaseReceived, Received, Interrupted, ToolRan,
   CallAnswered, Handled, Spoke, TurnEnded

LEMMA RequestedKept ==
    ASSUME Typed, Staged, Tools, Strays, Requested, [Next]_vars
    PROVE  Requested'
<1> DEFINE Numbered(s) == \A i \in 1..Len(s) : s[i].kind = "turn/start" => s[i].id = 3
<1>1. requests \in Seq(Messages) /\ Numbered(requests)
  BY DEF Typed, Requested
<1>2. ASSUME NEW m \in Messages, m.kind = "turn/start" => m.id = 3
      PROVE  Numbered(Append(requests, m))
  BY <1>1, <1>2, Put
<1>3. ASSUME requests # << >>
      PROVE  /\ Numbered(Tail(requests))
             /\ requests[1].kind = "turn/start" =>
                   /\ ~Unwritten(requests, "turn/start")
                   /\ requests[1].id = 3
  BY <1>1, <1>3, Taken DEF Unwritten
<1>4. /\ AtMostOne(requests, "turn/start") /\ AtMostOne(requests, "turn/interrupt")
      /\ ~interrupted => Unwritten(requests, "turn/interrupt")
      /\ turn # "none" => Unwritten(requests, "turn/start")
      /\ Unasked => turn = "none" /\ Unwritten(requests, "turn/start")
  BY DEF Requested
<1> DEFINE Goal == /\ AtMostOne(requests', "turn/start") /\ AtMostOne(requests', "turn/interrupt")
                   /\ ~interrupted' => Unwritten(requests', "turn/interrupt")
                   /\ turn' # "none" => Unwritten(requests', "turn/start")
                   /\ Unasked' => turn' = "none" /\ Unwritten(requests', "turn/start")
                   /\ Numbered(requests')
<1>5. SUFFICES Goal
  BY DEF Requested, AtMostOne, Unwritten
<1> HIDE DEF Numbered
<1>6. CASE ControlActions
  <2>1. Unasked' => Unasked
    BY <1>6, ControlStep DEF Control, Unasked
  <2>2. UNCHANGED <<requests, interrupted, turn>>
    BY <1>6, ControlStep DEF Control
  <2>3. QED
    BY <1>1, <1>4, <2>1, <2>2
<1>7. CASE PhaseSend
  <2>1. PICK m \in Messages : /\ requests' = Append(requests, m)
                              /\ m.kind = "turn/start" => m.id = 3
                              /\ m.kind = "turn/start" <=> phase = 4
                              /\ m.kind # "turn/interrupt"
    BY <1>7, PhaseSent
  <2>2. Unasked /\ turn' = turn /\ interrupted' = interrupted
    BY <1>7, PhaseSent DEF Unasked, Early
  <2>3. Unasked' => m.kind # "turn/start"
    BY <1>7, <2>1, PhaseSent DEF Unasked
  <2>4. QED
    BY <1>1, <1>2, <1>4, <2>1, <2>2, <2>3, RequestsPut
<1>8. CASE PhaseReceive
  <2>1. UNCHANGED <<requests, turn, interrupted>>
    BY <1>8, PhaseReceived
  <2>2. Unasked' => Unasked
    BY <1>8, PhaseReceived DEF Unasked, Early
  <2>3. QED
    BY <1>1, <1>4, <2>1, <2>2
<1>9. CASE Receive
  <2>1. UNCHANGED <<requests, turn, interrupted>>
    BY <1>9, Received
  <2>2. ~Unasked'
    BY <1>9, Received DEF Unasked, Early
  <2>3. QED
    BY <1>1, <1>4, <2>1, <2>2
<1>10. CASE SendInterrupt
  <2>1. PICK m \in Messages : requests' = Append(requests, m) /\ m.kind = "turn/interrupt"
    BY <1>10, Interrupted
  <2>2. interrupted' /\ ~interrupted /\ turn' = turn /\ ~Unasked'
    BY <1>10, Interrupted DEF Unasked, Early, Staged
  <2>3. QED
    BY <1>1, <1>2, <1>4, <2>1, <2>2, RequestsPut
<1>11. CASE RunTool
  <2>1. UNCHANGED <<requests, turn, interrupted>> /\ ~Unasked'
    BY <1>11, ToolRan DEF Unasked, Early
  <2>2. QED
    BY <1>1, <1>4, <2>1
<1>12. CASE SendAnswer
  <2>1. PICK m \in Messages : requests' = Append(requests, m) /\ m.kind = "answer"
    BY <1>12, CallAnswered
  <2>2. UNCHANGED <<turn, interrupted>> /\ ~Unasked'
    BY <1>12, CallAnswered DEF Unasked, Early
  <2>3. QED
    BY <1>1, <1>2, <1>4, <2>1, <2>2, RequestsPut
<1>13. CASE ServerHandles
  <2>1. requests # << >> /\ requests' = Tail(requests)
    BY <1>13, Handled
  <2>2. UNCHANGED <<stage, phase, interrupted>>
    BY <1>13, Handled
  <2>3. Unasked' <=> Unasked
    BY <2>2 DEF Unasked
  <2>4. turn' = turn \/ turn = "running" \/ requests[1].kind = "turn/start"
    BY <1>13, Handled
  <2>5. QED
    BY <1>1, <1>3, <1>4, <2>1, <2>2, <2>3, <2>4, RequestsTaken
<1>14. CASE ServerSpeaks
  <2>1. UNCHANGED <<stage, phase, requests, turn, interrupted>>
    BY <1>14, Spoke
  <2>2. QED
    BY <1>1, <1>4, <2>1 DEF Unasked
<1>15. CASE ServerEndsTurn
  <2>1. UNCHANGED <<stage, phase, requests, interrupted>> /\ turn # "none" /\ turn' = "over"
    BY <1>15, TurnEnded DEF InTurn
  <2>2. QED
    BY <1>1, <1>4, <2>1 DEF Unasked
<1>16. QED
  BY <1>6, <1>7, <1>8, <1>9, <1>10, <1>11, <1>12, <1>13, <1>14, <1>15, NextActions

LEMMA SpokenKept ==
    ASSUME Typed, Staged, Tools, Strays, Requested, Spoken, [Next]_vars
    PROVE  Spoken'
<1>1. inbox \in Seq(Messages)
  BY DEF Typed
<1>2. /\ turn = "none" => emitted = 0 /\ asked = {} /\ Silent(inbox)
      /\ stage \in Early /\ turn # "none" => Started(inbox)
      /\ Concluded(inbox) => turn = "over"
      /\ LastWord(inbox)
  BY DEF Spoken
<1> DEFINE Goal == /\ turn' = "none" => emitted' = 0 /\ asked' = {} /\ Silent(inbox')
                   /\ stage' \in Early /\ turn' # "none" => Started(inbox')
                   /\ Concluded(inbox') => turn' = "over"
                   /\ LastWord(inbox')
<1>3. SUFFICES Goal
  BY DEF Spoken, Silent, Started, Concluded, LastWord
<1>4. ASSUME stage' \in Early => stage \in Early, UNCHANGED <<turn, emitted, asked, inbox>>
      PROVE  Goal
  BY <1>2, <1>4
<1>5. CASE ControlActions
  BY <1>4, <1>5, ControlStep DEF Control
<1>6. CASE PhaseSend
  BY <1>4, <1>6, PhaseSent DEF Early
<1>7. CASE PhaseReceive
  <2>1. inbox # << >> /\ inbox' = Tail(inbox) /\ UNCHANGED <<turn, emitted, asked>>
    BY <1>7, PhaseReceived
  <2>2. stage' \in Early /\ turn # "none" => ~(inbox[1].kind = "result" /\ inbox[1].id = 3)
    <3>1. stage = "await"
      BY <1>7, PhaseReceived
    <3>2. turn # "none" => phase = 4
      BY <3>1 DEF Requested, Unasked, Early
    <3>3. phase = 4 /\ stage' \in Early => inbox[1].id = 0
      BY <1>7, PhaseReceived DEF Early
    <3>4. QED
      BY <3>2, <3>3
  <2>3. stage \in Early
    BY <1>7, PhaseReceived DEF Early
  <2>4. QED
    BY <1>1, <1>2, <2>1, <2>2, <2>3, SpeechTaken
<1>8. CASE Receive
  <2>1. inbox # << >> /\ inbox' = Tail(inbox) /\ UNCHANGED <<turn, emitted, asked>>
    BY <1>8, Received
  <2>2. stage' \notin Early
    BY <1>8, Received DEF Early
  <2>3. QED
    BY <1>1, <1>2, <2>1, <2>2, SpeechTaken
<1>9. CASE SendInterrupt
  BY <1>4, <1>9, Interrupted DEF Early
<1>10. CASE RunTool
  BY <1>4, <1>10, ToolRan DEF Early
<1>11. CASE SendAnswer
  BY <1>4, <1>11, CallAnswered DEF Early
<1>12. CASE ServerHandles
  <2>1. UNCHANGED <<stage, emitted, asked>> /\ requests # << >>
    BY <1>12, Handled
  <2>2. CASE inbox' = inbox /\ turn' = turn
    BY <1>4, <2>1, <2>2
  <2>3. ASSUME NEW m \in Messages,
               inbox' = Append(inbox, m),
               m.kind \in {"error", "result"} /\ m.id = requests[1].id,
               \/ turn' = turn /\ (requests[1].kind = "turn/start" => m.kind = "error")
               \/ requests[1].kind = "turn/start" /\ m.kind = "result" /\ turn' = "running"
               \/ turn = "running" /\ turn' = "interrupting"
        PROVE  Goal
    <3>1. ~OfTurn(m) /\ ~Final(m)
      BY <2>3 DEF OfTurn, OwnDelta, Final, Finals
    <3>2. 1 \in 1..Len(requests)
      BY <2>1, Taken DEF Typed
    <3>3. requests[1].kind = "turn/start" => requests[1].id = 3 /\ turn = "none"
      BY <3>2 DEF Requested, Unwritten
    <3>4. turn = "over" => turn' = "over"
      BY <2>3, <3>3
    <3>5. turn' = "none" => turn = "none"
      BY <2>3
    <3>6. turn # "none" \/ turn' = "none" \/ (m.kind = "result" /\ m.id = 3)
      BY <2>3, <3>3
    <3>7. /\ turn' = "none" => Silent(inbox')
          /\ stage' \in Early /\ turn' # "none" => Started(inbox')
      BY <1>1, <1>2, <2>1, <2>3, <3>1, <3>5, <3>6, SpeechPut
    <3>8. (Concluded(inbox') => turn' = "over") /\ LastWord(inbox')
      BY <1>1, <1>2, <2>3, <3>1, <3>4, SpeechPut
    <3>9. QED
      BY <1>2, <2>1, <3>5, <3>7, <3>8
  <2>4. QED
    BY <1>12, <2>2, <2>3, Handled
<1>13. CASE ServerSpeaks
  <2>1. UNCHANGED <<stage, turn>>
    BY <1>13, Spoke
  <2>2. PICK m \in Messages :
           /\ inbox' = Append(inbox, m) /\ ~Final(m)
           /\ \/ ~OfTurn(m) /\ emitted' = emitted /\ asked' = asked
              \/ InTurn
    BY <1>13, Spoke
  <2>3. turn = "none" => ~OfTurn(m) /\ emitted' = emitted /\ asked' = asked
    BY <2>2 DEF InTurn
  <2>4. OfTurn(m) => turn # "over"
    BY <2>2 DEF InTurn
  <2>5. QED
    BY <1>1, <1>2, <2>1, <2>2, <2>3, <2>4, SpeechPut
<1>14. CASE ServerEndsTurn
  <2>1. turn # "none" /\ turn # "over" /\ turn' = "over" /\ UNCHANGED stage
    BY <1>14, TurnEnded DEF InTurn
  <2>2. PICK m \in Messages : inbox' = Append(inbox, m) /\ Final(m)
    BY <1>14, TurnEnded
  <2>3. QED
    BY <1>1, <1>2, <2>1, <2>2, SpeechPut
<1>15. QED
  BY <1>5, <1>6, <1>7, <1>8, <1>9, <1>10, <1>11, <1>12, <1>13, <1>14, NextActions

\* What a phase receives is not of the turn.
LEMMA EarlySilence ==
    ASSUME Typed, Spoken, stage \in Early, inbox # << >>
    PROVE  ~OfTurn(inbox[1])
<1>1. inbox \in Seq(Messages)
  BY DEF Typed
<1>2. Silent(inbox) \/ Started(inbox)
  BY DEF Spoken
<1>3. QED
  BY <1>1, <1>2, SpeechTaken

LEMMA Counted ==
    ASSUME NEW t \in Seq(Nat), Counts(t)
    PROVE  LET longer == Append(t, Len(t) + 1)
           IN  longer \in Seq(Nat) /\ Len(longer) = Len(t) + 1 /\ Counts(longer)
<1> DEFINE n == Len(t)
           u == Append(t, n + 1)
<1>1. n \in Nat /\ n + 1 \in Nat
  BY LenProperties
<1>2. /\ u \in Seq(Nat) /\ Len(u) = n + 1
      /\ \A i \in 1..n : u[i] = t[i]
      /\ u[n + 1] = n + 1
  BY <1>1, AppendProperties
<1>3. \A i \in 1..n : t[i] = i
  BY DEF Counts
<1> HIDE DEF n, u
<1>4. \A i \in 1..(n + 1) : i \in 1..n \/ i = n + 1
  BY <1>1
<1>5. \A i \in 1..(n + 1) : u[i] = i
  BY <1>2, <1>3, <1>4
<1>6. QED
  BY <1>2, <1>5 DEF Counts, n, u

LEMMA DeltasKept ==
    ASSUME Typed, Staged, Tools, Strays, Requested, Spoken, Deltas, [Next]_vars
    PROVE  Deltas'
<1>1. /\ inbox \in Seq(Messages) /\ text \in Seq(Nat) /\ Len(text) \in Nat /\ emitted \in Nat
      /\ interrupted \in BOOLEAN
  BY LenProperties DEF Typed
<1>2. SUFFICES ASSUME stage' \notin Ending, ~interrupted'
               PROVE  Counts(text') /\ Carries(inbox', Len(text'), emitted')
  BY DEF Deltas, Counts, Carries
<1>3. ASSUME stage \notin Ending, ~interrupted
      PROVE  Counts(text) /\ Carries(inbox, Len(text), emitted)
  BY <1>3 DEF Deltas
<1>4. ASSUME stage \notin Ending, UNCHANGED <<interrupted, text, inbox, emitted>>
      PROVE  Counts(text') /\ Carries(inbox', Len(text'), emitted')
  BY <1>2, <1>3, <1>4
<1>5. CASE ControlActions
  BY <1>2, <1>4, <1>5, ControlStep DEF Control
<1>6. CASE PhaseSend
  BY <1>4, <1>6, PhaseSent DEF Ending
<1>7. CASE PhaseReceive
  <2>1. /\ stage = "await" /\ inbox # << >> /\ inbox' = Tail(inbox)
        /\ UNCHANGED <<interrupted, text, emitted, turn>>
    BY <1>7, PhaseReceived
  <2>2. ~OwnDelta(inbox[1])
    BY <2>1, EarlySilence DEF Early, OfTurn
  <2>3. Counts(text) /\ Carries(inbox, Len(text), emitted)
    BY <1>2, <1>3, <2>1 DEF Ending
  <2>4. QED
    BY <1>1, <2>1, <2>2, <2>3, DeltasTaken
<1>8. CASE Receive
  <2>1. /\ stage = "collect" /\ inbox # << >> /\ inbox' = Tail(inbox)
        /\ UNCHANGED <<interrupted, emitted>>
    BY <1>8, Received
  <2>2. Counts(text) /\ Carries(inbox, Len(text), emitted)
    BY <1>2, <1>3, <2>1 DEF Ending
  <2>3. \/ ~OwnDelta(inbox[1]) /\ text' = text
        \/ OwnDelta(inbox[1]) /\ text' = Append(text, inbox[1].n)
    BY <1>2, <1>8, <2>1, Received DEF Ending, OwnDelta
  <2>4. CASE ~OwnDelta(inbox[1]) /\ text' = text
    BY <1>1, <2>1, <2>2, <2>4, DeltasTaken
  <2>5. CASE OwnDelta(inbox[1]) /\ text' = Append(text, inbox[1].n)
    <3>1. inbox[1].n = Len(text) + 1 /\ Carries(Tail(inbox), Len(text) + 1, emitted)
      BY <1>1, <2>1, <2>2, <2>5, DeltasTaken
    <3>2. text' = Append(text, Len(text) + 1)
      BY <2>5, <3>1
    <3>3. Len(text') = Len(text) + 1 /\ Counts(text')
      BY <1>1, <2>2, <3>2, Counted
    <3>4. QED
      BY <2>1, <3>1, <3>3
  <2>6. QED
    BY <2>3, <2>4, <2>5
<1>9. CASE SendInterrupt
  BY <1>2, <1>9, Interrupted
<1>10. CASE RunTool
  BY <1>4, <1>10, ToolRan DEF Ending
<1>11. CASE SendAnswer
  BY <1>4, <1>11, CallAnswered DEF Ending
<1>12. CASE ServerHandles
  <2>1. UNCHANGED <<stage, interrupted, text, emitted>>
    BY <1>12, Handled
  <2>2. Counts(text) /\ Carries(inbox, Len(text), emitted)
    BY <1>2, <1>3, <2>1
  <2>3. ASSUME NEW m \in Messages, inbox' = Append(inbox, m), m.kind \in {"error", "result"}
        PROVE  Carries(inbox', Len(text'), emitted')
    BY <1>1, <2>1, <2>2, <2>3, DeltasPut DEF OwnDelta
  <2>4. CASE inbox' = inbox
    BY <2>1, <2>2, <2>4
  <2>5. QED
    BY <1>12, <2>1, <2>2, <2>3, <2>4, Handled
<1>13. CASE ServerSpeaks
  <2>1. UNCHANGED <<stage, interrupted, text>>
    BY <1>13, Spoke
  <2>2. Counts(text) /\ Carries(inbox, Len(text), emitted)
    BY <1>2, <1>3, <2>1
  <2>3. PICK m \in Messages :
           /\ inbox' = Append(inbox, m)
           /\ \/ ~OwnDelta(m) /\ emitted' = emitted
              \/ OwnDelta(m) /\ m.n = emitted + 1 /\ emitted' = emitted + 1
    BY <1>13, Spoke DEF OfTurn, OwnDelta
  <2>4. QED
    BY <1>1, <2>1, <2>2, <2>3, DeltasPut
<1>14. CASE ServerEndsTurn
  <2>1. UNCHANGED <<stage, interrupted, text, emitted>>
    BY <1>14, TurnEnded
  <2>2. Counts(text) /\ Carries(inbox, Len(text), emitted)
    BY <1>2, <1>3, <2>1
  <2>3. PICK m \in Messages : inbox' = Append(inbox, m) /\ Final(m)
    BY <1>14, TurnEnded
  <2>4. ~OwnDelta(m)
    BY <2>3 DEF OwnDelta, Final, Finals
  <2>5. QED
    BY <1>1, <2>1, <2>2, <2>3, <2>4, DeltasPut
<1>15. QED
  BY <1>5, <1>6, <1>7, <1>8, <1>9, <1>10, <1>11, <1>12, <1>13, <1>14, NextActions

LEMMA ToolsKept ==
    ASSUME Typed, Staged, Tools, Strays, Spoken, [Next]_vars
    PROVE  Tools'
<1>1. /\ inbox \in Seq(Messages) /\ asked \subseteq ToolIds
      /\ ran \in [ToolIds -> 0..1] /\ answered \in [ToolIds -> 0..1]
      /\ interrupted \in BOOLEAN
  BY DEF Typed
<1>2. /\ OncePerCall(inbox) /\ CallsAreOf(inbox, asked)
      /\ \A id \in asked : Waits(inbox, id) => ran[id] = 0 /\ answered[id] = 0
      /\ stage \in Handling => /\ call.id \in asked /\ answered[call.id] = 0
                               /\ ~Waits(inbox, call.id)
                               /\ stage = "tool" => ran[call.id] = 0
      /\ \A id \in ToolIds : ran[id] = 1 \/ answered[id] = 1 => id \in asked
      /\ stage \notin Ending /\ ~interrupted =>
            \A id \in asked : \/ answered[id] = 1
                              \/ stage \in Handling /\ call.id = id
                              \/ Waits(inbox, id)
  BY DEF Tools
<1> DEFINE Goal ==
      /\ OncePerCall(inbox') /\ CallsAreOf(inbox', asked')
      /\ \A id \in asked' : Waits(inbox', id) => ran'[id] = 0 /\ answered'[id] = 0
      /\ stage' \in Handling => /\ call'.id \in asked' /\ answered'[call'.id] = 0
                                /\ ~Waits(inbox', call'.id)
                                /\ stage' = "tool" => ran'[call'.id] = 0
      /\ \A id \in ToolIds : ran'[id] = 1 \/ answered'[id] = 1 => id \in asked'
      /\ stage' \notin Ending /\ ~interrupted' =>
            \A id \in asked' : \/ answered'[id] = 1
                               \/ stage' \in Handling /\ call'.id = id
                               \/ Waits(inbox', id)
<1>3. SUFFICES Goal
  BY DEF Tools, OncePerCall, CallsAreOf, Waits
<1>4. ASSUME UNCHANGED <<inbox, asked, ran, answered, call>>,
             stage' \in Handling => stage \in Handling /\ (stage' = "tool" => stage = "tool"),
             stage' \notin Ending /\ ~interrupted' =>
                /\ stage \notin Ending /\ ~interrupted
                /\ stage \in Handling => stage' \in Handling
      PROVE  Goal
  BY <1>2, <1>4
<1>5. CASE ControlActions
  BY <1>4, <1>5, ControlStep DEF Control
<1>6. CASE PhaseSend
  BY <1>4, <1>6, PhaseSent DEF Ending, Handling
<1>7. CASE PhaseReceive
  <2>1. /\ stage = "await" /\ inbox # << >> /\ inbox' = Tail(inbox)
        /\ UNCHANGED <<interrupted, call, ran, answered, asked>>
    BY <1>7, PhaseReceived
  <2>2. stage' \notin Handling /\ stage \notin Handling /\ stage \notin Ending
    BY <1>7, <2>1, PhaseReceived DEF Handling, Ending
  <2>3. inbox[1].kind # "tool"
    BY <2>1, EarlySilence DEF Early, OfTurn
  <2>4. /\ OncePerCall(inbox') /\ CallsAreOf(inbox', asked)
        /\ \A id : Waits(inbox', id) <=> Waits(inbox, id)
    BY <1>1, <1>2, <2>1, <2>3, CallsTaken
  <2>5. QED
    BY <1>2, <2>1, <2>2, <2>4
<1>8. CASE Receive
  <2>1. /\ stage = "collect" /\ inbox # << >> /\ inbox' = Tail(inbox)
        /\ UNCHANGED <<interrupted, ran, answered, asked>>
    BY <1>8, Received
  <2>2. stage \notin Handling /\ stage \notin Ending
    BY <2>1 DEF Handling, Ending
  <2>3. \/ stage' \notin Handling /\ (inbox[1].kind = "tool" => interrupted \/ stage' \in Ending)
        \/ stage' = "tool" /\ inbox[1].kind = "tool" /\ call' = inbox[1]
    BY <1>8, Received DEF Handling, Ending, OwnDelta
  <2>4. /\ OncePerCall(inbox') /\ CallsAreOf(inbox', asked)
        /\ \A id : Waits(inbox', id) => Waits(inbox, id)
        /\ \A id : Waits(inbox, id) =>
              Waits(inbox', id) \/ (inbox[1].kind = "tool" /\ inbox[1].id = id)
    BY <1>1, <1>2, <2>1, CallsTaken
  <2>5. CASE stage' \notin Handling /\ (inbox[1].kind = "tool" => interrupted \/ stage' \in Ending)
    BY <1>2, <2>1, <2>2, <2>4, <2>5
  <2>6. CASE stage' = "tool" /\ inbox[1].kind = "tool" /\ call' = inbox[1]
    <3>1. /\ call'.id \in asked /\ Waits(inbox, call'.id) /\ ~Waits(inbox', call'.id)
      BY <1>1, <1>2, <2>1, <2>6, CallsTaken
    <3>2. stage' \in Handling
      BY <2>6 DEF Handling
    <3>3. QED
      BY <1>2, <2>1, <2>2, <2>4, <2>6, <3>1, <3>2
  <2>7. QED
    BY <2>3, <2>5, <2>6
<1>9. CASE SendInterrupt
  BY <1>4, <1>9, Interrupted DEF Ending, Handling
<1>10. CASE RunTool
  <2>1. /\ stage = "tool" /\ stage' \in {"running", "answer"}
        /\ UNCHANGED <<interrupted, call, answered, inbox, asked>>
    BY <1>10, ToolRan
  <2>2. stage \in Handling /\ stage' \in Handling /\ stage \notin Ending /\ stage' # "tool"
    BY <2>1 DEF Handling, Ending
  <2>3. call.id \in asked /\ call.id \in ToolIds /\ ~Waits(inbox, call.id)
    BY <1>1, <1>2, <2>2
  <2>4. \A id \in ToolIds : id # call.id => ran'[id] = ran[id]
    BY <1>1, <1>10, ToolRan
  <2>5. QED
    BY <1>1, <1>2, <2>1, <2>2, <2>3, <2>4
<1>11. CASE SendAnswer
  <2>1. /\ stage = "answer" /\ stage' \in {"collect", "interrupt"}
        /\ answered' = [answered EXCEPT ![call.id] = @ + 1]
        /\ UNCHANGED <<interrupted, ran, inbox, asked>>
    BY <1>11, CallAnswered
  <2>2. stage \in Handling /\ stage' \notin Handling /\ stage \notin Ending
    BY <2>1 DEF Handling, Ending
  <2>3. /\ call.id \in asked /\ call.id \in ToolIds /\ ~Waits(inbox, call.id)
        /\ answered[call.id] = 0
    BY <1>1, <1>2, <2>2
  <2>4. \A id \in ToolIds : id # call.id => answered'[id] = answered[id]
    BY <1>1, <2>1
  <2>5. answered'[call.id] = 1
    BY <1>1, <2>1, <2>3
  <2>6. QED
    BY <1>1, <1>2, <2>1, <2>2, <2>3, <2>4, <2>5
<1>12. CASE ServerHandles
  <2>1. UNCHANGED <<stage, interrupted, call, ran, answered, asked>>
    BY <1>12, Handled
  <2>2. CASE inbox' = inbox
    BY <1>4, <2>1, <2>2
  <2>3. ASSUME NEW m \in Messages, inbox' = Append(inbox, m), m.kind \in {"error", "result"}
        PROVE  Goal
    <3>1. /\ OncePerCall(inbox') /\ CallsAreOf(inbox', asked)
          /\ \A id : Waits(inbox', id) <=> Waits(inbox, id)
      BY <1>1, <1>2, <2>3, CallsPut
    <3>2. QED
      BY <1>2, <2>1, <3>1
  <2>4. QED
    BY <1>12, <2>2, <2>3, Handled
<1>13. CASE ServerSpeaks
  <2>1. UNCHANGED <<stage, interrupted, call, ran, answered>>
    BY <1>13, Spoke
  <2>2. PICK m \in Messages :
           /\ inbox' = Append(inbox, m)
           /\ \/ m.kind # "tool" /\ asked' = asked
              \/ /\ m.kind = "tool" /\ m.id \in ToolIds /\ m.id \notin asked
                 /\ asked' = asked \cup {m.id}
    BY <1>13, Spoke DEF OfTurn, OwnDelta
  <2>3. CASE m.kind # "tool" /\ asked' = asked
    <3>1. /\ OncePerCall(inbox') /\ CallsAreOf(inbox', asked)
          /\ \A id : Waits(inbox', id) <=> Waits(inbox, id)
      BY <1>1, <1>2, <2>2, <2>3, CallsPut
    <3>2. QED
      BY <1>2, <2>1, <2>3, <3>1
  <2>4. CASE m.kind = "tool" /\ m.id \in ToolIds /\ m.id \notin asked /\ asked' = asked \cup {m.id}
    <3>1. ~Waits(inbox, m.id)
      BY <1>2, <2>4 DEF Waits, CallsAreOf
    <3>2. /\ OncePerCall(inbox') /\ CallsAreOf(inbox', asked')
          /\ \A id : Waits(inbox', id) <=> Waits(inbox, id) \/ id = m.id
      BY <1>1, <1>2, <2>2, <2>4, <3>1, CallsPut
    <3>3. ran[m.id] = 0 /\ answered[m.id] = 0
      <4>1. ran[m.id] \in 0..1 /\ answered[m.id] \in 0..1
        BY <1>1, <2>4
      <4>2. ran[m.id] # 1 /\ answered[m.id] # 1
        BY <1>2, <2>4
      <4>3. QED
        BY <4>1, <4>2
    <3>4. QED
      BY <1>2, <2>1, <2>4, <3>2, <3>3
  <2>5. QED
    BY <2>2, <2>3, <2>4
<1>14. CASE ServerEndsTurn
  <2>1. UNCHANGED <<stage, interrupted, call, ran, answered, asked>>
    BY <1>14, TurnEnded
  <2>2. PICK m \in Messages : inbox' = Append(inbox, m) /\ Final(m)
    BY <1>14, TurnEnded
  <2>3. m.kind # "tool"
    BY <2>2 DEF Final, Finals
  <2>4. /\ OncePerCall(inbox') /\ CallsAreOf(inbox', asked)
        /\ \A id : Waits(inbox', id) <=> Waits(inbox, id)
    BY <1>1, <1>2, <2>2, <2>3, CallsPut
  <2>5. QED
    BY <1>2, <2>1, <2>4
<1>15. QED
  BY <1>5, <1>6, <1>7, <1>8, <1>9, <1>10, <1>11, <1>12, <1>13, <1>14, NextActions

LEMMA StraysKept ==
    ASSUME Typed, Staged, Tools, Strays, [Next]_vars
    PROVE  Strays'
<1>1. inbox \in Seq(Messages) /\ strayed \in BOOLEAN /\ Astray(inbox, strayed)
  BY DEF Typed, Strays
<1>2. SUFFICES Astray(inbox', strayed')
  BY DEF Strays, Astray
<1>3. CASE UNCHANGED <<inbox, strayed>>
  BY <1>1, <1>3
<1>4. CASE inbox # << >> /\ inbox' = Tail(inbox) /\ strayed' = strayed
  BY <1>1, <1>4, StraysTaken
<1>5. ASSUME NEW m \in Messages, inbox' = Append(inbox, m), strayed' \in BOOLEAN,
             strayed => strayed', ~m.own /\ ~m.named => strayed' /\ m.kind \in Finals
      PROVE  Astray(inbox', strayed')
  BY <1>1, <1>5, StraysPut
<1>6. CASE ControlActions
  BY <1>3, <1>6, ControlStep DEF Control
<1>7. CASE PhaseSend \/ SendInterrupt \/ RunTool \/ SendAnswer
  BY <1>3, <1>7, PhaseSent, Interrupted, ToolRan, CallAnswered
<1>8. CASE PhaseReceive \/ Receive
  BY <1>4, <1>8, PhaseReceived, Received
<1>9. CASE ServerHandles
  BY <1>1, <1>3, <1>5, <1>9, Handled
<1>10. CASE ServerSpeaks
  BY <1>1, <1>5, <1>10, Spoke
<1>11. CASE ServerEndsTurn
  BY <1>1, <1>5, <1>11, TurnEnded DEF Final
<1>12. QED
  BY <1>6, <1>7, <1>8, <1>9, <1>10, <1>11, NextActions

LEMMA WholeKept ==
    ASSUME Inv, [Next]_vars
    PROVE  Whole'
<1>1. Typed /\ Staged /\ Requested /\ Spoken /\ Deltas /\ Tools /\ Strays /\ Whole
  BY DEF Inv
<1>2. /\ inbox \in Seq(Messages) /\ Len(text) \in Nat /\ emitted \in Nat
      /\ interrupted \in BOOLEAN
  BY <1>1, LenProperties DEF Typed
<1>3. SUFFICES ASSUME outcome' = "ok"
               PROVE  /\ ~interrupted'
                      /\ Len(text') <= emitted' /\ Counts(text')
                      /\ \A id \in asked' : answered'[id] = 1 \/ Waits(inbox', id)
                      /\ ~strayed' => /\ turn' = "over" /\ Len(text') = emitted'
                                      /\ \A id \in asked' : answered'[id] = 1
  BY DEF Whole, Counts, Waits
<1>4. outcome = "ok" => /\ ~interrupted
                        /\ Len(text) <= emitted /\ Counts(text)
                        /\ \A id \in asked : answered[id] = 1 \/ Waits(inbox, id)
                        /\ ~strayed => /\ turn = "over" /\ Len(text) = emitted
                                       /\ \A id \in asked : answered[id] = 1
                        /\ stage \in Ending
  BY <1>1 DEF Whole, Staged
<1>5. CASE Receive
  <2>1. /\ stage = "collect" /\ inbox # << >> /\ inbox' = Tail(inbox)
        /\ UNCHANGED <<interrupted, answered, turn, emitted, asked, strayed>>
    BY <1>1, <1>5, Received
  <2>2. stage \notin Ending /\ stage \notin Handling /\ stage \notin Early
    BY <2>1 DEF Ending, Handling, Early
  <2>3. /\ inbox[1].kind = "completed" /\ ~interrupted /\ text' = text
        /\ inbox[1].own \/ strayed
    BY <1>1, <1>3, <1>4, <1>5, <2>2, Received
  <2>4. Counts(text) /\ Carries(inbox, Len(text), emitted)
    BY <1>1, <2>2, <2>3 DEF Deltas
  <2>5. ASSUME NEW id \in asked
        PROVE  answered[id] = 1 \/ Waits(Tail(inbox), id)
    <3>1. answered[id] = 1 \/ Waits(inbox, id)
      BY <1>1, <2>2, <2>3 DEF Tools
    <3>2. QED
      BY <1>2, <2>1, <2>3, <3>1, CallsTaken
  <2>6. ASSUME ~strayed
        PROVE  /\ turn = "over" /\ Len(text) = emitted
               /\ \A id \in asked : answered[id] = 1
    <3>1. Silent(Tail(inbox)) /\ Concluded(inbox) /\ ~OwnDelta(inbox[1])
      BY <1>1, <1>2, <2>1, <2>3, <2>6, SpeechTaken DEF Spoken, Final, Finals, OwnDelta
    <3>2. turn = "over"
      BY <1>1, <3>1 DEF Spoken
    <3>3. Carries(Tail(inbox), Len(text), emitted)
      BY <1>2, <2>1, <2>4, <3>1, DeltasTaken
    <3>4. \A i \in 1..Len(Tail(inbox)) : ~OwnDelta(Tail(inbox)[i])
      BY <3>1 DEF Silent, OfTurn
    <3>5. Len(text) <= emitted /\ ~(\E n \in (Len(text) + 1)..emitted : TRUE)
      BY <3>3, <3>4 DEF Carries
    <3>6. Len(text) = emitted
      <4> DEFINE k == Len(text)
      <4>1. k \in Nat /\ k <= emitted /\ ~(emitted \in (k + 1)..emitted)
        BY <1>2, <3>5
      <4> HIDE DEF k
      <4>2. k = emitted
        BY <1>2, <4>1
      <4>3. QED
        BY <4>2 DEF k
    <3>7. \A id : ~Waits(Tail(inbox), id)
      BY <3>1 DEF Waits, Silent, OfTurn
    <3>8. QED
      BY <2>5, <3>2, <3>6, <3>7
  <2>7. QED
    BY <2>1, <2>3, <2>4, <2>5, <2>6 DEF Carries
<1>6. CASE ControlActions
  BY <1>1, <1>3, <1>4, <1>6, ControlStep DEF Control
<1>7. CASE PhaseSend \/ PhaseReceive \/ SendInterrupt \/ RunTool \/ SendAnswer
  <2>1. stage \notin Ending /\ outcome' \in {outcome, "server", "protocol"}
    BY <1>1, <1>7, PhaseSent, PhaseReceived, Interrupted, ToolRan, CallAnswered DEF Ending
  <2>2. QED
    BY <1>3, <1>4, <2>1
<1>8. ASSUME NEW m \in Messages, inbox' = Append(inbox, m)
      PROVE  \A id : Waits(inbox, id) => Waits(inbox', id)
  BY <1>2, <1>8, CallsPut
<1>9. CASE ServerHandles
  <2>1. /\ requests # << >>
        /\ UNCHANGED <<outcome, interrupted, text, emitted, answered, asked, strayed>>
        /\ turn' = turn \/ requests[1].kind = "turn/start" \/ turn = "running"
        /\ inbox' = inbox \/ \E m \in Messages : inbox' = Append(inbox, m)
    BY <1>1, <1>9, Handled
  <2>2. turn = "over" => requests[1].kind # "turn/start"
    <3>1. 1 \in 1..Len(requests)
      BY <1>1, <2>1, Taken DEF Typed
    <3>2. QED
      BY <1>1, <3>1 DEF Requested, Unwritten
  <2>3. QED
    BY <1>3, <1>4, <1>8, <2>1, <2>2
<1>10. CASE ServerSpeaks
  <2>1. /\ UNCHANGED <<outcome, turn, interrupted, text, answered>>
        /\ strayed => strayed'
    BY <1>1, <1>10, Spoke
  <2>2. PICK m \in Messages :
           /\ inbox' = Append(inbox, m)
           /\ \/ emitted' = emitted /\ asked' = asked
              \/ InTurn /\ emitted' = emitted + 1 /\ asked' = asked
              \/ InTurn /\ m.kind = "tool" /\ emitted' = emitted /\ asked' = asked \cup {m.id}
    BY <1>1, <1>10, Spoke
  <2>3. m.kind = "tool" => Waits(inbox', m.id)
    BY <1>2, <2>2, CallsPut
  <2>4. Len(text') <= emitted'
    BY <1>2, <1>3, <1>4, <2>1, <2>2
  <2>5. ~strayed => ~InTurn
    BY <1>3, <1>4, <2>1 DEF InTurn
  <2>6. QED
    BY <1>3, <1>4, <1>8, <2>1, <2>2, <2>3, <2>4, <2>5
<1>11. CASE ServerEndsTurn
  <2>1. /\ InTurn /\ turn' = "over" /\ \E m \in Messages : inbox' = Append(inbox, m)
        /\ UNCHANGED <<outcome, interrupted, text, emitted, answered, asked, strayed>>
    BY <1>1, <1>11, TurnEnded
  <2>2. QED
    BY <1>3, <1>4, <1>8, <2>1 DEF InTurn
<1>12. QED
  BY <1>5, <1>6, <1>7, <1>9, <1>10, <1>11, NextActions

-----------------------------------------------------------------------------
(* The theorems. *)

LEMMA InvInit == Init => Inv
<1> SUFFICES ASSUME Init PROVE Inv
  OBVIOUS
<1>1. NoCall \in Messages
  BY MessageType DEF NoCall, Kinds
<1>2. /\ << >> \in Seq(Messages) /\ << >> \in Seq(Nat) /\ Len(<< >>) = 0 /\ 1..0 = {}
      /\ 0 \in 0..MaxMessages /\ 0 \in 0..0
  BY TurnAssumption, EmptySeq
<1>3. Typed
  <2>1. [id \in ToolIds |-> 0] \in [ToolIds -> 0..1]
    OBVIOUS
  <2>2. ran \in [ToolIds -> 0..1] /\ answered \in [ToolIds -> 0..1] /\ asked \subseteq ToolIds
        /\ strayed \in BOOLEAN
    BY <2>1 DEF Init
  <2>3. /\ text \in Seq(Nat) /\ call \in Messages
        /\ requests \in Seq(Messages) /\ inbox \in Seq(Messages)
    BY <1>1, <1>2 DEF Init
  <2>4. spoken \in 0..MaxMessages /\ emitted \in 0..spoken /\ phase \in 1..4
    BY <1>2 DEF Init
  <2>5. /\ setup \in Setups /\ stage \in Stages /\ outcome \in Outcomes
        /\ process \in {"none", "alive", "gone", "reaped"}
        /\ cancelled \in BOOLEAN /\ interrupted \in BOOLEAN
        /\ turn \in {"none", "running", "interrupting", "over"}
    BY DEF Init, Stages, Early, Outcomes
  <2>6. QED
    BY <2>2, <2>3, <2>4, <2>5 DEF Typed
<1>4. Staged
  BY DEF Init, Staged, Early, Ending
<1>5. Requested
  BY <1>2 DEF Init, Requested, AtMostOne, Unwritten
<1>6. Spoken
  BY <1>2 DEF Init, Spoken, Silent, Concluded, LastWord
<1>7. Deltas
  <2>1. 1..Len(text) = {} /\ 1..Len(inbox) = {} /\ (Len(text) + 1)..emitted = {}
        /\ Len(text) <= emitted
    BY <1>2 DEF Init
  <2>2. QED
    BY <2>1 DEF Deltas, Counts, Carries
<1>8. Tools
  <2>1. 1..Len(inbox) = {} /\ asked = {} /\ stage \notin Handling
        /\ \A id \in ToolIds : ran[id] = 0 /\ answered[id] = 0
    BY <1>2 DEF Init, Handling
  <2>2. QED
    BY <2>1 DEF Tools, OncePerCall, CallsAreOf, Waits
<1>9. Whole
  BY DEF Init, Whole
<1>10. Strays
  BY <1>2 DEF Init, Strays, Astray
<1>11. QED
  BY <1>3, <1>4, <1>5, <1>6, <1>7, <1>8, <1>9, <1>10 DEF Inv

LEMMA InvNext == Inv /\ [Next]_vars => Inv'
<1> SUFFICES ASSUME Inv, [Next]_vars PROVE Inv'
  OBVIOUS
<1>1. Typed /\ Staged /\ Requested /\ Spoken /\ Deltas /\ Tools /\ Strays
  BY DEF Inv
<1>2. QED
  BY <1>1, TypedKept, StagedKept, RequestedKept, SpokenKept, DeltasKept, ToolsKept, StraysKept,
     WholeKept DEF Inv

\* Whatever the server says and whenever the caller cancels, the deltas and the
\* tool calls of the turn are accounted for: collected, on their way, handled or
\* answered (run_cancellable and collect_turn, codex/src/lib.rs and turn.rs).
THEOREM TurnStaysSound == Spec => []Inv
BY InvInit, InvNext, PTL DEF Spec

\* The state is well formed, and the server is told of a cancellation once and
\* only when the caller cancelled.
THEOREM TurnIsTyped == Spec => []TypeOK
<1>1. Inv => TypeOK
  <2> SUFFICES ASSUME Inv PROVE TypeOK
    OBVIOUS
  <2>1. Typed /\ (interrupted => cancelled) /\ AtMostOne(requests, "turn/interrupt")
    BY DEF Inv, Staged, Requested
  <2> DEFINE told == {i \in DOMAIN requests : requests[i].kind = "turn/interrupt"}
  <2>2. Cardinality(told) <= 1
    <3>1. DOMAIN requests = 1..Len(requests)
      BY <2>1, LenProperties DEF Typed
    <3>2. \A i, j \in told : i = j
      BY <2>1, <3>1 DEF AtMostOne
    <3>3. told = {} \/ \E i : told = {i}
      BY <3>2
    <3> HIDE DEF told
    <3>4. Cardinality(told) \in {0, 1}
      BY <3>3, FS_EmptySet, FS_Singleton
    <3>5. QED
      BY <3>4
  <2>3. phase \in DOMAIN Phases
    BY <2>1 DEF Typed, Phases
  <2>4. emitted \in 0..MaxMessages
    BY <2>1, TurnAssumption DEF Typed
  <2>5. stage \in {"open", "send", "await", "collect", "interrupt", "tool", "running", "answer",
                   "shutdown", "reap", "done"}
    BY <2>1 DEF Typed, Stages, Early, Handling, Ending
  <2>6. QED
    BY <2>1, <2>2, <2>3, <2>4, <2>5 DEF Typed, TypeOK
<1>2. QED
  BY <1>1, TurnStaysSound, PTL

\* The caller gets an answer only if it is the whole answer of its own turn, as far
\* as the filter of the ids tells (collect_turn, turn.rs:66-77): nothing of another
\* turn gets into it, and it stops short only if the server reported the end of
\* another turn of the thread.
THEOREM AnswersAreWholeTurns == Spec => []AnswerIsWholeTurn
<1>1. Inv => AnswerIsWholeTurn
  <2> SUFFICES ASSUME Inv PROVE AnswerIsWholeTurn
    OBVIOUS
  <2>1. Typed /\ Staged /\ Tools /\ Whole
    BY DEF Inv
  <2>2. ASSUME outcome = "ok"
        PROVE  text = [i \in 1..Len(text) |-> i]
    <3>1. text \in Seq(Nat) /\ \A i \in 1..Len(text) : text[i] = i
      BY <2>1, <2>2 DEF Typed, Whole, Counts
    <3>2. DOMAIN text = 1..Len(text) /\ text = [i \in DOMAIN text |-> text[i]]
      BY <3>1, LenProperties
    <3>3. QED
      BY <3>1, <3>2
  <2>3. ASSUME NEW id \in ToolIds
        PROVE  ran[id] <= 1 /\ answered[id] <= Cardinality(asked \cap {id})
    <3>1. ran[id] \in 0..1 /\ answered[id] \in 0..1
      BY <2>1 DEF Typed
    <3>2. answered[id] = 1 => asked \cap {id} = {id}
      BY <2>1 DEF Tools
    <3>3. asked \cap {id} = {} \/ asked \cap {id} = {id}
      OBVIOUS
    <3>4. Cardinality({id}) = 1 /\ Cardinality({}) = 0
      BY FS_EmptySet, FS_Singleton
    <3>5. Cardinality(asked \cap {id}) \in {0, 1}
          /\ (answered[id] = 1 => Cardinality(asked \cap {id}) = 1)
      BY <3>2, <3>3, <3>4
    <3>6. QED
      BY <3>1, <3>5
  <2>4. stage \in {"shutdown", "reap", "done"} => outcome # "none"
    BY <2>1 DEF Staged, Ending
  <2>5. \A id : Waits(inbox, id) => Unread(id)
    <3>1. DOMAIN inbox = 1..Len(inbox)
      BY <2>1, LenProperties DEF Typed
    <3>2. QED
      BY <3>1 DEF Waits, Unread
  <2>6. QED
    BY <2>1, <2>2, <2>3, <2>4, <2>5 DEF AnswerIsWholeTurn, Staged, Whole
<1>2. QED
  BY <1>1, TurnStaysSound, PTL
=============================================================================
