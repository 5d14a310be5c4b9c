------------------------------ MODULE CodexTurn ------------------------------
(***************************************************************************)
(* CodexRuntime::run_cancellable (crates/codex/src/lib.rs:202): one turn   *)
(* of a Codex App Server, a child process that speaks JSON-RPC over its    *)
(* standard streams.  The client opens the process, passes four phases     *)
(* under a 30 second timeout each, collects the turn, answering the tool   *)
(* calls of the server on the way, and reaps the process before it gives   *)
(* its result.  The caller may cancel at any time.  The server is external *)
(* and may reply, speak, fall silent, stop reading or exit as it likes,    *)
(* but its lines arrive in order, and it replies to turn/start before the  *)
(* turn speaks.                                                            *)
(***************************************************************************)
EXTENDS Naturals, Sequences, FiniteSets

CONSTANTS
    Setups,       \* requests: the tools they declare, the registered ones, and whether
                  \* the rest of them maps to the protocol without loss
    ToolIds,      \* ids the server gives its tool calls
    MaxMessages   \* what the server says of its own accord (a bound of the model)

\* An id of zero stands for none.
ASSUME TurnAssumption == ToolIds \subseteq Nat \ {0} /\ MaxMessages \in Nat

VARIABLES
    setup,        \* this request
    stage,        \* where the client is
    phase,        \* the protocol phase it is in
    cancelled,    \* the caller's CancellationToken
    interrupted,  \* turn/interrupt was sent
    text,         \* the deltas collected
    call,         \* the tool call being handled
    outcome,      \* what the turn came to; shown to the caller when "done"
    process,      \* the child process
    stuck,        \* it no longer reads its input
    requests,     \* its standard input
    inbox,        \* its standard output
    turn,         \* the server's turn
    emitted,      \* deltas the server sent for the turn
    spoken,       \* messages it sent of its own accord
    asked,        \* the ids of its tool calls (history)
    strayed,      \* it reported the end of another turn of the thread (history)
    ran,          \* tool calls of the server, by id: how often a tool was called for it,
    answered      \* and how often an answer was sent (history)

client == <<stage, phase, interrupted, text, call, outcome, ran, answered>>
server == <<turn, emitted, spoken, asked, strayed>>
vars == <<setup, client, cancelled, process, stuck, requests, inbox, server>>

Phases == <<"initialize", "initialized", "thread/start", "turn/start">>

\* The ids of the requests; 0 is a notification.
RequestId(method) ==
    CASE method = "initialize" -> 1
      [] method = "thread/start" -> 2
      [] method = "turn/start" -> 3
      [] method = "turn/interrupt" -> 4
      [] OTHER -> 0

Outcomes == {"none", "ok", "invalid", "cancelled", "timeout", "transport", "protocol",
             "server", "interrupted", "failed"}

\* "own" is whether the message is of this turn, and "named" whether the thread and
\* turn ids at the top level of its parameters tell whose it is.
Message(kind, id) ==
    [kind |-> kind, id |-> id, own |-> TRUE, named |-> TRUE, n |-> 0, tool |-> "none",
     valid |-> TRUE]

NoCall == Message("none", 0)

\* Of another turn; of another turn of the thread, and its ids do not tell: the end
\* of a turn has the turn's id inside the turn, under /turn/id, and only that of its
\* thread at the top; with arguments, or a payload, that cannot be used.
Foreign(m) == [m EXCEPT !.own = FALSE]
Stray(m) == [Foreign(m) EXCEPT !.named = FALSE]
Malformed(m) == [m EXCEPT !.valid = FALSE]

Init ==
    /\ setup \in Setups
    /\ stage = "open" /\ phase = 1 /\ cancelled = FALSE /\ interrupted = FALSE
    /\ text = << >> /\ call = NoCall /\ outcome = "none"
    /\ process = "none" /\ stuck = FALSE /\ requests = << >> /\ inbox = << >>
    /\ turn = "none" /\ emitted = 0 /\ spoken = 0 /\ asked = {}
    /\ strayed = FALSE
    /\ ran = [id \in ToolIds |-> 0] /\ answered = [id \in ToolIds |-> 0]

-----------------------------------------------------------------------------
(* The client up to the turn. *)

Names(tools) == {tools[i].name : i \in DOMAIN tools}

Distinct(tools) == Cardinality(Names(tools)) = Len(tools)

\* freeze_tools: the tools a request declares are exactly the registered ones,
\* once each and with the same definition.
Frozen(s) ==
    /\ Distinct(s.declared)
    /\ Distinct(s.registered)
    /\ {s.declared[i] : i \in DOMAIN s.declared} = {s.registered[i] : i \in DOMAIN s.registered}

\* An error, or the answer, of the turn: the session is shut down next.
Conclude(result) ==
    /\ stage' = "shutdown"
    /\ outcome' = result

Unchanged(server_side) ==
    UNCHANGED <<setup, cancelled, phase, interrupted, text, call, ran, answered, server_side>>

ChannelsAndServer == <<process, stuck, requests, inbox, server>>

Acceptable(s) == s.lossless /\ Frozen(s)

\* The request is refused before a process exists.
RejectRequest ==
    /\ stage = "open"
    /\ ~Acceptable(setup)
    /\ stage' = "done"
    /\ outcome' = "invalid"
    /\ Unchanged(ChannelsAndServer)

Open ==
    /\ stage = "open"
    /\ Acceptable(setup)
    /\ IF cancelled
       THEN stage' = "done" /\ outcome' = "cancelled" /\ UNCHANGED process
       ELSE \/ stage' = "send" /\ process' = "alive" /\ UNCHANGED outcome
            \/ stage' = "done" /\ outcome' \in {"transport", "timeout"} /\ UNCHANGED process
    /\ Unchanged(<<stuck, requests, inbox, server>>)

\* A line can be written while the server reads; it fails when the server is gone.
CanWrite == process = "alive" /\ ~stuck

Write(message) == requests' = Append(requests, message)

NextPhase ==
    IF phase = Len(Phases) THEN stage' = "collect" /\ UNCHANGED phase
                           ELSE stage' = "send" /\ phase' = phase + 1

PhaseSend ==
    /\ stage = "send"
    /\ ~cancelled
    /\ CanWrite
    /\ Write(Message(Phases[phase], RequestId(Phases[phase])))
    /\ IF RequestId(Phases[phase]) = 0 THEN NextPhase ELSE stage' = "await" /\ UNCHANGED phase
    /\ UNCHANGED <<setup, cancelled, interrupted, text, call, outcome, ran, answered,
                   process, stuck, inbox, server>>

\* request_response: notifications are passed over, and so is everything but the
\* awaited reply refused.
PhaseReceive ==
    /\ stage = "await"
    /\ ~cancelled
    /\ inbox # << >>
    /\ LET m     == Head(inbox)
           reply == m.id = RequestId(Phases[phase])
       IN  CASE m.kind # "garbage" /\ m.id = 0 -> UNCHANGED <<stage, phase, outcome>>
             [] reply /\ m.kind = "result" /\ m.valid -> NextPhase /\ UNCHANGED outcome
             [] reply /\ m.kind = "error" -> Conclude("server") /\ UNCHANGED phase
             [] OTHER -> Conclude("protocol") /\ UNCHANGED phase
    /\ inbox' = Tail(inbox)
    /\ UNCHANGED <<setup, cancelled, interrupted, text, call, ran, answered,
                   process, stuck, requests, server>>

\* The write fails, or the reader finds the end of the stream.
Broken ==
    /\ process = "gone"
    /\ \/ stage \in {"send", "interrupt", "answer"}
       \/ stage \in {"await", "collect"} /\ inbox = << >>
    /\ stage \in {"send", "await"} => ~cancelled
    /\ Conclude("transport")
    /\ Unchanged(ChannelsAndServer)

PhaseCancelled ==
    /\ stage \in {"send", "await"}
    /\ cancelled
    /\ Conclude("cancelled")
    /\ Unchanged(ChannelsAndServer)

PhaseTimesOut ==
    /\ stage \in {"send", "await"}
    /\ ~cancelled
    /\ Conclude("timeout")
    /\ Unchanged(ChannelsAndServer)

-----------------------------------------------------------------------------
(* Collecting the turn. *)

\* The head of the loop: the interrupt goes out before anything else is read.
LoopHead == IF cancelled /\ ~interrupted THEN "interrupt" ELSE "collect"

\* The select on the token, while nothing was received.
NoticeCancel ==
    /\ stage = "collect"
    /\ cancelled /\ ~interrupted
    /\ stage' = "interrupt"
    /\ UNCHANGED outcome
    /\ Unchanged(ChannelsAndServer)

\* Faulty variant: the loop forgets that it interrupted the turn.
SendInterruptAgain ==
    /\ stage = "interrupt"
    /\ CanWrite
    /\ Write(Message("turn/interrupt", RequestId("turn/interrupt")))
    /\ stage' = "collect"
    /\ UNCHANGED <<setup, cancelled, phase, interrupted, text, call, outcome, ran, answered,
                   process, stuck, inbox, server>>

SendInterrupt ==
    /\ stage = "interrupt"
    /\ CanWrite
    /\ Write(Message("turn/interrupt", RequestId("turn/interrupt")))
    /\ interrupted' = TRUE
    /\ stage' = "collect"
    /\ UNCHANGED <<setup, cancelled, phase, text, call, outcome, ran, answered,
                   process, stuck, inbox, server>>

\* Faulty variant: only the write of the interrupt has a timeout.
OnlySendTimesOut ==
    /\ stage = "interrupt"
    /\ Conclude("timeout")
    /\ Unchanged(ChannelsAndServer)

\* Five seconds for the write of the interrupt, and for each message after it.
InterruptTimesOut ==
    /\ stage = "interrupt" \/ (stage = "collect" /\ interrupted)
    /\ Conclude("timeout")
    /\ Unchanged(ChannelsAndServer)

\* The reply to the interrupt is known by its id alone.
IsInterruptReply(m) == interrupted /\ m.id = RequestId("turn/interrupt")

\* A message that leads to no reply: the loop goes on.
Ignore == stage' = LoopHead /\ UNCHANGED <<outcome, text, call>>

End(result) == Conclude(result) /\ UNCHANGED <<text, call>>

ReceiveInterruptReply(m) ==
    /\ IsInterruptReply(m)
    /\ IF m.kind = "error" THEN End("server") ELSE Ignore

\* respond_to_tool_request, to its first effect: a call of another turn is an error.
ReceiveToolCall(m) ==
    /\ m.id # 0 /\ ~IsInterruptReply(m)
    /\ IF m.kind = "tool" /\ m.own
       THEN stage' = "tool" /\ call' = m /\ UNCHANGED <<outcome, text>>
       ELSE End("protocol")

\* Faulty variant: notifications are not filtered by thread and turn.
ReceiveAnyNotification(m) ==
    /\ m.id = 0
    /\ \/ m.kind = "delta" /\ text' = Append(text, m.n) /\ stage' = LoopHead /\ UNCHANGED <<outcome, call>>
       \/ m.kind \notin {"delta", "completed", "interrupted", "failed"} /\ Ignore
       \/ m.kind = "completed" /\ End(IF interrupted THEN "protocol" ELSE "ok")
       \/ m.kind \in {"interrupted", "failed"} /\ End(m.kind)

\* A thread or turn id at the top level of the parameters is another one's: what
\* names neither passes.
Filtered(m) == m.named /\ ~m.own

ReceiveNotification(m) ==
    /\ m.id = 0
    /\ \/ Filtered(m) /\ Ignore
       \/ ~Filtered(m) /\ m.kind = "delta" /\ interrupted /\ Ignore
       \/ /\ ~Filtered(m) /\ m.kind = "delta" /\ ~interrupted
          /\ text' = Append(text, m.n)
          /\ stage' = LoopHead
          /\ UNCHANGED <<outcome, call>>
       \/ ~Filtered(m) /\ m.kind = "notice" /\ Ignore
       \/ ~Filtered(m) /\ m.kind = "completed" /\ End(IF interrupted THEN "protocol" ELSE "ok")
       \/ ~Filtered(m) /\ m.kind \in {"interrupted", "failed"} /\ End(m.kind)

Receive ==
    /\ stage = "collect"
    /\ inbox # << >>
    /\ LET m == Head(inbox)
       IN  IF m.kind = "garbage" THEN End("protocol")
           ELSE ReceiveInterruptReply(m) \/ ReceiveToolCall(m) \/ ReceiveNotification(m)
    /\ inbox' = Tail(inbox)
    /\ UNCHANGED <<setup, cancelled, phase, interrupted, ran, answered,
                   process, stuck, requests, server>>

Runs(c) == c.valid /\ c.tool \in Names(setup.registered)

\* The tool's call is entered whether the turn was cancelled or not; it is the
\* future the call returns that the token comes before.
RunTool ==
    /\ stage = "tool"
    /\ \/ Runs(call) /\ stage' = "running" /\ ran' = [ran EXCEPT ![call.id] = @ + 1]
       \/ ~Runs(call) /\ stage' = "answer" /\ UNCHANGED ran
    /\ UNCHANGED <<setup, cancelled, phase, interrupted, text, call, outcome, answered,
                   ChannelsAndServer>>

\* The call panics, or the future gives an output, an error or a panic; the token
\* comes first, and the future is dropped, polled before or never.
ToolEnds ==
    /\ stage = "running"
    /\ stage' = "answer"
    /\ UNCHANGED outcome
    /\ Unchanged(ChannelsAndServer)

\* The answer goes to the server, for as long as the write takes.
SendAnswer ==
    /\ stage = "answer"
    /\ CanWrite
    /\ Write(Message("answer", call.id))
    /\ answered' = [answered EXCEPT ![call.id] = @ + 1]
    /\ call' = NoCall
    /\ stage' = LoopHead
    /\ UNCHANGED <<setup, cancelled, phase, interrupted, text, outcome, ran,
                   process, stuck, inbox, server>>

-----------------------------------------------------------------------------
(* The end of the session. *)

\* The input is closed and the process waited for, two seconds, and then killed.
Shutdown ==
    /\ stage = "shutdown"
    /\ IF process = "gone" THEN process' = "reaped" /\ stage' = "done"
                           ELSE stage' = "reap" /\ UNCHANGED process
    /\ UNCHANGED outcome
    /\ Unchanged(<<stuck, requests, inbox, server>>)

Reap ==
    /\ stage = "reap"
    /\ process' = "reaped"
    /\ stage' = "done"
    /\ UNCHANGED outcome
    /\ Unchanged(<<stuck, requests, inbox, server>>)

\* The wait or the kill fails: an answer is lost, an error stands.  Dropping the
\* session asks for the kill once more.
ReapFails ==
    /\ stage \in {"shutdown", "reap"}
    /\ process' = "gone"
    /\ stage' = "done"
    /\ outcome' = IF outcome = "ok" THEN "transport" ELSE outcome
    /\ Unchanged(<<stuck, requests, inbox, server>>)

-----------------------------------------------------------------------------
(* The caller and the server. *)

Cancel ==
    /\ stage # "done" /\ ~cancelled
    /\ cancelled' = TRUE
    /\ UNCHANGED <<setup, client, ChannelsAndServer>>

Say(message) == inbox' = Append(inbox, message)

ServerHandles ==
    /\ CanWrite
    /\ requests # << >>
    /\ requests' = Tail(requests)
    /\ LET m == Head(requests)
       IN  \/ /\ m.kind \in {"initialize", "thread/start", "turn/start", "turn/interrupt"}
              /\ \/ Say(Message("error", m.id)) /\ UNCHANGED turn
                 \/ /\ \/ Say(Message("result", m.id))
                       \/ Say(Malformed(Message("result", m.id)))
                    /\ turn' = CASE m.kind = "turn/start" -> "running"
                                 [] m.kind = "turn/interrupt" /\ turn = "running" -> "interrupting"
                                 [] OTHER -> turn
           \/ m.kind \in {"initialized", "answer"} /\ UNCHANGED <<inbox, turn>>
    /\ UNCHANGED <<setup, client, cancelled, process, stuck, emitted, spoken, asked, strayed>>

InTurn == turn \in {"running", "interrupting"}

ToolCall(name, id) == [Message("tool", id) EXCEPT !.tool = name]

\* A call of a registered tool, with its arguments in order or not, of a tool
\* that is not registered, and one that names another turn.
ToolCalls(id) ==
    {ToolCall("unknown", id)}
    \cup UNION {{ToolCall(name, id), Malformed(ToolCall(name, id)), Foreign(ToolCall(name, id))} :
                    name \in Names(setup.registered)}

\* A line outside the protocol; a notification of the turn or of another one, with
\* its ids at the top level; the end of another turn of the thread; a tool call,
\* under an id of the server's own.
Speeches ==
    {Message("garbage", 0), Message("notice", 0), Foreign(Message("completed", 0)),
     Foreign(Message("delta", 0))}
    \cup (IF ~InTurn THEN {}
          ELSE {[Message("delta", 0) EXCEPT !.n = emitted + 1]}
               \cup {Stray(Message(status, 0)) : status \in {"completed", "failed", "interrupted"}}
               \cup UNION {ToolCalls(id) : id \in ToolIds})

ServerSpeaks ==
    /\ process = "alive"
    /\ spoken < MaxMessages
    /\ \E m \in Speeches :
          /\ m.kind = "tool" => m.id \notin asked
          /\ asked' = IF m.kind = "tool" THEN asked \cup {m.id} ELSE asked
          /\ Say(m)
          /\ emitted' = emitted + (IF m.kind = "delta" /\ m.own THEN 1 ELSE 0)
          /\ strayed' = (strayed \/ ~m.named)
    /\ spoken' = spoken + 1
    /\ UNCHANGED <<setup, client, cancelled, process, stuck, requests, turn>>

ServerEndsTurn ==
    /\ process = "alive"
    /\ InTurn
    /\ \E status \in {"completed", "failed"} \cup (IF turn = "interrupting" THEN {"interrupted"} ELSE {}) :
          Say(Message(status, 0))
    /\ turn' = "over"
    /\ UNCHANGED <<setup, client, cancelled, process, stuck, requests, emitted, spoken, asked,
                   strayed>>

ServerStopsReading ==
    /\ process = "alive" /\ ~stuck
    /\ stuck' = TRUE
    /\ UNCHANGED <<setup, client, cancelled, process, requests, inbox, server>>

ServerExits ==
    /\ process = "alive"
    /\ process' = "gone"
    /\ UNCHANGED <<setup, client, cancelled, stuck, requests, inbox, server>>

-----------------------------------------------------------------------------
ClientNext ==
    \/ RejectRequest \/ Open \/ PhaseSend \/ PhaseReceive \/ PhaseCancelled \/ PhaseTimesOut
    \/ Broken \/ NoticeCancel \/ SendInterrupt \/ InterruptTimesOut \/ Receive
    \/ RunTool \/ ToolEnds \/ SendAnswer \/ Shutdown \/ Reap \/ ReapFails

ServerNext == ServerHandles \/ ServerSpeaks \/ ServerEndsTurn \/ ServerStopsReading \/ ServerExits

Finished == stage = "done" /\ UNCHANGED vars

Next == ClientNext \/ (stage # "done" /\ ServerNext) \/ Cancel \/ Finished

Spec == Init /\ [][Next]_vars

\* The client's task is scheduled and its timers fire; a tool need not end; the
\* server and the caller owe nothing.
LiveSpec ==
    /\ Spec
    /\ WF_vars(ClientNext /\ stage # "running")
    /\ WF_vars(stage = "running" /\ cancelled /\ ToolEnds)

-----------------------------------------------------------------------------
\* The state is well formed; the turn is interrupted only for the caller, and
\* the server is told once.
TypeOK ==
    /\ setup \in Setups
    /\ stage \in {"open", "send", "await", "collect", "interrupt", "tool", "running", "answer",
                  "shutdown", "reap", "done"}
    /\ phase \in DOMAIN Phases
    /\ outcome \in Outcomes
    /\ process \in {"none", "alive", "gone", "reaped"}
    /\ interrupted => cancelled
    /\ Cardinality({i \in DOMAIN requests : requests[i].kind = "turn/interrupt"}) <= 1
    /\ turn \in {"none", "running", "interrupting", "over"}
    /\ emitted \in 0..MaxMessages
    /\ asked \subseteq ToolIds /\ strayed \in BOOLEAN
    /\ ran \in [ToolIds -> 0..1]

Unread(id) == \E i \in DOMAIN inbox : inbox[i].kind = "tool" /\ inbox[i].id = id

\* The caller gets an answer only if it is the whole answer of its own turn: the
\* server completed it without an interrupt, the text is every delta of the turn
\* in order and of no other one, each tool call of it was answered, once, a tool
\* was called at most once for it, and the process is reaped ("uses its returned
\* thread and turn ids to filter notifications", conformance.md:16).  The filter
\* does not look at the id of a turn that ended (turn.rs:66-77): when the server
\* reported the end of another turn of the thread, the text may stop short, never
\* mix, and a tool call still unread may stay without its answer.
AnswerIsWholeTurn ==
    /\ outcome = "ok" =>
          /\ ~interrupted
          /\ Len(text) <= emitted /\ text = [i \in 1..Len(text) |-> i]
          /\ \A id \in asked : answered[id] = 1 \/ Unread(id)
          /\ ~strayed => /\ turn = "over" /\ Len(text) = emitted
                         /\ \A id \in asked : answered[id] = 1
          /\ stage = "done" => process = "reaped"
    /\ \A id \in ToolIds : ran[id] <= 1 /\ answered[id] <= Cardinality(asked \cap {id})
    /\ stage \in {"shutdown", "reap", "done"} => outcome # "none"

\* A cancelled turn ends, whatever the server does, but for one place: the write
\* of a tool's answer has no timeout (turn.rs:169), and a server that has stopped
\* reading holds it there.
CancelEnds == cancelled ~> (stage = "done" \/ (stage = "answer" /\ stuck))
=============================================================================
