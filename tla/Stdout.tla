-------------------------------- MODULE Stdout --------------------------------
(***************************************************************************)
(* The probe's standard output, as its threads share it. A statement on    *)
(* std::cout is several insertions; each insertion is atomic and goes to   *)
(* the one stdio buffer, a flush makes the buffer visible in the pipe.     *)
(* The data plane thread takes cout_mtx around a notification; its log     *)
(* lines, the tools' log lines and the responses of StdioTransport do not. *)
(* At the other end the Python pump reads the pipe line by line, keeps a   *)
(* line only if it parses as JSON, and runs an alert's callback before it  *)
(* reads on; an exception of the callback, or the end of the agent, is the *)
(* end of the pump.                                                        *)
(***************************************************************************)
EXTENDS Integers, Sequences, FiniteSets

CONSTANTS
    Reactors,      \* the reactor threads, one per shard
    ReactorKinds,  \* the statements a reactor executes: "log", "response"
    BUFFER,        \* insertions the stdio buffer holds before it is written out
    MaxStatements  \* bound: statements begun, over all threads

DataPlaneThread == "data_plane"
Nobody == "nobody"

ASSUME StdoutAssumption ==
    /\ DataPlaneThread \notin Reactors /\ Nobody \notin Reactors
    /\ ReactorKinds \subseteq {"log", "response"}
    /\ BUFFER \in Nat \ {0}
    /\ MaxStatements \in Nat

Threads == Reactors \cup {DataPlaneThread}

\* An insertion of message m: some of its text, a newline, or text that ends
\* in a newline.
Text(m)     == [op |-> "put", msg |-> m, text |-> TRUE,  end |-> FALSE]
Newline(m)  == [op |-> "put", msg |-> m, text |-> FALSE, end |-> TRUE]
TextLine(m) == [op |-> "put", msg |-> m, text |-> TRUE,  end |-> TRUE]
Op(name, m) == [op |-> name,  msg |-> m, text |-> FALSE, end |-> FALSE]

\* Seeded faults for WriteMcpMessage: the flush is forgotten; it comes after
\* the unlock; the newline is forgotten.
WriteMcpMessageNoFlush(m) == <<Op("lock", m), Text(m), Newline(m), Op("unlock", m)>>
WriteMcpMessageLateFlush(m) ==
    <<Op("lock", m), Text(m), Newline(m), Op("unlock", m), Op("flush", m)>>
WriteMcpMessageNoNewline(m) == <<Op("lock", m), Text(m), Op("flush", m), Op("unlock", m)>>

\* write_mcp_message: the only statement that takes cout_mtx.
WriteMcpMessage(m) == <<Op("lock", m), Text(m), Newline(m), Op("flush", m), Op("unlock", m)>>

\* StdioTransport: *result << "\n", flush.
Response(m) == <<Text(m), Newline(m), Op("flush", m)>>

\* SecTools: "[SecTools] Blocking IP: " << ip << "\n".
ToolLog(m) == <<Text(m), Text(m), Newline(m)>>

\* ONNXEngine: "[ONNXEngine] Heuristic hit: '" << sig << "'\n".
HitLog(m) == <<Text(m), Text(m), TextLine(m)>>

VARIABLES
    todo,     \* per thread, what is left of the statement it executes
    cout_mtx, \* the holder of the mutex
    stream,   \* everything inserted into std::cout, oldest first
    flushed,  \* how much of it is in the pipe
    read,     \* how much of it the pump has read
    pump,     \* the pump thread: "reading", in the "callback" of an alert, "dead"
    received, \* the messages the pump parsed, oldest first
    begun,    \* history: the messages begun, oldest first
    overlap   \* history: ids of messages written while another thread was in a statement

vars == <<todo, cout_mtx, stream, flushed, read, pump, received, begun, overlap>>

Init ==
    /\ todo = [t \in Threads |-> <<>>]
    /\ cout_mtx = Nobody
    /\ stream = <<>> /\ flushed = 0 /\ read = 0
    /\ pump = "reading" /\ received = <<>>
    /\ begun = <<>> /\ overlap = {}

Busy(t) == todo[t] # <<>>

NextMessage(t, kind) == [id |-> Len(begun) + 1, kind |-> kind, by |-> t]

\* A thread starts on the statements ops of message m; the others in the middle
\* of a statement overlap with it.
Begin(m, ops) ==
    LET others == {u \in Threads \ {m.by} : Busy(u)}
    IN  /\ ~ Busy(m.by)
        /\ Len(begun) < MaxStatements
        /\ todo' = [todo EXCEPT ![m.by] = ops]
        /\ begun' = Append(begun, m)
        /\ overlap' = overlap \cup (IF others = {} THEN {} ELSE {m.id})
                              \cup {todo[u][1].msg.id : u \in others}
        /\ UNCHANGED <<cout_mtx, stream, flushed, read, pump, received>>

\* The callback of the data plane: the notification, preceded by the log line
\* of the heuristic if that is what raised it.
Notify ==
    LET m == NextMessage(DataPlaneThread, "notification")
    IN  \/ Begin(m, WriteMcpMessage(m))
        \/ Begin(m, HitLog([m EXCEPT !.kind = "log"]) \o WriteMcpMessage(m))

ReactorLog(t) ==
    LET m == NextMessage(t, "log")
    IN  "log" \in ReactorKinds /\ Begin(m, ToolLog(m))

ReactorRespond(t) ==
    LET m == NextMessage(t, "response")
    IN  "response" \in ReactorKinds /\ Begin(m, Response(m))

Do(t, name) == Busy(t) /\ todo[t][1].op = name /\ todo' = [todo EXCEPT ![t] = Tail(@)]

Lock(t) ==
    /\ Do(t, "lock") /\ cout_mtx = Nobody
    /\ cout_mtx' = t
    /\ UNCHANGED <<stream, flushed, read, pump, received, begun, overlap>>

Unlock(t) ==
    /\ Do(t, "unlock")
    /\ cout_mtx' = Nobody
    /\ UNCHANGED <<stream, flushed, read, pump, received, begun, overlap>>

\* One insertion; a full stdio buffer is written out first.
Put(t) ==
    /\ Do(t, "put")
    /\ stream' = Append(stream, todo[t][1])
    /\ flushed' = IF Len(stream) - flushed >= BUFFER THEN Len(stream) ELSE flushed
    /\ UNCHANGED <<cout_mtx, read, pump, received, begun, overlap>>

Flush(t) ==
    /\ Do(t, "flush")
    /\ flushed' = Len(stream)
    /\ UNCHANGED <<cout_mtx, stream, read, pump, received, begun, overlap>>

\* The next line in the pipe, and the messages whose text it holds.
LineEnds == {i \in (read + 1)..flushed : stream[i].end}
LineEnd == CHOOSE i \in LineEnds : \A j \in LineEnds : i <= j
LineText(to) == {i \in (read + 1)..to : stream[i].text}

\* json.loads: a line parses if it is the text of one JSON message and nothing
\* else, whoever wrote the newline.
ParsedLine(to) ==
    IF Cardinality(LineText(to)) = 1
    THEN {stream[i].msg : i \in {j \in LineText(to) : stream[j].msg.kind # "log"}}
    ELSE {}

\* Seeded fault for AfterMessage: the method is not looked at.
AfterMessageAny(m) == {"reading", "callback"}

\* What the pump does after a message: an alert has a callback, once one is
\* installed; AlertDedup may refuse it.
AfterMessage(m) == {"reading"} \cup (IF m.kind = "notification" THEN {"callback"} ELSE {})

\* Seeded fault for ReadLine: a line that parsed is not consumed.
ReadLineAgain ==
    /\ pump = "reading" /\ LineEnds # {}
    /\ \/ \E m \in ParsedLine(LineEnd) :
             received' = Append(received, m) /\ pump' \in AfterMessage(m) /\ UNCHANGED read
       \/ ParsedLine(LineEnd) = {} /\ UNCHANGED <<received, pump>> /\ read' = LineEnd
    /\ UNCHANGED <<todo, cout_mtx, stream, flushed, begun, overlap>>

\* _message_pump reads a line, and drops it if it does not parse.
ReadLine ==
    /\ pump = "reading" /\ LineEnds # {}
    /\ \/ \E m \in ParsedLine(LineEnd) :
             received' = Append(received, m) /\ pump' \in AfterMessage(m)
       \/ ParsedLine(LineEnd) = {} /\ UNCHANGED <<received, pump>>
    /\ read' = LineEnd
    /\ UNCHANGED <<todo, cout_mtx, stream, flushed, begun, overlap>>

\* alert_callback returns, or raises what only a JSONDecodeError would survive.
CallbackEnds ==
    /\ pump = "callback"
    /\ pump' \in {"reading", "dead"}
    /\ UNCHANGED <<todo, cout_mtx, stream, flushed, read, received, begun, overlap>>

\* The main thread ends, after its first closed case or its timeout, and the
\* pump, a daemon thread, with it.
AgentExits ==
    /\ pump # "dead"
    /\ pump' = "dead"
    /\ UNCHANGED <<todo, cout_mtx, stream, flushed, read, received, begun, overlap>>

Step(t) == Lock(t) \/ Unlock(t) \/ Put(t) \/ Flush(t)

Next ==
    \/ Notify
    \/ \E t \in Reactors : ReactorLog(t) \/ ReactorRespond(t)
    \/ \E t \in Threads : Step(t)
    \/ ReadLine \/ CallbackEnds \/ AgentExits

\* A started statement is executed to its end; a pump that reads gets the next
\* line; a callback ends, as its calls have timeouts. Nothing forces a thread to
\* begin a statement, or the agent to stay.
Fairness ==
    /\ WF_vars(ReadLine) /\ WF_vars(CallbackEnds)
    /\ \A t \in Threads : WF_vars(Step(t))

Spec == Init /\ [][Next]_vars /\ Fairness
-----------------------------------------------------------------------------
Notifications == {begun[i] : i \in {j \in DOMAIN begun : begun[j].kind = "notification"}}
Received == {received[i] : i \in DOMAIN received}
ReadPast(m) == \E i \in DOMAIN stream : stream[i].msg = m /\ stream[i].end /\ i <= read
Positions(m) == {i \in DOMAIN stream : stream[i].msg = m}

\* The type invariant: what is read was flushed, what was flushed was written,
\* and a callback is that of the alert read last.
TypeOK ==
    /\ \A t \in Threads : \A i \in DOMAIN todo[t] :
          todo[t][i].op \in {"lock", "put", "flush", "unlock"}
    /\ cout_mtx \in Threads \cup {Nobody}
    /\ 0 <= read /\ read <= flushed /\ flushed <= Len(stream)
    /\ \A i \in DOMAIN stream : stream[i].op = "put"
    /\ pump \in {"reading", "callback", "dead"}
    /\ pump = "callback" =>
          received # <<>> /\ received[Len(received)].kind = "notification"

\* A notification the pump has read past was parsed, unless another thread was
\* in a statement of its own while it was written: only a crossing loses an
\* alert, never the sequence of statements of one thread.
LostOnlyByCrossing ==
    \A m \in {n \in Notifications : n.id \notin overlap} :
        (Positions(m) # {} /\ \A i \in Positions(m) : i <= read /\ ~ Busy(DataPlaneThread))
            => m \in Received

\* When the mutex is free, every notification a thread is done with is in the
\* pipe: an alert never waits in the stdio buffer for later output.
DoneIsVisible ==
    cout_mtx = Nobody =>
        \A m \in Notifications :
            (\A t \in Threads : \A i \in DOMAIN todo[t] :
                 todo[t][i].op = "put" => todo[t][i].msg # m)
                => \A i \in Positions(m) : i <= flushed

\* The pump gets each alert at most once and in the order they were raised,
\* whatever else is printed in between.
ReceivedInOrder ==
    \A i, j \in DOMAIN received :
        (i < j /\ received[i].by = received[j].by) => received[i].id < received[j].id

\* A pump that lives catches up: every notification the data plane begins is
\* read, parsed or lost to a crossing, although the pump reads nothing during an
\* investigation; only an exception in a callback and the end of the agent leave
\* an alert unread.
EventuallyRead ==
    \A n \in 1..MaxStatements :
        (\E m \in Notifications : m.id = n) ~>
            (pump = "dead" \/ \E m \in Notifications : m.id = n /\ ReadPast(m))

\* What main.cpp:24 says of the mutex: it keeps notifications and the output of
\* StdioTransport from crossing, so every notification read is parsed.
NotificationsIntact ==
    \A m \in Notifications :
        ReadPast(m) => m \in Received
=============================================================================
