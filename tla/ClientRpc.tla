------------------------------- MODULE ClientRpc -------------------------------
(***************************************************************************)
(* The requests the MCP server sends to its clients (sampling and          *)
(* elicitation): a request goes out on the session's stream with a number  *)
(* of the shard it was made on; the client posts its answer, on whatever   *)
(* shard accepts that connection, and the shard looks the number up among  *)
(* its own pending requests.                                               *)
(***************************************************************************)
EXTENDS SseQueue, FiniteSets

CONSTANTS
    Shards,      \* the cores
    Sessions,    \* the SSE sessions, with a stream that runs at the start
    Owner,       \* the shard of each session (it is part of the session's id)
    MaxCalls,    \* bound: requests sent to clients
    MaxAnswers   \* bound: answers posted

ASSUME ClientRpcAssumption ==
    /\ Owner \in [Sessions -> Shards]
    /\ MaxCalls \in Nat /\ MaxAnswers \in Nat

VARIABLES
    counter,   \* _server_request_counter of each shard
    pending,   \* the numbers in _pending_client_requests of each shard
    calls,     \* the calls of send_request_to_client made so far
    queue,     \* the queue of each session
    open,      \* the sessions in the table: clients know only sessions whose stream
               \* has begun, and its end takes the session out of the table
    clients,   \* the sessions whose client still reads
    errors,    \* the "Invalid Request" answers on their way to another core
    server,    \* "up", "closing" (transports stop), "stopped"
    \* history
    heard,     \* the requests the clients have read
    posted,    \* the answers posted: to which call, on which shard
    answers    \* how many were posted

vars == <<counter, pending, calls, queue, open, clients, errors, server, heard, posted, answers>>

\* A queued message is the request of call n, or (n = 0) an error answer.
InvalidRequest == 0

\* by: what its promise was set to: an answer posted, or the end of the server.
ServerStopped == [call |-> 0, at |-> 0]

Init ==
    /\ counter = [s \in Shards |-> 0] /\ pending = [s \in Shards |-> {}]
    /\ calls = <<>>
    /\ queue = [id \in Sessions |-> EmptyQueue]
    /\ open = Sessions /\ clients = Sessions
    /\ errors = [id \in Sessions |-> 0]
    /\ server = "up" /\ heard = {}
    /\ posted = {} /\ answers = 0
-----------------------------------------------------------------------------
\* The calls whose push is the one waiting in q: it fails when it is replaced
\* or its queue goes away, and with it the call.
WaitingIn(q) == {n \in DOMAIN calls : \E i \in DOMAIN q.waiting : q.waiting[i] = n}

\* The calls cs after the pushes of the calls ns have failed.
PushFailed(cs, ns) ==
    [n \in DOMAIN cs |-> IF n \in ns THEN [cs[n] EXCEPT !.state = "failed"] ELSE cs[n]]

\* The calls cs after the promises of the calls ns were set to x.
PromiseSet(cs, ns, x) ==
    [n \in DOMAIN cs |->
        IF n \notin ns THEN cs[n]
        ELSE [cs[n] EXCEPT !.by = Append(@, x),
                           !.state = IF @ = "waiting" THEN "returned" ELSE @]]

\* push_to_session on the session's shard: message m, on top of the calls cs.
PushTo(id, m, cs) ==
    IF id \notin open THEN UNCHANGED queue /\ calls' = cs
    ELSE /\ queue' = [queue EXCEPT ![id] = PushEventually(@, m)]
         /\ calls' = IF Full(queue[id]) THEN PushFailed(cs, WaitingIn(queue[id])) ELSE cs

\* Seeded fault for NewId: the counter is not advanced.
NewIdSame(s) == counter[s]

\* The number of a new request of shard s.
NewId(s) == counter[s] + 1

\* send_request_to_client on the session's own shard; held: a request handler
\* awaits the answer.
SendRequest(id, held) ==
    LET s == Owner[id]
        n == Len(calls) + 1
        pushing == id \in open /\ Full(queue[id])
    IN  /\ server = "up" /\ Len(calls) < MaxCalls
        /\ counter' = [counter EXCEPT ![s] = NewId(s)]
        /\ pending' = [pending EXCEPT ![s] = @ \cup {NewId(s)}]
        /\ PushTo(id, n, Append(calls, [session |-> id, id |-> NewId(s), held |-> held, by |-> <<>>,
                                        state |-> IF pushing THEN "pushing" ELSE "waiting"]))
        /\ UNCHANGED <<open, clients, errors, server, heard, posted, answers>>

\* The continuation of a granted push, which also runs when the stream has ended
\* meanwhile; the call goes on to wait for its promise.
Refill(id) ==
    LET n == Head(queue[id].granted)
    IN  /\ queue[id].granted # <<>>
        /\ queue' = [queue EXCEPT ![id] = Refilled(@)]
        /\ calls' = IF n = InvalidRequest THEN calls
                    ELSE [calls EXCEPT ![n].state = IF calls[n].by = <<>> THEN "waiting" ELSE "returned"]
        /\ UNCHANGED <<counter, pending, open, clients, errors, server, heard, posted, answers>>
-----------------------------------------------------------------------------
(* The stream of a session and its client.                                 *)

Deliver(id) ==
    /\ id \in open \cap clients /\ queue[id].messages # <<>>
    /\ heard' = heard \cup ({Head(queue[id].messages)} \ {InvalidRequest})
    /\ queue' = [queue EXCEPT ![id] = Pop(@)]
    /\ UNCHANGED <<counter, pending, calls, open, clients, errors, server, posted, answers>>

\* A message is popped and its write to a client that is gone ends the stream.
\* The queue goes with it: a push that still waits fails, one that was granted
\* has yet to run its continuation.
WriteFails(id) ==
    LET left == Pop(queue[id])
    IN  /\ id \in open \ clients /\ queue[id].messages # <<>>
        /\ open' = open \ {id}
        /\ calls' = PushFailed(calls, WaitingIn(left))
        /\ queue' = [queue EXCEPT ![id] = [EmptyQueue EXCEPT !.granted = left.granted]]
        /\ UNCHANGED <<counter, pending, clients, errors, server, heard, posted, answers>>

Leave(id) ==
    /\ id \in clients
    /\ clients' = clients \ {id}
    /\ UNCHANGED <<counter, pending, calls, queue, open, errors, server, heard, posted, answers>>

\* The calls of shard s whose request has the number i.
Numbered(s, i) == {m \in DOMAIN calls : Owner[calls[m].session] = s /\ calls[m].id = i}

\* Seeded fault for HandleClientResponse: the entry is not erased.
HandleClientResponseKept(n, s) ==
    /\ calls[n].id \in pending[s]
    /\ calls' = PromiseSet(calls, Numbered(s, calls[n].id), [call |-> n, at |-> s])
    /\ UNCHANGED <<pending, queue, errors>>

\* Seeded fault for HandleClientResponse: the branch of an error answer erases
\* the entry without setting its promise.
HandleClientResponseDrops(n, s) ==
    /\ calls[n].id \in pending[s]
    /\ pending' = [pending EXCEPT ![s] = @ \ {calls[n].id}]
    /\ UNCHANGED <<calls, queue, errors>>

\* handle_client_response on shard s of an answer to call n: whichever call
\* of that shard has this number gets it.
HandleClientResponse(n, s) ==
    /\ calls[n].id \in pending[s]
    /\ calls' = PromiseSet(calls, Numbered(s, calls[n].id), [call |-> n, at |-> s])
    /\ pending' = [pending EXCEPT ![s] = @ \ {calls[n].id}]
    /\ UNCHANGED <<queue, errors>>

\* Not a pending number: the dispatcher takes the message for a request
\* without a method, and its error answer is pushed to the session.
NotPending(n, s) ==
    LET id == calls[n].session
    IN  /\ calls[n].id \notin pending[s]
        /\ IF Owner[id] = s THEN PushTo(id, InvalidRequest, calls) /\ UNCHANGED errors
           ELSE errors' = [errors EXCEPT ![id] = @ + 1] /\ UNCHANGED <<queue, calls>>
        /\ UNCHANGED pending

\* A client posts its answer to a request it has read (again, if it retries)
\* over a connection that shard s accepted.
PostAnswer(n, s) ==
    /\ server = "up" /\ answers < MaxAnswers
    /\ n \in heard /\ calls[n].session \in clients
    /\ answers' = answers + 1
    /\ posted' = posted \cup {[call |-> n, at |-> s]}
    /\ HandleClientResponse(n, s) \/ NotPending(n, s)
    /\ UNCHANGED <<counter, open, clients, server, heard>>

\* An error answer arrives at its session's core.
ErrorArrives(id) ==
    /\ errors[id] > 0
    /\ errors' = [errors EXCEPT ![id] = @ - 1]
    /\ PushTo(id, InvalidRequest, calls)
    /\ UNCHANGED <<counter, pending, open, clients, server, heard, posted, answers>>
-----------------------------------------------------------------------------
(* McpServer::stop: the transports wait for their streams and handlers.    *)

StopTransports ==
    /\ server = "up"
    /\ server' = "closing" /\ clients' = {}
    /\ UNCHANGED <<counter, pending, calls, queue, open, errors, heard, posted, answers>>

Pending(n) == calls[n].id \in pending[Owner[calls[n].session]]

\* Seeded fault for StopShards: the pending requests are forgotten.
StopShardsForgets ==
    /\ server = "closing" /\ open = {}
    /\ \A n \in DOMAIN calls : calls[n].held => calls[n].state \in {"returned", "failed"}
    /\ server' = "stopped"
    /\ pending' = [s \in Shards |-> {}]
    /\ UNCHANGED <<counter, calls, queue, open, clients, errors, heard, posted, answers>>

StopShards ==
    /\ server = "closing" /\ open = {}
    /\ \A n \in DOMAIN calls : calls[n].held => calls[n].state \in {"returned", "failed"}
    /\ server' = "stopped"
    /\ calls' = PromiseSet(calls, {n \in DOMAIN calls : Pending(n)}, ServerStopped)
    /\ pending' = [s \in Shards |-> {}]
    /\ UNCHANGED <<counter, queue, open, clients, errors, heard, posted, answers>>

Next ==
    \/ \E id \in Sessions, held \in BOOLEAN : SendRequest(id, held)
    \/ \E id \in Sessions :
          Refill(id) \/ Deliver(id) \/ WriteFails(id) \/ Leave(id) \/ ErrorArrives(id)
    \/ \E n \in heard, s \in Shards : PostAnswer(n, s)
    \/ StopTransports \/ StopShards

\* The reactor runs every ready task; clients owe nothing.
Fairness ==
    \A id \in Sessions :
        /\ WF_vars(Refill(id)) /\ WF_vars(Deliver(id))
        /\ WF_vars(WriteFails(id)) /\ WF_vars(ErrorArrives(id))

Spec == Init /\ [][Next]_vars /\ Fairness
-----------------------------------------------------------------------------
\* The type invariant: a number is pending only if it was given out.
TypeOK ==
    /\ counter \in [Shards -> 0..MaxCalls]
    /\ \A s \in Shards : pending[s] \subseteq 1..counter[s]
    /\ \A n \in DOMAIN calls :
          /\ calls[n].session \in Sessions /\ calls[n].held \in BOOLEAN
          /\ calls[n].id \in 1..counter[Owner[calls[n].session]]
          /\ calls[n].state \in {"pushing", "waiting", "returned", "failed"}
    /\ \A id \in Sessions : Len(queue[id].waiting) <= 1
    /\ open \subseteq Sessions /\ clients \subseteq Sessions
    /\ errors \in [Sessions -> 0..MaxAnswers]
    /\ server \in {"up", "closing", "stopped"}
    /\ heard \subseteq DOMAIN calls

\* A promise is set at most once (a second set_value would abort the probe),
\* and with the answer to another call only if that answer was posted on a
\* core that is not its session's.
OwnAnswerOnce ==
    \A n \in DOMAIN calls :
        /\ Len(calls[n].by) <= 1
        /\ \A i \in DOMAIN calls[n].by :
              LET a == calls[n].by[i]
              IN  a \in {ServerStopped} \cup {[call |-> n, at |-> s] : s \in Shards}
                  \/ a.at # Owner[calls[a.call].session]

\* An answer posted on its session's core is never in vain: by then the
\* promise of its call is set, whatever other cores and retries did before.
AnswerAtHomeResolves ==
    \A a \in posted :
        LET c == calls[a.call]
        IN  a.at = Owner[c.session] => c.by # <<>>

\* When the shards have stopped no call waits for a promise any more.
StopEndsCalls ==
    server = "stopped" => \A n \in DOMAIN calls : calls[n].state # "waiting"

Failed(n) == n \in DOMAIN calls /\ calls[n].state = "failed"

\* A request to a client that goes on reading is read, unless it fails for
\* lack of room in the queue or the server stops.
RequestHeard ==
    \A n \in 1..MaxCalls : \A id \in Sessions :
        (n \in DOMAIN calls /\ calls[n].session = id /\ id \in clients) ~>
            (n \in heard \/ Failed(n) \/ id \notin clients)
=============================================================================
