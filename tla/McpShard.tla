------------------------------- MODULE McpShard -------------------------------
(***************************************************************************)
(* The MCP server's shards under its HTTP/SSE transport: sessions and      *)
(* their streams, dispatch with the shard's current session, subscriptions,*)
(* answers pushed across cores, updates broadcast to subscribers, stop.    *)
(* A message is posted on whatever shard accepted its connection; a        *)
(* session belongs to the shard that accepted its GET /sse.                *)
(***************************************************************************)
EXTENDS SseQueue, Integers, FiniteSets

CONSTANTS
    Shards,        \* the cores
    Uris,          \* the resources
    MaxSessions,   \* bound: sessions per shard
    MaxPosts,      \* bound: messages posted
    Bodies,        \* bound: the bodies posted, each a batch of requests
    MaxBroadcasts  \* bound: calls of broadcast_resource_updated

NoSession == <<0, 0>>   \* the empty sessionId
Unknown   == <<0, -1>>  \* a sessionId that no session has; a malformed one is taken for shard 0

\* The requests of a body; every other method leaves this state as it is, like
\* an unsubscribe of what is not subscribed.
Request == [method : {"subscribe", "unsubscribe"}, uri : Uris]

ASSUME McpShardAssumption ==
    /\ Shards \subseteq Nat /\ 0 \in Shards
    /\ MaxSessions \in Nat /\ MaxPosts \in Nat
    /\ Bodies \subseteq Seq(Request) /\ <<>> \notin Bodies
    /\ MaxBroadcasts \in Nat

VARIABLES
    queue,       \* the queue of every session ever created
    active,      \* SseSession::active
    registered,  \* the sessions in _sessions of their shard
    opening,     \* the sessions whose reply to GET /sse is not written yet
    streams,     \* the sessions whose streaming coroutine runs
    clients,     \* the sessions whose client still reads
    current,     \* _current_session_id of each shard
    subs,        \* _subscriptions of each shard: pairs <<uri, session>>
    jobs,        \* the dispatches in progress
    flight,      \* messages between cores
    server,      \* "up", "closing" (transports stop), "stopped"
    \* history
    posts,       \* the session of each message posted
    received,    \* what each client has read
    overrun,     \* the sessions whose queue lost a message
    audience     \* of each broadcast: the sessions subscribed at that time

sessionVars == <<queue, active, registered, opening, streams, clients, received, overrun>>
vars == <<sessionVars, current, subs, jobs, flight, server, posts, audience>>

Owner(id) == id[1]              \* _parse_shard
Created == DOMAIN queue
Ids == Created \cup {NoSession, Unknown}   \* what a client may send for its session
Answer(n) == [kind |-> "answer", n |-> n]
Update(k) == [kind |-> "updated", n |-> k]

Init ==
    /\ queue = [id \in {} |-> EmptyQueue]
    /\ active = [id \in {} |-> TRUE]
    /\ registered = {} /\ opening = {} /\ streams = {} /\ clients = {}
    /\ current = [s \in Shards |-> NoSession]
    /\ subs = [s \in Shards |-> {}]
    /\ jobs = {} /\ flight = {} /\ server = "up"
    /\ posts = <<>> /\ received = [id \in {} |-> <<>>] /\ overrun = {} /\ audience = <<>>
-----------------------------------------------------------------------------
\* f with x added to its domain.
Extended(f, x, v) == [y \in DOMAIN f \cup {x} |-> IF y = x THEN v ELSE f[y]]

\* GET /sse: the handler creates the session and returns the reply, whose body a
\* coroutine is to write.
CreateSession(s) ==
    LET mine == {id \in Created : Owner(id) = s}
        id == <<s, Cardinality(mine) + 1>>
    IN  /\ server = "up" /\ Cardinality(mine) < MaxSessions
        /\ queue' = Extended(queue, id, EmptyQueue)
        /\ active' = Extended(active, id, TRUE)
        /\ received' = Extended(received, id, <<>>)
        /\ registered' = registered \cup {id}
        /\ opening' = opening \cup {id}
        /\ UNCHANGED <<streams, clients, overrun, current, subs, jobs, flight, server, posts,
                       audience>>

\* push_to_session, and every other push: only to an active session of this
\* shard, found in its table.
PushTo(ids, m) ==
    LET to == {id \in ids : id \in registered /\ active[id]}
    IN  /\ queue' = [id \in Created |->
                        IF id \in to THEN PushEventually(queue[id], m) ELSE queue[id]]
        /\ overrun' = overrun \cup {id \in to : Overruns(queue[id])}
-----------------------------------------------------------------------------
(* Dispatch.                                                               *)

\* The subscriptions after one request, made for the shard's current session.
Handled(e, s) ==
    LET id == current'[s]
    IN  CASE id = NoSession -> subs[s]
          [] e.method = "subscribe" /\ id # NoSession -> subs[s] \cup {<<e.uri, id>>}
          [] e.method = "unsubscribe" /\ id # NoSession -> subs[s] \ {<<e.uri, id>>}

\* POST /message on shard s: dispatch notes the session and runs the first
\* request without suspending. A session that is opening is known to no client.
Post(s, id, body) ==
    /\ server = "up" /\ Len(posts) < MaxPosts /\ id \notin opening
    /\ current' = [current EXCEPT ![s] = id]
    /\ subs' = [subs EXCEPT ![s] = Handled(Head(body), s)]
    /\ posts' = Append(posts, id)
    /\ jobs' = jobs \cup {[n |-> Len(posts) + 1, shard |-> s, session |-> id, rest |-> Tail(body)]}
    /\ UNCHANGED <<sessionVars, flight, server, audience>>

\* The next request of a batch, after a suspension during which the shard may
\* have dispatched others.
Continue(j) ==
    /\ j.rest # <<>>
    /\ UNCHANGED current
    /\ subs' = [subs EXCEPT ![j.shard] = Handled(Head(j.rest), j.shard)]
    /\ jobs' = (jobs \ {j}) \cup {[j EXCEPT !.rest = Tail(@)]}
    /\ UNCHANGED <<sessionVars, flight, server, posts, audience>>

\* Seeded fault for Respond: the answer goes to the shard's current session.
RespondToCurrent(j) ==
    /\ j.rest = <<>>
    /\ jobs' = jobs \ {j}
    /\ flight' = flight \cup {[to |-> Owner(current[j.shard]), session |-> current[j.shard],
                               uri |-> "none", msg |-> Answer(j.n)]}
    /\ UNCHANGED <<sessionVars, current, subs, server, posts, audience>>

\* Seeded fault for Respond: the session is looked up in this shard's table only.
RespondHere(j) ==
    /\ j.rest = <<>>
    /\ jobs' = jobs \ {j}
    /\ PushTo({id \in {j.session} : id # NoSession /\ Owner(id) = j.shard}, Answer(j.n))
    /\ UNCHANGED <<active, registered, opening, streams, clients, received, current, subs,
                   flight, server, posts, audience>>

\* The answer: in the HTTP response without a session, pushed on this shard,
\* or sent to the session's shard.
Respond(j) ==
    /\ j.rest = <<>>
    /\ jobs' = jobs \ {j}
    /\ CASE j.session = NoSession -> UNCHANGED <<queue, overrun, flight>>
         [] j.session # NoSession /\ Owner(j.session) = j.shard ->
               PushTo({j.session}, Answer(j.n)) /\ UNCHANGED flight
         [] OTHER ->
               /\ flight' = flight \cup {[to |-> Owner(j.session), session |-> j.session,
                                          uri |-> "none", msg |-> Answer(j.n)]}
               /\ UNCHANGED <<queue, overrun>>
    /\ UNCHANGED <<active, registered, opening, streams, clients, received, current, subs,
                   server, posts, audience>>
-----------------------------------------------------------------------------
(* Messages between cores.                                                 *)

\* broadcast_resource_updated: invoke_on_all.
Broadcast(u) ==
    LET k == Len(audience) + 1
    IN  /\ server = "up" /\ k <= MaxBroadcasts
        /\ flight' = flight \cup {[to |-> s, session |-> NoSession, uri |-> u, msg |-> Update(k)]
                                    : s \in Shards}
        /\ audience' = Append(audience,
                               {id \in registered : \E s \in Shards : <<u, id>> \in subs[s]})
        /\ UNCHANGED <<sessionVars, current, subs, jobs, server, posts>>

\* Seeded fault for Arrive: an update goes to every session subscribed on this
\* core, wherever the session lives.
ArriveForAll(f) ==
    /\ flight' = flight \ {f}
    /\ IF f.session # NoSession THEN PushTo({f.session}, f.msg)
       ELSE PushTo({id \in Created : <<f.uri, id>> \in subs[f.to]}, f.msg)
    /\ UNCHANGED <<active, registered, opening, streams, clients, received, current, subs, jobs,
                   server, posts, audience>>

\* A message arrives at its core: push_to_session, or notify_resource_updated,
\* which looks up the subscribers in this shard's session table.
Arrive(f) ==
    /\ flight' = flight \ {f}
    /\ IF f.session # NoSession THEN PushTo({f.session}, f.msg)
       ELSE PushTo({id \in Created : Owner(id) = f.to /\ <<f.uri, id>> \in subs[f.to]}, f.msg)
    /\ UNCHANGED <<active, registered, opening, streams, clients, received, current, subs, jobs,
                   server, posts, audience>>

\* A granted push runs its continuation.
Refill(id) ==
    /\ queue[id].granted # <<>>
    /\ queue' = [queue EXCEPT ![id] = Refilled(@)]
    /\ UNCHANGED <<active, registered, opening, streams, clients, received, overrun, current,
                   subs, jobs, flight, server, posts, audience>>
-----------------------------------------------------------------------------
(* The streaming coroutine of a session.                                   *)

\* The end of the coroutine: cleanup_subscriptions and remove_session, on the
\* session's own shard.
EndStream(id) ==
    /\ streams' = streams \ {id}
    /\ registered' = registered \ {id}
    /\ subs' = [subs EXCEPT ![Owner(id)] = {p \in @ : p[2] # id}]

\* The reply is written: the coroutine starts, tells the client its session and
\* waits for messages.
StartStream(id) ==
    /\ id \in opening /\ server = "up"
    /\ opening' = opening \ {id}
    /\ streams' = streams \cup {id}
    /\ clients' = clients \cup {id}
    /\ UNCHANGED <<queue, active, registered, received, overrun, current, subs, jobs, flight,
                   server, posts, audience>>

\* The coroutine starts when the client is gone: its first write fails.
StartFails(id) ==
    /\ id \in opening
    /\ opening' = opening \ {id}
    /\ active' = [active EXCEPT ![id] = FALSE]
    /\ EndStream(id)
    /\ UNCHANGED <<queue, clients, received, overrun, current, jobs, flight, server, posts,
                   audience>>

\* The connection is gone and the reply is dropped: no coroutine ever runs, and
\* the session stays in the table.
ReplyLost(id) ==
    /\ id \in opening
    /\ opening' = opening \ {id}
    /\ UNCHANGED <<queue, active, registered, streams, clients, received, overrun, current,
                   subs, jobs, flight, server, posts, audience>>

\* A message is popped and written to a client that reads.
Deliver(id) ==
    /\ id \in streams \cap clients /\ active[id] /\ queue[id].messages # <<>>
    /\ received' = [received EXCEPT ![id] = Append(@, Head(queue[id].messages))]
    /\ queue' = [queue EXCEPT ![id] = Pop(@)]
    /\ UNCHANGED <<active, registered, opening, streams, clients, overrun, current, subs, jobs,
                   flight, server, posts, audience>>

\* Seeded fault for WriteFails: the coroutine goes on after a failed write.
WriteFailsGoesOn(id) ==
    /\ id \in streams \ clients /\ queue[id].messages # <<>>
    /\ queue' = [queue EXCEPT ![id] = Pop(@)]
    /\ UNCHANGED <<active, registered, opening, streams, clients, received, overrun, current,
                   subs, jobs, flight, server, posts, audience>>

\* The write fails because the client is gone; the coroutine ends.
WriteFails(id) ==
    /\ id \in streams \ clients /\ queue[id].messages # <<>>
    /\ active' = [active EXCEPT ![id] = FALSE]
    /\ queue' = [queue EXCEPT ![id] = Pop(@)]
    /\ EndStream(id)
    /\ UNCHANGED <<opening, clients, received, overrun, current, jobs, flight, server, posts,
                   audience>>

\* The client closes its connection; nothing tells the coroutine.
Leave(id) ==
    /\ id \in clients
    /\ clients' = clients \ {id}
    /\ UNCHANGED <<queue, active, registered, opening, streams, received, overrun, current,
                   subs, jobs, flight, server, posts, audience>>
-----------------------------------------------------------------------------
(* McpServer::stop.                                                        *)

\* The transports stop: the HTTP server shuts every connection down and waits
\* for the handlers and body writers that run.
StopTransports ==
    /\ server = "up"
    /\ server' = "closing"
    /\ clients' = {}
    /\ UNCHANGED <<queue, active, registered, opening, streams, received, overrun, current,
                   subs, jobs, flight, posts, audience>>

\* Only then do the shards stop: they would wake the streams of the sessions in
\* their tables, but find only sessions without one.
StopShards ==
    /\ server = "closing" /\ opening = {} /\ streams = {} /\ jobs = {}
    /\ server' = "stopped"
    /\ active' = [id \in Created |-> active[id] /\ id \notin registered]
    /\ registered' = {}
    /\ UNCHANGED <<queue, opening, streams, clients, received, overrun, current, subs, jobs,
                   flight, posts, audience>>

Next ==
    \/ \E s \in Shards : CreateSession(s)
    \/ \E id \in Created : StartStream(id) \/ StartFails(id) \/ ReplyLost(id)
    \/ \E s \in Shards, id \in Ids, body \in Bodies : Post(s, id, body)
    \/ \E j \in jobs : Continue(j) \/ Respond(j)
    \/ \E u \in Uris : Broadcast(u)
    \/ \E f \in flight : Arrive(f)
    \/ \E id \in Created : Refill(id) \/ Deliver(id) \/ WriteFails(id) \/ Leave(id)
    \/ StopTransports \/ StopShards

\* The reactor runs every ready task: replies, dispatches, messages between
\* cores, granted pushes, streams with a message, and the steps of stop.
Fairness ==
    /\ WF_vars(\E id \in Created : StartStream(id) \/ StartFails(id) \/ ReplyLost(id))
    /\ WF_vars(\E j \in jobs : Continue(j) \/ Respond(j))
    /\ WF_vars(\E f \in flight : Arrive(f))
    /\ WF_vars(\E id \in Created : Refill(id) \/ Deliver(id) \/ WriteFails(id))
    /\ WF_vars(StopShards)

Spec == Init /\ [][Next]_vars /\ Fairness
-----------------------------------------------------------------------------
SessionIds == {<<s, n>> : s \in Shards, n \in 1..MaxSessions}
Messages == [kind : {"answer", "updated"}, n : Nat]

\* The type invariant of the shards.
TypeOK ==
    /\ Created \subseteq SessionIds
    /\ \A id \in Created :
          /\ queue[id].messages \in Seq(Messages) /\ queue[id].granted \in Seq(Messages)
          /\ queue[id].waiting \in Seq(Messages) /\ Len(queue[id].waiting) <= 1
    /\ active \in [Created -> BOOLEAN] /\ received \in [Created -> Seq(Messages)]
    /\ streams \subseteq Created /\ registered \subseteq Created /\ opening \subseteq Created
    /\ clients \subseteq Created /\ overrun \subseteq Created
    /\ current \in [Shards -> Ids]
    /\ subs \in [Shards -> SUBSET (Uris \X Ids)]
    /\ \A j \in jobs : j.n \in DOMAIN posts /\ j.shard \in Shards
    /\ \A f \in flight : f.to \in Shards /\ f.msg \in Messages
    /\ server \in {"up", "closing", "stopped"}
    /\ posts \in Seq(Ids)
    /\ audience \in Seq(SUBSET Created)

\* What the client of a session has read.
Read(id) == IF id \in Created THEN {received[id][i] : i \in DOMAIN received[id]} ELSE {}

\* A client reads only answers to messages posted with its own session, each
\* at most once, although dispatch shares one current session per shard and
\* answers cross cores.
OwnAnswersOnce ==
    \A id \in Created : \A i \in DOMAIN received[id] :
        received[id][i].kind = "answer" =>
            /\ posts[received[id][i].n] = id
            /\ \A k \in DOMAIN received[id] : received[id][k] = received[id][i] => k = i

\* A client reads an update at most once, although the broadcast comes to every
\* core and a session can be subscribed on several: the core that handled the
\* message that subscribed it, and its own.
UpdatesOnce ==
    \A id \in Created : \A i, k \in DOMAIN received[id] :
        (received[id][i].kind = "updated" /\ received[id][k] = received[id][i]) => k = i

\* No step on the way of an answer loses it: while the client of its session
\* reads, and unless the session's queue lost a message to its limit, the answer
\* to every message is still to be made, on its way between cores, in the queue,
\* in the hands of a push that waits or was granted, or read.
AnswerKept ==
    \A n \in DOMAIN posts : (posts[n] \in clients /\ posts[n] \notin overrun) =>
        \/ \E j \in jobs : j.n = n
        \/ \E f \in flight : f.msg = Answer(n)
        \/ Answer(n) \in Held(received[posts[n]], queue[posts[n]])

\* A message posted for a session whose client keeps reading is answered,
\* unless the server stops or the queue lost a message to its limit.
AnswerArrives ==
    LET asker(n) == IF n \in DOMAIN posts THEN posts[n] ELSE NoSession
    IN  \A n \in 1..MaxPosts :
            (asker(n) \in clients) ~>
                (\/ Answer(n) \in Read(asker(n))
                 \/ asker(n) \notin clients \/ server # "up" \/ asker(n) \in overrun)

\* stop comes to its end when every stream still running has a message to
\* write, whose failure ends it.
StopEndsBusyStreams ==
    (server = "closing" /\ \A id \in streams : queue[id].messages # <<>>) ~> (server = "stopped")

\* What mcp_shard.hh:67 says of stop: the streaming coroutines are told to
\* exit, so that stop ends.
StopEnds == (server = "closing") ~> (server = "stopped")

\* What docs/api/advanced.md:27 says of a broadcast: it goes to the sessions
\* that subscribed the resource, on all cores. Checked without unsubscriptions.
UpdateReachesSubscribers ==
    \A k \in 1..MaxBroadcasts : \A id \in SessionIds :
        (k \in DOMAIN audience /\ id \in audience[k]) ~>
            (\/ Update(k) \in Read(id)
             \/ id \notin clients \/ server # "up" \/ id \in overrun)
=============================================================================
