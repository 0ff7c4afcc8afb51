------------------------------- MODULE SseQueue -------------------------------
(***************************************************************************)
(* The seastar::queue of an SseSession as the transports use it:           *)
(* push_eventually and pop_eventually. A full queue keeps one promise for  *)
(* one waiting push; a second push that has to wait replaces it, and the   *)
(* first one's message is lost with its broken promise, because every      *)
(* caller discards the future.                                             *)
(***************************************************************************)
EXTENDS Naturals, Sequences

CONSTANT QueueMax   \* the 100 of seastar::queue<std::string> messages{100}

ASSUME QueueMaxAssumption == QueueMax \in Nat \ {0}

\* messages: the queue proper; waiting: at most one push that waits for room;
\* granted: pushes that were given room and whose continuation has yet to run.
EmptyQueue == [messages |-> <<>>, waiting |-> <<>>, granted |-> <<>>]

Full(q) == Len(q.messages) >= QueueMax

\* Seeded fault for PushEventually: every push that waits is kept.
PushEventuallyAll(q, m) ==
    IF Full(q) THEN [q EXCEPT !.waiting = Append(@, m)]
    ELSE [q EXCEPT !.messages = Append(@, m)]

\* Seeded fault for PushEventually: a full queue refuses the message.
PushEventuallyOrDrop(q, m) ==
    IF Full(q) THEN q ELSE [q EXCEPT !.messages = Append(@, m)]

PushEventually(q, m) ==
    IF Full(q) THEN [q EXCEPT !.waiting = <<m>>]
    ELSE [q EXCEPT !.messages = Append(@, m)]

\* A push that replaces the one already waiting loses it.
Overruns(q) == Full(q) /\ q.waiting # <<>>

\* Taking a message from a queue that is exactly full grants the waiting push.
Pop(q) ==
    IF Len(q.messages) = QueueMax
    THEN [messages |-> Tail(q.messages), waiting |-> <<>>, granted |-> q.granted \o q.waiting]
    ELSE [q EXCEPT !.messages = Tail(@)]

\* The continuation of a granted push appends without looking again.
Refilled(q) ==
    [q EXCEPT !.messages = Append(@, Head(q.granted)), !.granted = Tail(@)]
-----------------------------------------------------------------------------
\* What is in a sequence; what was read from a queue, r, or still is in it, q.
Elems(s) == {s[i] : i \in DOMAIN s}
Held(r, q) == Elems(r) \cup Elems(q.messages) \cup Elems(q.waiting) \cup Elems(q.granted)
=============================================================================
