---------------------------- MODULE McpShardProofs ----------------------------
(***************************************************************************)
(* Proofs about McpShard, for every set of shards and resources, every     *)
(* queue, all bodies and all bounds: a client reads only answers to its    *)
(* own messages and each once, no answer is lost on its way to a client    *)
(* that reads, and a client reads an update once, on however many cores    *)
(* its session is subscribed.                                              *)
(***************************************************************************)
EXTENDS McpShard, SseQueueProofs, FiniteSetTheorems

Mine(s) == {id \in Created : Owner(id) = s}
Answers == {Answer(n) : n \in Nat}
Job     == [n : Nat, shard : Shards, session : Ids, rest : Seq(Request)]

\* The sessions of a shard are numbered from 1 on.
IdsInv ==
    /\ \A id \in Created :
          /\ Owner(id) \in Shards /\ id = <<Owner(id), id[2]>>
          /\ id[2] \in 1..Cardinality(Mine(Owner(id)))
    /\ \A s \in Shards : IsFiniteSet(Mine(s)) /\ Cardinality(Mine(s)) <= MaxSessions

SessionInv ==
    /\ queue \in [Created -> QueueOf(Messages)]
    /\ active \in [Created -> BOOLEAN] /\ received \in [Created -> Seq(Messages)]
    /\ streams \subseteq Created /\ registered \subseteq Created /\ opening \subseteq Created
    /\ clients \subseteq Created /\ overrun \subseteq Created

ShardInv ==
    /\ current \in [Shards -> Ids]
    /\ subs \in [Shards -> SUBSET (Uris \X Ids)]
    /\ server \in {"up", "closing", "stopped"}
    /\ audience \in Seq(SUBSET Created)

\* A dispatch in progress is that of one message posted; an answer between
\* cores is on its way to the session its message was posted with.
DispatchInv ==
    /\ posts \in Seq(Ids)
    /\ jobs \subseteq Job
    /\ \A j \in jobs : j.n \in DOMAIN posts /\ posts[j.n] = j.session
    /\ \A j, k \in jobs : j.n = k.n => j = k
FlightInv ==
    \A f \in flight :
        /\ f.to \in Shards /\ f.msg \in Messages
        /\ IF f.session = NoSession THEN f.msg \notin Answers
           ELSE \E n \in DOMAIN posts : f.msg = Answer(n) /\ posts[n] = f.session

\* The answer to a message is at one place: to be made by its dispatch, on its
\* way between cores, or once with the session of the message.
HeldBy(id) == Held(received[id], queue[id])
OneAnswerInv ==
    /\ \A id \in Created :
          /\ OnceIn(Messages, received[id], queue[id])
          /\ \A n \in Nat : Answer(n) \in HeldBy(id) => n \in DOMAIN posts /\ posts[n] = id
    /\ \A j \in jobs :
          /\ \A id \in Created : Answer(j.n) \notin HeldBy(id)
          /\ \A f \in flight : f.msg # Answer(j.n)
    /\ \A f \in flight : f.msg \in Answers =>
          /\ \A id \in Created : f.msg \notin HeldBy(id)
          /\ \A g \in flight : g.msg = f.msg => g = f

\* An update on its way to a core is of a broadcast made; no session of that
\* core has it yet, and no second copy of it is on its way there.
UpdateInv ==
    /\ \A id \in Created : \A k \in Nat : Update(k) \in HeldBy(id) => k \in DOMAIN audience
    /\ \A f \in flight : f.session = NoSession =>
          /\ \E k \in DOMAIN audience : f.msg = Update(k)
          /\ \A id \in Created : Owner(id) = f.to => f.msg \notin HeldBy(id)
          /\ \A g \in flight : (g.session = NoSession /\ g.to = f.to /\ g.msg = f.msg) => g = f

IInv == IdsInv /\ SessionInv /\ ShardInv /\ DispatchInv /\ FlightInv /\ OneAnswerInv
            /\ UpdateInv
-----------------------------------------------------------------------------
LEMMA AnswerIs ==
    /\ \A n \in Nat : Answer(n) \in Messages /\ Answer(n) \in Answers
    /\ \A n, k : Answer(n) = Answer(k) => n = k
    /\ \A k \in Nat : Update(k) \in Messages /\ Update(k) \notin Answers
    /\ \A k, l : Update(k) = Update(l) => k = l
    /\ \A k, n : Update(k) # Answer(n)
<1>1. \A n \in Nat : Answer(n) \in Messages /\ Answer(n) \in Answers
  BY DEF Answer, Messages, Answers
<1>2. \A n, k : Answer(n) = Answer(k) => n = k
  BY DEF Answer
<1>3. \A k \in Nat : Update(k) \in Messages
  BY DEF Update, Messages
<1>4. \A k, n : Update(k) # Answer(n)
  BY DEF Update, Answer
<1>. \A k, l : Update(k) = Update(l) => k = l
  BY DEF Update
<1>5. QED
  BY <1>1, <1>2, <1>3, <1>4 DEF Answers

LEMMA NoSessionIsNone == ASSUME IdsInv PROVE NoSession \notin Created
<1>1. NoSession[2] = 0
  BY DEF NoSession
<1>2. QED
  BY <1>1 DEF IdsInv

\* A push adds its message to the sessions it reaches, and doubles nothing if
\* the message is new to them.
LEMMA PushToStep ==
    ASSUME SessionInv, OneAnswerInv, NEW ids, NEW m \in Messages, PushTo(ids, m),
           \A id \in ids \cap Created : m \notin HeldBy(id)
    PROVE  /\ Created' = Created /\ queue' \in [Created -> QueueOf(Messages)]
           /\ overrun' \subseteq Created
           /\ \A id \in Created :
                 /\ OnceIn(Messages, received[id], queue'[id])
                 /\ Held(received[id], queue'[id])
                       \subseteq HeldBy(id) \cup (IF id \in ids THEN {m} ELSE {})
<1> DEFINE to == {id \in ids : id \in registered /\ active[id]}
<1>1. /\ queue' = [id \in Created |-> IF id \in to THEN PushEventually(queue[id], m) ELSE queue[id]]
      /\ overrun' = overrun \cup {id \in to : Overruns(queue[id])}
      /\ to \subseteq ids \cap Created
  BY DEF PushTo, SessionInv
<1>2. \A id \in Created : queue[id] \in QueueOf(Messages) /\ received[id] \in Seq(Messages)
                          /\ OnceIn(Messages, received[id], queue[id])
  BY DEF SessionInv, OneAnswerInv
<1> HIDE DEF to
<1>3. ASSUME NEW id \in Created
      PROVE  /\ queue'[id] \in QueueOf(Messages)
             /\ OnceIn(Messages, received[id], queue'[id])
             /\ Held(received[id], queue'[id])
                   \subseteq HeldBy(id) \cup (IF id \in ids THEN {m} ELSE {})
  <2>1. CASE id \in to
    <3>1. m \notin Held(received[id], queue[id])
      BY <1>1, <2>1 DEF HeldBy
    <3>2. queue'[id] = PushEventually(queue[id], m) /\ id \in ids
      BY <1>1, <2>1
    <3>3. PushEventually(queue[id], m) \in QueueOf(Messages)
      BY <1>2, PushType
    <3>4. /\ OnceIn(Messages, received[id], PushEventually(queue[id], m))
          /\ Held(received[id], PushEventually(queue[id], m))
                \subseteq Held(received[id], queue[id]) \cup {m}
      <4> DEFINE A == Messages
                 S == Messages
                 r == received[id]
                 q == queue[id]
      <4>1. r \in Seq(S) /\ q \in QueueOf(S) /\ m \in S /\ OnceIn(A, r, q)
            /\ m \notin Held(r, q)
        BY <1>2, <3>1
      <4> HIDE DEF A, S, r, q
      <4>2. OnceIn(A, r, PushEventually(q, m)) /\ Held(r, PushEventually(q, m)) \subseteq Held(r, q) \cup {m}
        BY <4>1, PushOnce
      <4>3. QED
        BY <4>2 DEF A, r, q
    <3>5. QED
      BY <3>2, <3>3, <3>4 DEF HeldBy
  <2>2. CASE id \notin to
    BY <1>1, <1>2, <2>2 DEF HeldBy
  <2>3. QED
    BY <2>1, <2>2
<1>4. Created' = Created
  BY <1>1 DEF Created
<1>5. queue' \in [Created -> QueueOf(Messages)]
  BY <1>1, <1>3
<1>6. overrun' \subseteq Created
  BY <1>1 DEF SessionInv
<1>7. QED
  BY <1>3, <1>4, <1>5, <1>6

\* A step that gives no session an answer and sends none between cores keeps
\* every answer at one place.
LEMMA OneAnswerStep ==
    ASSUME OneAnswerInv, DispatchInv', FlightInv, Created' = Created,
           \A n \in DOMAIN posts : n \in DOMAIN posts' /\ posts'[n] = posts[n],
           \A id \in Created : /\ OnceIn(Messages, received'[id], queue'[id])
                               /\ HeldBy(id)' \cap Answers \subseteq HeldBy(id),
           \A j \in jobs' : j.n \notin DOMAIN posts \/ \E k \in jobs : k.n = j.n,
           \A f \in flight' : f \in flight \/ f.msg \notin Answers
    PROVE  OneAnswerInv'
<1>1. ASSUME NEW id \in Created
      PROVE  /\ OnceIn(Messages, received'[id], queue'[id])
             /\ \A n \in Nat : Answer(n) \in HeldBy(id)' => n \in DOMAIN posts' /\ posts'[n] = id
  BY AnswerIs DEF OneAnswerInv
<1>2. ASSUME NEW j \in jobs'
      PROVE  /\ \A id \in Created : Answer(j.n) \notin HeldBy(id)'
             /\ \A f \in flight' : f.msg # Answer(j.n)
  <2>1. j.n \in Nat
    BY DEF DispatchInv, Job
  <2>2. Answer(j.n) \in Answers
    BY <2>1, AnswerIs
  <2>3. CASE \E k \in jobs : k.n = j.n
    BY <2>2, <2>3 DEF OneAnswerInv
  <2>4. CASE j.n \notin DOMAIN posts
    <3>1. \A id \in Created : Answer(j.n) \notin HeldBy(id)
      BY <2>1, <2>4 DEF OneAnswerInv
    <3>2. \A f \in flight : f.msg # Answer(j.n)
      <4> SUFFICES ASSUME NEW f \in flight, f.msg = Answer(j.n) PROVE FALSE
        OBVIOUS
      <4>1. PICK n \in DOMAIN posts : f.msg = Answer(n)
        BY <2>2 DEF FlightInv
      <4>2. QED
        BY <2>4, <4>1, AnswerIs
    <3>3. QED
      BY <2>2, <3>1, <3>2
  <2>5. QED
    BY <2>3, <2>4
<1>3. ASSUME NEW f \in flight', f.msg \in Answers
      PROVE  /\ \A id \in Created : f.msg \notin HeldBy(id)'
             /\ \A g \in flight' : g.msg = f.msg => g = f
  BY <1>3 DEF OneAnswerInv
<1>4. QED
  BY <1>1, <1>2, <1>3 DEF OneAnswerInv

\* A step that gives no session an update, sends none between cores and makes no
\* broadcast.
LEMMA UpdateStep ==
    ASSUME UpdateInv, Created' = Created, UNCHANGED audience,
           \A id \in Created : \A k \in Nat : Update(k) \in HeldBy(id)' => Update(k) \in HeldBy(id),
           \A f \in flight' : f \in flight \/ f.session # NoSession,
           audience \in Seq(SUBSET Created)
    PROVE  UpdateInv'
<1>1. \A id \in Created : \A k \in Nat : Update(k) \in HeldBy(id)' => k \in DOMAIN audience
  BY DEF UpdateInv
<1>2. \A k \in DOMAIN audience : k \in Nat
  BY LenProperties
<1>3. ASSUME NEW f \in flight', f.session = NoSession
      PROVE  /\ \E k \in DOMAIN audience : f.msg = Update(k)
             /\ \A id \in Created : Owner(id) = f.to => f.msg \notin HeldBy(id)'
             /\ \A g \in flight' : (g.session = NoSession /\ g.to = f.to /\ g.msg = f.msg) => g = f
  <2>1. f \in flight /\ \A g \in flight' : g.session = NoSession => g \in flight
    BY <1>3
  <2>2. PICK k \in DOMAIN audience : f.msg = Update(k)
    BY <1>3, <2>1 DEF UpdateInv
  <2>3. \A id \in Created : Owner(id) = f.to => f.msg \notin HeldBy(id)'
    BY <1>2, <1>3, <2>1, <2>2 DEF UpdateInv
  <2>4. QED
    BY <1>3, <2>1, <2>2, <2>3 DEF UpdateInv
<1>4. QED
  BY <1>1, <1>3 DEF UpdateInv

LEMMA IdsStep == ASSUME IdsInv, Created' = Created PROVE IdsInv'
<1>1. \A s : Mine(s)' = Mine(s)
  BY DEF Mine
<1>2. QED
  BY <1>1 DEF IdsInv

LEMMA FlightStep ==
    ASSUME FlightInv, Created \subseteq Created', flight' \subseteq flight,
           \A n \in DOMAIN posts : n \in DOMAIN posts' /\ posts'[n] = posts[n]
    PROVE  FlightInv'
  BY DEF FlightInv

\* The dispatches in progress of a later moment are those of this one, or what
\* is left of them.
LEMMA DispatchStep ==
    ASSUME DispatchInv, Created' = Created, UNCHANGED posts, jobs' \subseteq jobs
    PROVE  DispatchInv'
<1>1. Ids' = Ids /\ Job' = Job
  BY DEF Job, Ids
<1>2. QED
  BY <1>1 DEF DispatchInv

LEMMA InitInv == Init => IInv
<1> SUFFICES ASSUME Init PROVE IInv
  OBVIOUS
<1>1. Created = {} /\ DOMAIN posts = {}
  BY DEF Init, Created
<1>2. IdsInv
  <2>1. \A s : Mine(s) = {}
    BY <1>1 DEF Mine
  <2>2. IsFiniteSet({}) /\ Cardinality({}) = 0 /\ 0 <= MaxSessions
    BY FS_EmptySet, McpShardAssumption
  <2>3. \A s \in Shards : IsFiniteSet(Mine(s)) /\ Cardinality(Mine(s)) <= MaxSessions
    BY <2>1, <2>2
  <2>4. QED
    BY <1>1, <2>3 DEF IdsInv
<1>3. SessionInv
  <2>1. queue \in [Created -> QueueOf(Messages)] /\ received \in [Created -> Seq(Messages)]
        /\ active \in [Created -> BOOLEAN]
    BY <1>1 DEF Init
  <2>2. QED
    BY <2>1 DEF Init, SessionInv
<1>4. ShardInv
  BY EmptySeq DEF Init, ShardInv, Ids
<1>5. DispatchInv
  BY EmptySeq DEF Init, DispatchInv
<1>6. FlightInv /\ OneAnswerInv
  BY <1>1 DEF Init, FlightInv, OneAnswerInv
<1>7. UpdateInv
  BY <1>1 DEF Init, UpdateInv
<1>8. QED
  BY <1>2, <1>3, <1>4, <1>5, <1>6, <1>7 DEF IInv
-----------------------------------------------------------------------------
(* Every step keeps the invariant.                                         *)

\* A new session has the next number of its shard, and its queue is empty.
LEMMA CreateSessionStep == ASSUME IInv, NEW s \in Shards, CreateSession(s) PROVE IInv'
<1>0. PICK id : id = <<s, Cardinality(Mine(s)) + 1>>
  OBVIOUS
<1>1. /\ server = "up" /\ Cardinality(Mine(s)) < MaxSessions
      /\ queue' = Extended(queue, id, EmptyQueue) /\ received' = Extended(received, id, <<>>)
      /\ active' = Extended(active, id, TRUE)
      /\ registered' = registered \cup {id} /\ opening' = opening \cup {id}
      /\ UNCHANGED <<streams, clients, overrun, current, subs, jobs, flight, server, posts,
                     audience>>
  BY <1>0 DEF CreateSession, Mine
<1>2. IsFiniteSet(Mine(s)) /\ Cardinality(Mine(s)) \in Nat
  BY FS_CardinalityType DEF IInv, IdsInv
<1>3. id \notin Created
  <2> SUFFICES ASSUME id \in Created PROVE FALSE
    OBVIOUS
  <2>1. Owner(id) = s /\ id[2] = Cardinality(Mine(s)) + 1
    BY <1>0 DEF Owner
  <2>2. id[2] \in 1..Cardinality(Mine(s))
    BY <2>1 DEF IInv, IdsInv
  <2>3. QED
    BY <1>2, <2>1, <2>2
<1>4. Owner(id) = s /\ id[2] = Cardinality(Mine(s)) + 1 /\ id = <<Owner(id), id[2]>>
  BY <1>0 DEF Owner
<1>5. Created' = Created \cup {id}
  BY <1>1 DEF Extended, Created
<1>6. IdsInv'
  <2>1. \A r : r # s => Mine(r)' = Mine(r)
    BY <1>4, <1>5 DEF Mine
  <2>2. Mine(s)' = Mine(s) \cup {id} /\ id \notin Mine(s)
    BY <1>3, <1>4, <1>5 DEF Mine
  <2>3. IsFiniteSet(Mine(s)') /\ Cardinality(Mine(s)') = Cardinality(Mine(s)) + 1
    BY <1>2, <2>2, FS_AddElement
  <2>4. Cardinality(Mine(s)') <= MaxSessions
    BY <1>1, <1>2, <2>3, McpShardAssumption
  <2>5. \A r \in Shards : IsFiniteSet(Mine(r)') /\ Cardinality(Mine(r)') <= MaxSessions
    BY <2>1, <2>3, <2>4 DEF IInv, IdsInv
  <2>6. ASSUME NEW x \in Created'
        PROVE  /\ Owner(x) \in Shards /\ x = <<Owner(x), x[2]>>
               /\ x[2] \in 1..Cardinality(Mine(Owner(x))')
    <3>1. CASE x = id
      <4>1. x[2] \in 1..Cardinality(Mine(s)')
        BY <1>2, <1>4, <2>3, <3>1
      <4>2. QED
        BY <1>4, <3>1, <4>1
    <3>2. CASE x # id /\ Owner(x) = s
      <4>1. x \in Created /\ x[2] \in 1..Cardinality(Mine(s))
        BY <1>5, <3>2 DEF IInv, IdsInv
      <4>2. x[2] \in 1..(Cardinality(Mine(s)) + 1)
        BY <1>2, <4>1
      <4>3. QED
        BY <2>3, <3>2, <4>1, <4>2 DEF IInv, IdsInv
    <3>3. CASE x # id /\ Owner(x) # s
      <4>1. x \in Created /\ Mine(Owner(x))' = Mine(Owner(x))
        BY <1>5, <2>1, <3>3
      <4>2. QED
        BY <4>1 DEF IInv, IdsInv
    <3>4. QED
      BY <3>1, <3>2, <3>3
  <2>7. QED
    BY <2>5, <2>6 DEF IdsInv
<1>7. \A x \in Created : /\ queue'[x] = queue[x] /\ received'[x] = received[x]
                         /\ active'[x] = active[x]
  BY <1>1, <1>3 DEF Extended, Created, IInv, SessionInv
<1>8. queue'[id] = EmptyQueue /\ received'[id] = <<>> /\ active'[id] = TRUE
  BY <1>1 DEF Extended
<1>9. SessionInv'
  <2>1. queue' \in [Created' -> QueueOf(Messages)]
    BY <1>1, <1>5, <1>7, <1>8, EmptyQueueType DEF IInv, SessionInv, Extended, Created
  <2>2. received' \in [Created' -> Seq(Messages)]
    BY <1>1, <1>5, <1>7, <1>8, EmptySeq DEF IInv, SessionInv, Extended, Created
  <2>3. active' \in [Created' -> BOOLEAN]
    BY <1>1, <1>5, <1>7, <1>8 DEF IInv, SessionInv, Extended, Created
  <2>4. /\ streams' \subseteq Created' /\ registered' \subseteq Created'
        /\ clients' \subseteq Created' /\ overrun' \subseteq Created' /\ opening' \subseteq Created'
    BY <1>1, <1>5 DEF IInv, SessionInv
  <2>5. QED
    BY <2>1, <2>2, <2>3, <2>4 DEF SessionInv
<1>10. ShardInv'
  <2>1. audience \in Seq(SUBSET Created')
    <3>1. (SUBSET Created) \subseteq (SUBSET Created')
      BY <1>5
    <3>2. QED
      BY <3>1, SeqMonotonic DEF IInv, ShardInv
  <2>2. current \in [Shards -> Ids']
    BY <1>5 DEF IInv, ShardInv, Ids
  <2>3. subs \in [Shards -> SUBSET (Uris \X Ids')]
    BY <1>5 DEF IInv, ShardInv, Ids
  <2>4. QED
    BY <1>1, <2>1, <2>2, <2>3 DEF IInv, ShardInv
<1>11. DispatchInv'
  <2>1. posts \in Seq(Ids')
    <3>1. Ids \subseteq Ids'
      BY <1>5 DEF Ids
    <3>2. QED
      BY <3>1, SeqMonotonic DEF IInv, DispatchInv
  <2>2. jobs \subseteq Job'
    BY <1>5 DEF IInv, DispatchInv, Job, Ids
  <2>3. QED
    BY <1>1, <2>1, <2>2 DEF IInv, DispatchInv
<1>12. FlightInv'
  BY <1>1, <1>5, FlightStep DEF IInv
<1>13. \A x \in Created : HeldBy(x)' = HeldBy(x)
  BY <1>7 DEF HeldBy
<1>14. HeldBy(id)' = {} /\ OnceIn(Messages, received'[id], queue'[id])
  <2>1. Elems(<<>>) = {} /\ Once(Messages, <<>>)
    BY EmptyOnce
  <2>2. Held(<<>>, EmptyQueue) = {} /\ OnceIn(Messages, <<>>, EmptyQueue)
    BY <2>1 DEF Held, OnceIn, Apart, EmptyQueue
  <2>3. QED
    BY <1>8, <2>2 DEF HeldBy
<1>15. OneAnswerInv'
  <2>1. OneAnswerInv
    BY DEF IInv
  <2>2. ASSUME NEW x \in Created'
        PROVE  /\ OnceIn(Messages, received'[x], queue'[x])
               /\ \A n \in Nat : Answer(n) \in HeldBy(x)' => n \in DOMAIN posts' /\ posts'[n] = x
    <3>1. CASE x = id
      BY <1>14, <3>1
    <3>2. CASE x \in Created
      BY <1>1, <1>7, <1>13, <2>1, <3>2 DEF OneAnswerInv
    <3>3. QED
      BY <1>5, <3>1, <3>2
  <2>3. ASSUME NEW x \in Created', NEW m, m \in HeldBy(x)'
        PROVE  x \in Created /\ m \in HeldBy(x)
    <3>1. x # id
      BY <1>14, <2>3
    <3>2. QED
      BY <1>5, <1>13, <2>3, <3>1
  <2>4. ASSUME NEW j \in jobs'
        PROVE  /\ \A x \in Created' : Answer(j.n) \notin HeldBy(x)'
               /\ \A f \in flight' : f.msg # Answer(j.n)
    BY <1>1, <2>1, <2>3 DEF OneAnswerInv
  <2>5. ASSUME NEW f \in flight', f.msg \in Answers
        PROVE  /\ \A x \in Created' : f.msg \notin HeldBy(x)'
               /\ \A g \in flight' : g.msg = f.msg => g = f
    BY <1>1, <2>1, <2>3, <2>5 DEF OneAnswerInv
  <2>6. QED
    BY <2>2, <2>4, <2>5 DEF OneAnswerInv
<1>16. UpdateInv'
  <2>1. UpdateInv
    BY DEF IInv
  <2>2. ASSUME NEW x \in Created', NEW m, m \in HeldBy(x)'
        PROVE  x \in Created /\ m \in HeldBy(x)
    BY <1>5, <1>13, <1>14, <2>2
  <2>3. QED
    BY <1>1, <2>1, <2>2 DEF UpdateInv
<1>17. QED
  BY <1>6, <1>9, <1>10, <1>11, <1>12, <1>15, <1>16 DEF IInv

LEMMA HandledType ==
    ASSUME ShardInv, NEW e \in Request, NEW s \in Shards, current'[s] \in Ids
    PROVE  Handled(e, s) \in SUBSET (Uris \X Ids)
<1>1. subs[s] \in SUBSET (Uris \X Ids) /\ e.uri \in Uris
      /\ (e.method = "subscribe" \/ e.method = "unsubscribe")
  BY DEF ShardInv, Request
<1>2. CASE current'[s] = NoSession
  BY <1>1, <1>2 DEF Handled
<1>3. CASE current'[s] # NoSession /\ e.method = "subscribe"
  <2>1. Handled(e, s) = subs[s] \cup {<<e.uri, current'[s]>>}
    BY <1>3 DEF Handled
  <2>2. QED
    BY <1>1, <1>3, <2>1
<1>4. CASE current'[s] # NoSession /\ e.method = "unsubscribe"
  <2>1. Handled(e, s) = subs[s] \ {<<e.uri, current'[s]>>}
    BY <1>4 DEF Handled
  <2>2. QED
    BY <1>1, <2>1
<1>5. QED
  BY <1>1, <1>2, <1>3, <1>4

\* A message posted is a new one, so the dispatch of it is its only one.
LEMMA PostStep ==
    ASSUME IInv, NEW s \in Shards, NEW id \in Ids, NEW body \in Bodies,
           Post(s, id, body)
    PROVE  IInv'
<1>1. /\ current' = [current EXCEPT ![s] = id]
      /\ subs' = [subs EXCEPT ![s] = Handled(Head(body), s)]
      /\ posts' = Append(posts, id)
      /\ jobs' = jobs \cup {[n |-> Len(posts) + 1, shard |-> s, session |-> id, rest |-> Tail(body)]}
      /\ UNCHANGED <<queue, active, registered, opening, streams, clients, received, overrun,
                     flight, server, audience>>
  BY DEF Post, sessionVars
<1>2. Created' = Created
  BY <1>1 DEF Created
<1>2a. Ids' = Ids
  BY <1>2 DEF Ids
<1>3. Head(body) \in Request /\ Tail(body) \in Seq(Request)
  <2>1. body \in Seq(Request) /\ body # <<>>
    BY McpShardAssumption
  <2>2. QED
    BY <2>1, HeadTailProperties
<1>4. IdsInv'
  BY <1>2, IdsStep DEF IInv
<1>5. SessionInv'
  BY <1>1, <1>2 DEF IInv, SessionInv
<1>6. ShardInv'
  <2>1. ShardInv
    BY DEF IInv
  <2>2. current' \in [Shards -> Ids] /\ current'[s] = id
    BY <1>1, <2>1 DEF ShardInv
  <2>3. Handled(Head(body), s) \in SUBSET (Uris \X Ids)
    BY <1>3, <2>1, <2>2, HandledType
  <2>4. subs' \in [Shards -> SUBSET (Uris \X Ids)]
    BY <1>1, <2>1, <2>3 DEF ShardInv
  <2>5. QED
    BY <1>1, <1>2, <1>2a, <2>1, <2>2, <2>4 DEF ShardInv
<1> DEFINE job == [n |-> Len(posts) + 1, shard |-> s, session |-> id, rest |-> Tail(body)]
<1>7. /\ posts \in Seq(Ids) /\ jobs \subseteq Job
      /\ \A j \in jobs : j.n \in DOMAIN posts /\ posts[j.n] = j.session
      /\ \A j, k \in jobs : j.n = k.n => j = k
  BY DEF IInv, DispatchInv
<1>8. /\ posts' \in Seq(Ids) /\ Len(posts) \in Nat
      /\ Len(posts) + 1 \notin DOMAIN posts
      /\ Len(posts) + 1 \in DOMAIN posts' /\ posts'[Len(posts) + 1] = id
      /\ \A n \in DOMAIN posts : n \in DOMAIN posts' /\ posts'[n] = posts[n]
  BY <1>1, <1>7, AppendProperties, LenProperties
<1>9. DispatchInv'
  <2>1. Job' = Job
    BY <1>2a DEF Job
  <2>2. job \in Job
    BY <1>3, <1>8 DEF Job
  <2>3. jobs' = jobs \cup {job} /\ job.n = Len(posts) + 1 /\ job.session = id
    BY <1>1
  <2> HIDE DEF job
  <2>4. \A j \in jobs' : j.n \in DOMAIN posts' /\ posts'[j.n] = j.session
    BY <1>7, <1>8, <2>3
  <2>5. \A j, k \in jobs' : j.n = k.n => j = k
    BY <1>7, <1>8, <2>3
  <2>6. QED
    BY <1>2a, <1>7, <1>8, <2>1, <2>2, <2>3, <2>4, <2>5 DEF DispatchInv
<1>10. FlightInv'
  BY <1>1, <1>2, <1>8, FlightStep DEF IInv
<1>11. OneAnswerInv'
  <2>1. \A x \in Created : /\ OnceIn(Messages, received'[x], queue'[x])
                           /\ HeldBy(x)' \subseteq HeldBy(x)
    BY <1>1 DEF IInv, OneAnswerInv, HeldBy
  <2>2. \A j \in jobs' : j.n \notin DOMAIN posts \/ \E k \in jobs : k.n = j.n
    BY <1>1, <1>8
  <2>3. QED
    BY <1>1, <1>2, <1>8, <1>9, <2>1, <2>2, OneAnswerStep DEF IInv
<1>12. UpdateInv'
  <2>1. UpdateInv /\ audience \in Seq(SUBSET Created)
    BY DEF IInv, ShardInv
  <2>2. \A x \in Created : HeldBy(x)' = HeldBy(x)
    BY <1>1 DEF HeldBy
  <2>3. QED
    BY <1>1, <1>2, <2>1, <2>2, UpdateStep
<1>13. QED
  BY <1>4, <1>5, <1>6, <1>9, <1>10, <1>11, <1>12 DEF IInv

\* The next request of a batch leaves its dispatch with the same message.
LEMMA ContinueStep == ASSUME IInv, NEW j \in jobs, Continue(j) PROVE IInv'
<1> DEFINE rest == [j EXCEPT !.rest = Tail(@)]
<1>1. /\ j.rest # <<>>
      /\ subs' = [subs EXCEPT ![j.shard] = Handled(Head(j.rest), j.shard)]
      /\ jobs' = (jobs \ {j}) \cup {rest}
      /\ UNCHANGED <<queue, active, registered, opening, streams, clients, received, overrun,
                     current, flight, server, posts, audience>>
  BY DEF Continue, sessionVars
<1>2. Created' = Created
  BY <1>1 DEF Created
<1>2a. Ids' = Ids
  BY <1>2 DEF Ids
<1>3. j \in Job /\ j.rest \in Seq(Request) /\ j.shard \in Shards
  BY DEF IInv, DispatchInv, Job
<1>4. Head(j.rest) \in Request /\ Tail(j.rest) \in Seq(Request)
  BY <1>1, <1>3, HeadTailProperties
<1>5. rest \in Job /\ rest.n = j.n /\ rest.session = j.session
  BY <1>3, <1>4 DEF Job
<1> HIDE DEF rest
<1>6. IdsInv'
  BY <1>2, IdsStep DEF IInv
<1>7. SessionInv'
  BY <1>1, <1>2 DEF IInv, SessionInv
<1>8. ShardInv'
  <2>1. ShardInv
    BY DEF IInv
  <2>2. current'[j.shard] \in Ids
    BY <1>1, <1>3, <2>1 DEF ShardInv
  <2>3. Handled(Head(j.rest), j.shard) \in SUBSET (Uris \X Ids)
    BY <1>3, <1>4, <2>1, <2>2, HandledType
  <2>4. subs' \in [Shards -> SUBSET (Uris \X Ids)]
    BY <1>1, <2>1, <2>3 DEF ShardInv
  <2>5. QED
    BY <1>1, <1>2, <1>2a, <2>1, <2>4 DEF ShardInv
<1>9. DispatchInv'
  <2>1. Job' = Job
    BY <1>2a DEF Job
  <2>2. \A k \in jobs' : k.n \in DOMAIN posts /\ posts[k.n] = k.session
    BY <1>1, <1>5 DEF IInv, DispatchInv
  <2>3. \A k, l \in jobs' : k.n = l.n => k = l
    BY <1>1, <1>5 DEF IInv, DispatchInv
  <2>4. QED
    BY <1>1, <1>2a, <1>5, <2>1, <2>2, <2>3 DEF IInv, DispatchInv
<1>10. FlightInv'
  BY <1>1, <1>2, FlightStep DEF IInv
<1>11. OneAnswerInv'
  <2>1. \A x \in Created : /\ OnceIn(Messages, received'[x], queue'[x])
                           /\ HeldBy(x)' \subseteq HeldBy(x)
    BY <1>1 DEF IInv, OneAnswerInv, HeldBy
  <2>2. \A k \in jobs' : \E l \in jobs : l.n = k.n
    BY <1>1, <1>5
  <2>3. QED
    BY <1>1, <1>2, <1>9, <2>1, <2>2, OneAnswerStep DEF IInv
<1>12. UpdateInv'
  <2>1. UpdateInv /\ audience \in Seq(SUBSET Created)
    BY DEF IInv, ShardInv
  <2>2. \A x \in Created : HeldBy(x)' = HeldBy(x)
    BY <1>1 DEF HeldBy
  <2>3. QED
    BY <1>1, <1>2, <2>1, <2>2, UpdateStep
<1>13. QED
  BY <1>6, <1>7, <1>8, <1>9, <1>10, <1>11, <1>12 DEF IInv

\* Steps that change only sessions, at most ending some of them: no session is
\* given a message, and none is created.
LEMMA SessionStep ==
    ASSUME IInv, Created' = Created, SessionInv', ShardInv',
           UNCHANGED <<jobs, flight, posts, audience>>,
           \A id \in Created : /\ OnceIn(Messages, received'[id], queue'[id])
                               /\ HeldBy(id)' \subseteq HeldBy(id)
    PROVE  IInv'
<1>1. IdsInv'
  BY IdsStep DEF IInv
<1>2. DispatchInv'
  BY DispatchStep DEF IInv
<1>3. FlightInv'
  BY FlightStep DEF IInv
<1>4. OneAnswerInv'
  BY <1>2, OneAnswerStep DEF IInv
<1>5. UpdateInv'
  BY UpdateStep DEF IInv, ShardInv
<1>6. QED
  BY <1>1, <1>2, <1>3, <1>4, <1>5 DEF IInv
-----------------------------------------------------------------------------
(* Answers and updates.                                                    *)

\* The answer to a message that is nowhere yet is pushed to its session.
LEMMA AnswerPushed ==
    ASSUME IInv, NEW n \in DOMAIN posts, PushTo({posts[n]}, Answer(n)),
           \A x \in Created : Answer(n) \notin HeldBy(x),
           \A k \in jobs' : k \in jobs /\ k.n # n,
           \A f \in flight' : f \in flight /\ f.msg # Answer(n),
           UNCHANGED <<active, registered, opening, streams, clients, received, current, subs,
                       server, posts, audience>>
    PROVE  IInv'
<1>1. n \in Nat /\ Answer(n) \in Messages /\ Answer(n) \in Answers
  <2>1. n \in Nat
    BY LenProperties DEF IInv, DispatchInv
  <2>2. QED
    BY <2>1, AnswerIs
<1>2. SessionInv /\ OneAnswerInv
  BY DEF IInv
<1>3. /\ Created' = Created /\ queue' \in [Created -> QueueOf(Messages)] /\ overrun' \subseteq Created
      /\ \A x \in Created :
            /\ OnceIn(Messages, received[x], queue'[x])
            /\ Held(received[x], queue'[x])
                  \subseteq HeldBy(x) \cup (IF x \in {posts[n]} THEN {Answer(n)} ELSE {})
  BY <1>1, <1>2, PushToStep
<1>4. \A x \in Created : HeldBy(x)' \subseteq HeldBy(x) \cup (IF x = posts[n] THEN {Answer(n)} ELSE {})
  BY <1>3 DEF HeldBy
<1>5. IdsInv' /\ DispatchInv' /\ FlightInv'
  BY <1>3, IdsStep, DispatchStep, FlightStep DEF IInv
<1>6. SessionInv'
  BY <1>2, <1>3 DEF SessionInv
<1>7. ShardInv'
  BY <1>3 DEF IInv, ShardInv, Ids
<1>8. \A x \in Created : \A m \in HeldBy(x)' :
         m \in HeldBy(x) \/ (m = Answer(n) /\ x = posts[n])
  BY <1>4
<1>9. OneAnswerInv'
  <2>1. ASSUME NEW x \in Created
        PROVE  /\ OnceIn(Messages, received'[x], queue'[x])
               /\ \A k \in Nat : Answer(k) \in HeldBy(x)' => k \in DOMAIN posts' /\ posts'[k] = x
    BY <1>2, <1>3, <1>8, AnswerIs DEF OneAnswerInv
  <2>2. ASSUME NEW k \in jobs'
        PROVE  /\ \A x \in Created : Answer(k.n) \notin HeldBy(x)'
               /\ \A f \in flight' : f.msg # Answer(k.n)
    <3>1. k \in jobs /\ Answer(k.n) # Answer(n)
      BY AnswerIs
    <3>2. QED
      BY <1>2, <1>8, <3>1 DEF OneAnswerInv
  <2>3. ASSUME NEW f \in flight', f.msg \in Answers
        PROVE  /\ \A x \in Created : f.msg \notin HeldBy(x)'
               /\ \A g \in flight' : g.msg = f.msg => g = f
    BY <1>2, <1>8, <2>3 DEF OneAnswerInv
  <2>4. QED
    BY <1>3, <2>1, <2>2, <2>3 DEF OneAnswerInv
<1>10. UpdateInv'
  <2>1. UpdateInv /\ audience \in Seq(SUBSET Created)
    BY DEF IInv, ShardInv
  <2>2. \A x \in Created : \A k \in Nat : Update(k) \in HeldBy(x)' => Update(k) \in HeldBy(x)
    BY <1>8, AnswerIs
  <2>3. QED
    BY <1>3, <2>1, <2>2, UpdateStep
<1>11. QED
  BY <1>5, <1>6, <1>7, <1>9, <1>10 DEF IInv

\* An update that arrives is pushed to sessions of its core.
LEMMA UpdatePushed ==
    ASSUME IInv, NEW f \in flight, f.session = NoSession, NEW ids,
           \A id \in ids : Owner(id) = f.to,
           PushTo(ids, f.msg), flight' = flight \ {f},
           UNCHANGED <<active, registered, opening, streams, clients, received, current, subs,
                       jobs, server, posts, audience>>
    PROVE  IInv'
<1> DEFINE m == f.msg
<1>1. SessionInv /\ OneAnswerInv /\ UpdateInv /\ m \in Messages /\ m \notin Answers
  BY DEF IInv, FlightInv
<1>1a. \A x \in ids \cap Created : m \notin HeldBy(x)
  BY <1>1 DEF UpdateInv
<1> HIDE DEF m
<1>2. /\ Created' = Created /\ queue' \in [Created -> QueueOf(Messages)] /\ overrun' \subseteq Created
      /\ \A x \in Created :
            /\ OnceIn(Messages, received[x], queue'[x])
            /\ Held(received[x], queue'[x]) \subseteq HeldBy(x) \cup (IF x \in ids THEN {m} ELSE {})
  BY <1>1, <1>1a, PushToStep DEF m
<1>3. \A x \in Created : OnceIn(Messages, received'[x], queue'[x])
                         /\ HeldBy(x)' \cap Answers \subseteq HeldBy(x)
  BY <1>1, <1>2 DEF HeldBy
<1>4. IdsInv' /\ DispatchInv' /\ FlightInv'
  BY <1>2, IdsStep, DispatchStep, FlightStep DEF IInv
<1>5. SessionInv'
  BY <1>1, <1>2 DEF SessionInv
<1>6. ShardInv'
  BY <1>2 DEF IInv, ShardInv, Ids
<1>7. OneAnswerInv'
  BY <1>2, <1>3, <1>4, OneAnswerStep DEF IInv
<1>8. UpdateInv'
  <2>1. ASSUME NEW x \in Created, NEW l, l \in HeldBy(x)'
        PROVE  l \in HeldBy(x) \/ (l = m /\ Owner(x) = f.to)
    BY <1>2, <2>1 DEF HeldBy
  <2>2. PICK k \in DOMAIN audience : m = Update(k)
    BY <1>1 DEF UpdateInv, m
  <2>3. \A x \in Created : \A l \in Nat : Update(l) \in HeldBy(x)' => l \in DOMAIN audience
    BY <1>1, <2>1, <2>2, AnswerIs DEF UpdateInv
  <2>4. ASSUME NEW g \in flight', g.session = NoSession
        PROVE  /\ \E l \in DOMAIN audience : g.msg = Update(l)
               /\ \A x \in Created : Owner(x) = g.to => g.msg \notin HeldBy(x)'
               /\ \A h \in flight' : (h.session = NoSession /\ h.to = g.to /\ h.msg = g.msg) => h = g
    <3>1. g \in flight /\ g # f
      OBVIOUS
    <3>2. ASSUME NEW x \in Created, Owner(x) = g.to, g.msg \in HeldBy(x)' PROVE FALSE
      <4>1. g.msg \notin HeldBy(x)
        BY <1>1, <2>4, <3>1, <3>2 DEF UpdateInv
      <4>2. g.msg = m /\ g.to = f.to
        BY <2>1, <3>2, <4>1
      <4>3. QED
        BY <1>1, <2>4, <3>1, <4>2 DEF UpdateInv, m
    <3>3. QED
      BY <1>1, <2>4, <3>1, <3>2 DEF UpdateInv
  <2>5. QED
    BY <1>2, <2>3, <2>4 DEF UpdateInv
<1>9. QED
  BY <1>4, <1>5, <1>6, <1>7, <1>8 DEF IInv

\* An answer leaves its dispatch for its session's queue or for another core.
LEMMA RespondStep == ASSUME IInv, NEW j \in jobs, Respond(j) PROVE IInv'
<1>1. /\ jobs' = jobs \ {j}
      /\ UNCHANGED <<active, registered, opening, streams, clients, received, current, subs,
                     server, posts, audience>>
  BY DEF Respond
<1>2. j \in Job /\ j.n \in DOMAIN posts /\ posts[j.n] = j.session
      /\ \A k \in jobs' : k \in jobs /\ k.n # j.n
  BY <1>1 DEF IInv, DispatchInv
<1>3. (\A x \in Created : Answer(j.n) \notin HeldBy(x)) /\ \A f \in flight : f.msg # Answer(j.n)
  BY DEF IInv, OneAnswerInv
<1>4. CASE j.session = NoSession
  <2>1. UNCHANGED <<queue, overrun, flight>>
    BY <1>4 DEF Respond
  <2>2. Created' = Created
    BY <2>1 DEF Created
  <2>3. IdsInv' /\ DispatchInv' /\ FlightInv'
    BY <1>1, <2>1, <2>2, IdsStep, DispatchStep, FlightStep DEF IInv
  <2>4. SessionInv' /\ ShardInv'
    BY <1>1, <2>1, <2>2 DEF IInv, SessionInv, ShardInv, Ids
  <2>5. \A x \in Created : /\ OnceIn(Messages, received'[x], queue'[x])
                           /\ HeldBy(x)' \subseteq HeldBy(x)
    BY <1>1, <2>1 DEF IInv, OneAnswerInv, HeldBy
  <2>6. OneAnswerInv'
    BY <1>1, <2>1, <2>2, <2>3, <2>5, OneAnswerStep DEF IInv
  <2>7. UpdateInv'
    BY <1>1, <2>1, <2>2, <2>5, UpdateStep DEF IInv, ShardInv
  <2>8. QED
    BY <2>3, <2>4, <2>6, <2>7 DEF IInv
<1>5. CASE j.session # NoSession /\ Owner(j.session) = j.shard
  <2>1. PushTo({j.session}, Answer(j.n)) /\ UNCHANGED flight
    BY <1>5 DEF Respond
  <2>2. QED
    BY <1>1, <1>2, <1>3, <2>1, AnswerPushed
<1>6. CASE j.session # NoSession /\ Owner(j.session) # j.shard
  <2> DEFINE sent == [to |-> Owner(j.session), session |-> j.session, uri |-> "none",
                      msg |-> Answer(j.n)]
  <2>1. flight' = flight \cup {sent} /\ UNCHANGED <<queue, overrun>>
    BY <1>6 DEF Respond
  <2>2. Created' = Created /\ j.session \in Created \cup {Unknown} /\ j.n \in Nat
    BY <1>2, <1>6, <2>1 DEF Created, Job, Ids
  <2>3. sent.to \in Shards /\ sent.session = posts[j.n]
        /\ sent.session # NoSession /\ sent.msg = Answer(j.n)
    <3>1. Owner(Unknown) \in Shards
      BY McpShardAssumption DEF Owner, Unknown
    <3>2. QED
      BY <1>2, <1>6, <2>2, <3>1 DEF IInv, IdsInv
  <2> HIDE DEF sent
  <2>4. Answer(j.n) \in Messages /\ Answer(j.n) \in Answers
    BY <2>2, AnswerIs
  <2>5. IdsInv' /\ DispatchInv'
    BY <1>1, <2>1, <2>2, IdsStep, DispatchStep DEF IInv
  <2>6. SessionInv' /\ ShardInv'
    BY <1>1, <2>1, <2>2 DEF IInv, SessionInv, ShardInv, Ids
  <2>7. FlightInv'
    <3>1. FlightInv
      BY DEF IInv
    <3>2. ASSUME NEW f \in flight'
          PROVE  /\ f.to \in Shards /\ f.msg \in Messages
                 /\ IF f.session = NoSession THEN f.msg \notin Answers
                    ELSE \E n \in DOMAIN posts : f.msg = Answer(n) /\ posts[n] = f.session
      <4>1. CASE f = sent
        BY <1>2, <2>3, <2>4, <4>1
      <4>2. CASE f \in flight
        BY <3>1, <4>2 DEF FlightInv
      <4>3. QED
        BY <2>1, <4>1, <4>2
    <3>3. QED
      BY <1>1, <2>2, <3>2 DEF FlightInv
  <2>8. \A x \in Created : HeldBy(x)' = HeldBy(x)
    BY <1>1, <2>1 DEF HeldBy
  <2>9. OneAnswerInv'
    <3>1. OneAnswerInv
      BY DEF IInv
    <3>2. ASSUME NEW x \in Created
          PROVE  /\ OnceIn(Messages, received'[x], queue'[x])
                 /\ \A n \in Nat : Answer(n) \in HeldBy(x)' => n \in DOMAIN posts' /\ posts'[n] = x
      BY <1>1, <2>1, <2>8, <3>1 DEF OneAnswerInv
    <3>3. ASSUME NEW k \in jobs'
          PROVE  /\ \A x \in Created : Answer(k.n) \notin HeldBy(x)'
                 /\ \A f \in flight' : f.msg # Answer(k.n)
      <4>1. Answer(k.n) # Answer(j.n)
        BY <1>2, AnswerIs
      <4>2. QED
        BY <1>2, <2>1, <2>3, <2>8, <3>1, <4>1 DEF OneAnswerInv
    <3>4. ASSUME NEW f \in flight', f.msg \in Answers
          PROVE  /\ \A x \in Created : f.msg \notin HeldBy(x)'
                 /\ \A g \in flight' : g.msg = f.msg => g = f
      BY <1>3, <2>1, <2>3, <2>8, <3>1, <3>4 DEF OneAnswerInv
    <3>5. QED
      BY <2>2, <3>2, <3>3, <3>4 DEF OneAnswerInv
  <2>10. UpdateInv'
    BY <1>1, <2>1, <2>2, <2>3, <2>8, UpdateStep DEF IInv, ShardInv
  <2>11. QED
    BY <2>5, <2>6, <2>7, <2>9, <2>10 DEF IInv
<1>7. QED
  BY <1>4, <1>5, <1>6

LEMMA BroadcastStep == ASSUME IInv, NEW u \in Uris, Broadcast(u) PROVE IInv'
<1> DEFINE k == Len(audience) + 1
           sent == {[to |-> s, session |-> NoSession, uri |-> u, msg |-> Update(k)] : s \in Shards}
           told == {id \in registered : \E s \in Shards : <<u, id>> \in subs[s]}
<1>1. /\ flight' = flight \cup sent /\ audience' = Append(audience, told)
      /\ UNCHANGED <<queue, active, registered, opening, streams, clients, received, overrun,
                     current, subs, jobs, server, posts>>
  BY DEF Broadcast, sessionVars
<1>2. Created' = Created
  BY <1>1 DEF Created
<1>3. told \in SUBSET Created /\ audience \in Seq(SUBSET Created)
  BY DEF IInv, SessionInv, ShardInv
<1>4. Update(k) \in Messages /\ Update(k) \notin Answers
  <2>1. k \in Nat
    BY <1>3, LenProperties
  <2>2. QED
    BY <2>1, AnswerIs
<1>5. audience' \in Seq(SUBSET Created)
  <2> HIDE DEF told
  <2>1. QED
    BY <1>1, <1>3, AppendProperties
<1>6. /\ \A f \in sent : /\ f.to \in Shards /\ f.session = NoSession
                         /\ f.msg \in Messages /\ f.msg \notin Answers /\ f.msg = Update(k)
      /\ \A f, g \in sent : f.to = g.to => f = g
  BY <1>4
<1>6a. k \in Nat /\ k \notin DOMAIN audience /\ DOMAIN audience' = DOMAIN audience \cup {k}
  <2> HIDE DEF told
  <2>1. QED
    BY <1>1, <1>3, AppendProperties, LenProperties
<1> HIDE DEF sent, told, k
<1>7. IdsInv' /\ DispatchInv'
  BY <1>1, <1>2, IdsStep, DispatchStep DEF IInv
<1>8. SessionInv' /\ ShardInv'
  BY <1>1, <1>2, <1>5 DEF IInv, SessionInv, ShardInv, Ids
<1>9. FlightInv'
  <2>1. FlightInv
    BY DEF IInv
  <2>2. ASSUME NEW f \in flight'
        PROVE  /\ f.to \in Shards /\ f.msg \in Messages
               /\ IF f.session = NoSession THEN f.msg \notin Answers
                  ELSE \E n \in DOMAIN posts : f.msg = Answer(n) /\ posts[n] = f.session
    <3>1. CASE f \in sent
      BY <1>6, <3>1
    <3>2. CASE f \in flight
      BY <2>1, <3>2 DEF FlightInv
    <3>3. QED
      BY <1>1, <3>1, <3>2
  <2>3. QED
    BY <1>1, <1>2, <2>2 DEF FlightInv
<1>10. OneAnswerInv'
  <2>1. \A x \in Created : /\ OnceIn(Messages, received'[x], queue'[x])
                           /\ HeldBy(x)' \subseteq HeldBy(x)
    BY <1>1 DEF IInv, OneAnswerInv, HeldBy
  <2>2. QED
    BY <1>1, <1>2, <1>6, <1>7, <2>1, OneAnswerStep DEF IInv
<1>11. UpdateInv'
  <2>1. UpdateInv
    BY DEF IInv
  <2>2. \A x \in Created : HeldBy(x)' = HeldBy(x)
    BY <1>1 DEF HeldBy
  <2>3. \A x \in Created : Update(k) \notin HeldBy(x)
    BY <1>6a, <2>1 DEF UpdateInv
  <2>4. \A f \in flight : f.session = NoSession => f.msg # Update(k)
    BY <1>6a, <2>1, AnswerIs DEF UpdateInv
  <2>5. ASSUME NEW f \in flight', f.session = NoSession
        PROVE  /\ \E l \in DOMAIN audience' : f.msg = Update(l)
               /\ \A x \in Created : Owner(x) = f.to => f.msg \notin HeldBy(x)'
               /\ \A g \in flight' : (g.session = NoSession /\ g.to = f.to /\ g.msg = f.msg) => g = f
    <3>1. CASE f \in sent
      <4>1. f.msg = Update(k) /\ \E l \in DOMAIN audience' : f.msg = Update(l)
        BY <1>6, <1>6a, <3>1
      <4>2. \A g \in flight' : (g.session = NoSession /\ g.to = f.to /\ g.msg = f.msg) => g = f
        BY <1>1, <1>6, <2>4, <3>1, <4>1
      <4>3. QED
        BY <2>2, <2>3, <4>1, <4>2
    <3>2. CASE f \in flight
      <4>1. f.msg # Update(k)
        BY <2>4, <2>5, <3>2
      <4>2. \A g \in sent : g.msg # f.msg
        BY <1>6, <4>1
      <4>3. QED
        BY <1>1, <1>6a, <2>1, <2>2, <2>5, <3>2, <4>2 DEF UpdateInv
    <3>3. QED
      BY <1>1, <3>1, <3>2
  <2>6. QED
    BY <1>2, <1>6a, <2>1, <2>2, <2>5 DEF UpdateInv
<1>12. QED
  BY <1>7, <1>8, <1>9, <1>10, <1>11 DEF IInv

\* A message that arrives is an answer for its session, or an update for those
\* that subscribed.
LEMMA ArriveStep == ASSUME IInv, NEW f \in flight, Arrive(f) PROVE IInv'
<1>1. /\ flight' = flight \ {f}
      /\ UNCHANGED <<active, registered, opening, streams, clients, received, current, subs,
                     jobs, server, posts, audience>>
  BY DEF Arrive
<1>2. FlightInv /\ OneAnswerInv
  BY DEF IInv
<1>3. CASE f.session # NoSession
  <2>1. PushTo({f.session}, f.msg)
    BY <1>3 DEF Arrive
  <2>2. PICK n \in DOMAIN posts : f.msg = Answer(n) /\ posts[n] = f.session
    BY <1>2, <1>3 DEF FlightInv
  <2>4. f.msg \in Answers
    <3>1. n \in Nat
      BY LenProperties DEF IInv, DispatchInv
    <3>2. QED
      BY <2>2, <3>1, AnswerIs
  <2>5. \A x \in Created : Answer(n) \notin HeldBy(x)
    BY <1>2, <2>2, <2>4 DEF OneAnswerInv
  <2>6. \A k \in jobs' : k \in jobs /\ k.n # n
    BY <1>1, <1>2, <2>2 DEF OneAnswerInv
  <2>7. \A g \in flight' : g \in flight /\ g.msg # Answer(n)
    BY <1>1, <1>2, <2>2, <2>4 DEF OneAnswerInv
  <2>8. PushTo({posts[n]}, Answer(n))
    BY <2>1, <2>2
  <2>9. QED
    BY <1>1, <2>5, <2>6, <2>7, <2>8, AnswerPushed
<1>4. CASE f.session = NoSession
  <2> DEFINE ids == {id \in Created : Owner(id) = f.to /\ <<f.uri, id>> \in subs[f.to]}
  <2>1. PushTo(ids, f.msg)
    BY <1>4 DEF Arrive
  <2>2. \A id \in ids : Owner(id) = f.to
    OBVIOUS
  <2> HIDE DEF ids
  <2>3. QED
    BY <1>1, <1>4, <2>1, <2>2, UpdatePushed
<1>5. QED
  BY <1>3, <1>4
-----------------------------------------------------------------------------
(* The streams and stop.                                                   *)

LEMMA RefillStep == ASSUME IInv, NEW id \in Created, Refill(id) PROVE IInv'
<1>1. /\ queue[id].granted # <<>> /\ queue' = [queue EXCEPT ![id] = Refilled(queue[id])]
      /\ UNCHANGED <<active, registered, opening, streams, clients, received, overrun, current,
                     subs, jobs, flight, server, posts, audience>>
  BY DEF Refill
<1>2. /\ queue \in [Created -> QueueOf(Messages)] /\ received[id] \in Seq(Messages)
      /\ OnceIn(Messages, received[id], queue[id])
  BY DEF IInv, SessionInv, OneAnswerInv
<1>3. /\ Refilled(queue[id]) \in QueueOf(Messages)
      /\ OnceIn(Messages, received[id], Refilled(queue[id]))
      /\ Held(received[id], Refilled(queue[id])) \subseteq Held(received[id], queue[id])
  <2> DEFINE A == Messages
             S == Messages
             r == received[id]
             q == queue[id]
  <2>1. r \in Seq(S) /\ q \in QueueOf(S) /\ q.granted # <<>> /\ OnceIn(A, r, q)
    BY <1>1, <1>2
  <2> HIDE DEF A, S, r, q
  <2>2. Refilled(q) \in QueueOf(S) /\ OnceIn(A, r, Refilled(q)) /\ Held(r, Refilled(q)) \subseteq Held(r, q)
    BY <2>1, RefilledType, RefilledOnce
  <2>3. QED
    BY <2>2 DEF A, S, r, q
<1>4. Created' = Created
  BY <1>1 DEF Created
<1>5. queue' \in [Created -> QueueOf(Messages)] /\ queue'[id] = Refilled(queue[id])
      /\ \A x \in Created \ {id} : queue'[x] = queue[x]
  BY <1>1, <1>2, <1>3
<1>6. SessionInv' /\ ShardInv'
  BY <1>1, <1>4, <1>5 DEF IInv, SessionInv, ShardInv, Ids
<1>7. \A x \in Created : /\ OnceIn(Messages, received'[x], queue'[x])
                         /\ HeldBy(x)' \subseteq HeldBy(x)
  BY <1>1, <1>3, <1>5 DEF IInv, OneAnswerInv, HeldBy
<1>8. QED
  BY <1>1, <1>4, <1>6, <1>7, SessionStep

\* What a pop makes of a session, whether its message is read or lost.
LEMMA PopStep ==
    ASSUME IInv, NEW id \in Created, queue[id].messages # <<>>
    PROVE  LET h == Head(queue[id].messages)
               r == received[id]
               q == queue[id]
           IN  /\ Pop(q) \in QueueOf(Messages) /\ Append(r, h) \in Seq(Messages)
               /\ OnceIn(Messages, Append(r, h), Pop(q)) /\ Held(Append(r, h), Pop(q)) \subseteq HeldBy(id)
               /\ OnceIn(Messages, r, Pop(q)) /\ Held(r, Pop(q)) \subseteq HeldBy(id)
<1> DEFINE A == Messages
           S == Messages
           r == received[id]
           q == queue[id]
<1>1. r \in Seq(S) /\ q \in QueueOf(S) /\ q.messages # <<>> /\ OnceIn(A, r, q)
  BY DEF IInv, SessionInv, OneAnswerInv
<1>2. HeldBy(id) = Held(r, q)
  BY DEF HeldBy
<1> HIDE DEF A, S, r, q
<1>3. Pop(q) \in QueueOf(S) /\ Head(q.messages) \in S
  BY <1>1, PopType
<1>4. Append(r, Head(q.messages)) \in Seq(S)
  BY <1>1, <1>3, AppendProperties
<1>5. /\ OnceIn(A, Append(r, Head(q.messages)), Pop(q))
      /\ Held(Append(r, Head(q.messages)), Pop(q)) \subseteq Held(r, q)
      /\ OnceIn(A, r, Pop(q)) /\ Held(r, Pop(q)) \subseteq Held(r, q)
  BY <1>1, PopOnce
<1>6. QED
  BY <1>2, <1>3, <1>4, <1>5 DEF A, S, r, q

LEMMA DeliverStep == ASSUME IInv, NEW id \in Created, Deliver(id) PROVE IInv'
<1> DEFINE h == Head(queue[id].messages)
<1>1. /\ queue[id].messages # <<>>
      /\ received' = [received EXCEPT ![id] = Append(received[id], h)]
      /\ queue' = [queue EXCEPT ![id] = Pop(queue[id])]
      /\ UNCHANGED <<active, registered, opening, streams, clients, overrun, current, subs,
                     jobs, flight, server, posts, audience>>
  BY DEF Deliver
<1>2. queue \in [Created -> QueueOf(Messages)] /\ received \in [Created -> Seq(Messages)]
  BY DEF IInv, SessionInv
<1>3. /\ Pop(queue[id]) \in QueueOf(Messages) /\ Append(received[id], h) \in Seq(Messages)
      /\ OnceIn(Messages, Append(received[id], h), Pop(queue[id]))
      /\ Held(Append(received[id], h), Pop(queue[id])) \subseteq HeldBy(id)
  BY <1>1, PopStep
<1> HIDE DEF h
<1>4. Created' = Created
  BY <1>1 DEF Created
<1>5. /\ queue' \in [Created -> QueueOf(Messages)] /\ received' \in [Created -> Seq(Messages)]
      /\ queue'[id] = Pop(queue[id]) /\ received'[id] = Append(received[id], h)
      /\ \A x \in Created \ {id} : queue'[x] = queue[x] /\ received'[x] = received[x]
  BY <1>1, <1>2, <1>3
<1>6. SessionInv' /\ ShardInv'
  BY <1>1, <1>4, <1>5 DEF IInv, SessionInv, ShardInv, Ids
<1>7. \A x \in Created : /\ OnceIn(Messages, received'[x], queue'[x])
                         /\ HeldBy(x)' \subseteq HeldBy(x)
  <2>1. ASSUME NEW x \in Created
        PROVE  OnceIn(Messages, received'[x], queue'[x]) /\ Held(received'[x], queue'[x]) \subseteq HeldBy(x)
    <3>1. CASE x = id
      BY <1>3, <1>5, <3>1
    <3>2. CASE x # id
      BY <1>5, <3>2 DEF IInv, OneAnswerInv, HeldBy
    <3>3. QED
      BY <3>1, <3>2
  <2>2. QED
    BY <2>1 DEF HeldBy
<1>8. QED
  BY <1>1, <1>4, <1>6, <1>7, SessionStep

\* A session whose reply is written, or never will be, is given no message.
LEMMA StartStep ==
    ASSUME IInv, NEW id \in Created, StartStream(id) \/ StartFails(id) \/ ReplyLost(id)
    PROVE  IInv'
<1>1. /\ UNCHANGED <<queue, received, overrun, current, jobs, flight, server, posts, audience>>
      /\ opening' = opening \ {id} /\ registered' \subseteq registered
      /\ streams' \subseteq streams \cup {id} /\ clients' \subseteq clients \cup {id}
  BY DEF StartStream, StartFails, ReplyLost, EndStream
<1>2. Created' = Created
  BY <1>1 DEF Created
<1>3. SessionInv /\ ShardInv
  BY DEF IInv
<1>4. active' \in [Created -> BOOLEAN]
  BY <1>3 DEF StartStream, StartFails, ReplyLost, SessionInv
<1>5. subs' \in [Shards -> SUBSET (Uris \X Ids)]
  <2>1. subs' = subs \/ subs' = [subs EXCEPT ![Owner(id)] = {p \in subs[Owner(id)] : p[2] # id}]
    BY DEF StartStream, StartFails, ReplyLost, EndStream
  <2>2. QED
    BY <1>3, <2>1 DEF ShardInv
<1>6. SessionInv' /\ ShardInv'
  BY <1>1, <1>2, <1>3, <1>4, <1>5 DEF SessionInv, ShardInv, Ids
<1>7. \A x \in Created : /\ OnceIn(Messages, received'[x], queue'[x])
                         /\ HeldBy(x)' \subseteq HeldBy(x)
  BY <1>1 DEF IInv, OneAnswerInv, HeldBy
<1>8. QED
  BY <1>1, <1>2, <1>6, <1>7, SessionStep

\* The message whose write fails is gone.
LEMMA WriteFailsStep == ASSUME IInv, NEW id \in Created, WriteFails(id) PROVE IInv'
<1>1. /\ queue[id].messages # <<>>
      /\ active' = [active EXCEPT ![id] = FALSE]
      /\ queue' = [queue EXCEPT ![id] = Pop(queue[id])]
      /\ streams' = streams \ {id} /\ registered' = registered \ {id}
      /\ subs' = [subs EXCEPT ![Owner(id)] = {p \in subs[Owner(id)] : p[2] # id}]
      /\ UNCHANGED <<opening, clients, received, overrun, current, jobs, flight, server, posts,
                     audience>>
  BY DEF WriteFails, EndStream
<1>2. queue \in [Created -> QueueOf(Messages)] /\ active \in [Created -> BOOLEAN]
      /\ subs \in [Shards -> SUBSET (Uris \X Ids)]
  BY DEF IInv, SessionInv, ShardInv
<1>3. /\ Pop(queue[id]) \in QueueOf(Messages) /\ OnceIn(Messages, received[id], Pop(queue[id]))
      /\ Held(received[id], Pop(queue[id])) \subseteq HeldBy(id)
  BY <1>1, PopStep
<1>4. Created' = Created
  BY <1>1 DEF Created
<1>5. /\ queue' \in [Created -> QueueOf(Messages)] /\ active' \in [Created -> BOOLEAN]
      /\ subs' \in [Shards -> SUBSET (Uris \X Ids)]
      /\ queue'[id] = Pop(queue[id]) /\ \A x \in Created \ {id} : queue'[x] = queue[x]
  BY <1>1, <1>2, <1>3
<1>6. SessionInv' /\ ShardInv'
  BY <1>1, <1>4, <1>5 DEF IInv, SessionInv, ShardInv, Ids
<1>7. \A x \in Created : /\ OnceIn(Messages, received'[x], queue'[x])
                         /\ HeldBy(x)' \subseteq HeldBy(x)
  <2>1. ASSUME NEW x \in Created
        PROVE  OnceIn(Messages, received[x], queue'[x]) /\ Held(received[x], queue'[x]) \subseteq HeldBy(x)
    <3>1. CASE x = id
      BY <1>3, <1>5, <3>1
    <3>2. CASE x # id
      BY <1>5, <3>2 DEF IInv, OneAnswerInv, HeldBy
    <3>3. QED
      BY <3>1, <3>2
  <2>2. QED
    BY <1>1, <2>1 DEF HeldBy
<1>8. QED
  BY <1>1, <1>4, <1>6, <1>7, SessionStep

\* A client that leaves, and the two steps of stop, move no message.
LEMMA QuietStep ==
    ASSUME IInv, (\E id \in Created : Leave(id)) \/ StopTransports \/ StopShards
    PROVE  IInv'
<1>1. UNCHANGED <<queue, opening, streams, received, overrun, current, subs, jobs, flight,
                  posts, audience>>
  BY DEF Leave, StopTransports, StopShards
<1>2. Created' = Created
  BY <1>1 DEF Created
<1>3. SessionInv
  BY DEF IInv
<1>4. SessionInv'
  <2>1. CASE \E id \in Created : Leave(id)
    BY <1>1, <1>2, <1>3, <2>1 DEF Leave, SessionInv
  <2>2. CASE StopTransports
    BY <1>1, <1>2, <1>3, <2>2 DEF StopTransports, SessionInv
  <2>3. CASE StopShards
    <3>1. active' \in [Created -> BOOLEAN]
      BY <1>3, <2>3 DEF StopShards, SessionInv
    <3>2. QED
      BY <1>1, <1>2, <1>3, <2>3, <3>1 DEF StopShards, SessionInv
  <2>4. QED
    BY <2>1, <2>2, <2>3
<1>5. ShardInv'
  BY <1>1, <1>2 DEF Leave, StopTransports, StopShards, IInv, ShardInv, Ids
<1>6. \A x \in Created : /\ OnceIn(Messages, received'[x], queue'[x])
                         /\ HeldBy(x)' \subseteq HeldBy(x)
  BY <1>1 DEF IInv, OneAnswerInv, HeldBy
<1>7. QED
  BY <1>1, <1>2, <1>4, <1>5, <1>6, SessionStep

LEMMA NextInv == ASSUME IInv, [Next]_vars PROVE IInv'
<1>1. ASSUME UNCHANGED vars PROVE IInv'
  <2>1. UNCHANGED <<queue, active, registered, opening, streams, clients, received, overrun,
                    current, subs, jobs, flight, server, posts, audience>>
    BY <1>1 DEF vars, sessionVars
  <2>2. Created' = Created
    BY <2>1 DEF Created
  <2>3. SessionInv' /\ ShardInv'
    BY <2>1, <2>2 DEF IInv, SessionInv, ShardInv, Ids
  <2>4. \A x \in Created : /\ OnceIn(Messages, received'[x], queue'[x])
                           /\ HeldBy(x)' \subseteq HeldBy(x)
    BY <2>1 DEF IInv, OneAnswerInv, HeldBy
  <2>5. QED
    BY <2>1, <2>2, <2>3, <2>4, SessionStep
<1>2. ASSUME Next PROVE IInv'
  <2>1. ASSUME NEW s \in Shards, CreateSession(s) PROVE IInv'
    BY <2>1, CreateSessionStep
  <2>2. ASSUME NEW s \in Shards, NEW id \in Ids, NEW body \in Bodies,
               Post(s, id, body)
        PROVE  IInv'
    BY <2>2, PostStep
  <2>3. ASSUME NEW j \in jobs, Continue(j) PROVE IInv'
    BY <2>3, ContinueStep
  <2>4. ASSUME NEW j \in jobs, Respond(j) PROVE IInv'
    BY <2>4, RespondStep
  <2>5. ASSUME NEW u \in Uris, Broadcast(u) PROVE IInv'
    BY <2>5, BroadcastStep
  <2>6. ASSUME NEW f \in flight, Arrive(f) PROVE IInv'
    BY <2>6, ArriveStep
  <2>7. ASSUME NEW id \in Created, Refill(id) PROVE IInv'
    BY <2>7, RefillStep
  <2>8. ASSUME NEW id \in Created, Deliver(id) PROVE IInv'
    BY <2>8, DeliverStep
  <2>9. ASSUME NEW id \in Created, WriteFails(id) PROVE IInv'
    BY <2>9, WriteFailsStep
  <2>10. ASSUME (\E id \in Created : Leave(id)) \/ StopTransports \/ StopShards PROVE IInv'
    BY <2>10, QuietStep
  <2>11. ASSUME NEW id \in Created, StartStream(id) \/ StartFails(id) \/ ReplyLost(id) PROVE IInv'
    BY <2>11, StartStep
  <2>12. QED
    BY <1>2, <2>1, <2>2, <2>3, <2>4, <2>5, <2>6, <2>7, <2>8, <2>9, <2>10, <2>11 DEF Next
<1>3. QED
  BY <1>1, <1>2

\* The inductive invariant holds of every behaviour.
THEOREM Invariant == Spec => []IInv
<1>1. QED
  BY InitInv, NextInv, PTL DEF Spec
-----------------------------------------------------------------------------
LEMMA TypeFollows == IInv => TypeOK
<1> SUFFICES ASSUME IInv PROVE TypeOK
  OBVIOUS
<1>1. IdsInv /\ SessionInv /\ ShardInv /\ DispatchInv /\ FlightInv
  BY DEF IInv
<1>2. Created \subseteq SessionIds
  <2> SUFFICES ASSUME NEW id \in Created PROVE id \in SessionIds
    OBVIOUS
  <2>1. /\ Owner(id) \in Shards /\ id = <<Owner(id), id[2]>>
        /\ id[2] \in 1..Cardinality(Mine(Owner(id)))
        /\ IsFiniteSet(Mine(Owner(id))) /\ Cardinality(Mine(Owner(id))) <= MaxSessions
    BY <1>1 DEF IdsInv
  <2>2. Cardinality(Mine(Owner(id))) \in Nat
    BY <2>1, FS_CardinalityType
  <2>3. id[2] \in 1..MaxSessions
    BY <2>1, <2>2, McpShardAssumption
  <2>4. QED
    BY <2>1, <2>3 DEF SessionIds
<1>3. \A id \in Created :
         /\ queue[id].messages \in Seq(Messages) /\ queue[id].granted \in Seq(Messages)
         /\ queue[id].waiting \in Seq(Messages) /\ Len(queue[id].waiting) <= 1
  BY <1>1 DEF SessionInv, QueueOf
<1>4. \A j \in jobs : j.n \in DOMAIN posts /\ j.shard \in Shards
  BY <1>1 DEF DispatchInv, Job
<1>5. \A f \in flight : f.to \in Shards /\ f.msg \in Messages
  BY <1>1 DEF FlightInv
<1>6. QED
  BY <1>1, <1>2, <1>3, <1>4, <1>5 DEF TypeOK, SessionInv, ShardInv, DispatchInv

\* Every variable keeps its type: sessions are numbered per shard up to the
\* bound, and tables and subscriptions name only sessions that exist.
THEOREM TypeCorrect == Spec => []TypeOK
<1>1. QED
  BY Invariant, TypeFollows, PTL

LEMMA OwnAnswersFollow == IInv => OwnAnswersOnce
<1> SUFFICES ASSUME IInv, NEW id \in Created, NEW i \in DOMAIN received[id],
                    received[id][i].kind = "answer"
             PROVE  /\ posts[received[id][i].n] = id
                    /\ \A k \in DOMAIN received[id] : received[id][k] = received[id][i] => k = i
  BY DEF OwnAnswersOnce
<1> DEFINE m == received[id][i]
<1>1. m \in Messages
  <2>1. received[id] \in Seq(Messages)
    BY DEF IInv, SessionInv
  <2> HIDE DEF m
  <2>2. \A S : \A r \in Seq(S) : \A x \in DOMAIN r : r[x] \in S
    BY ElementOfSeq, LenProperties
  <2>3. QED
    BY <2>1, <2>2 DEF m
<1>2. m = Answer(m.n) /\ m.n \in Nat
  BY <1>1 DEF Messages, Answer
<1>3. m \in Answers /\ m \in HeldBy(id)
  BY <1>2 DEF Answers, HeldBy, Held, Elems
<1>4. OnceIn(Messages, received[id], queue[id]) /\ posts[m.n] = id
  BY <1>2, <1>3 DEF IInv, OneAnswerInv
<1>5. Once(Messages, received[id])
  BY <1>4 DEF OnceIn
<1>6. QED
  BY <1>1, <1>4, <1>5 DEF Once

\* Every answer a client reads is to a message posted with its own session, and
\* is read once: the one current session a shard keeps, and the hop between
\* cores, neither misroute nor double it, whatever else the shard dispatches.
THEOREM AnswersReadOnce == Spec => []OwnAnswersOnce
<1>1. QED
  BY Invariant, OwnAnswersFollow, PTL

LEMMA UpdatesFollow == IInv => UpdatesOnce
<1> SUFFICES ASSUME IInv, NEW id \in Created, NEW i \in DOMAIN received[id],
                    NEW k \in DOMAIN received[id], received[id][k] = received[id][i]
             PROVE  k = i
  BY DEF UpdatesOnce
<1>1. received[id] \in Seq(Messages) /\ Once(Messages, received[id])
  BY DEF IInv, SessionInv, OneAnswerInv, OnceIn
<1>2. \A S : \A q \in Seq(S) : \A x \in DOMAIN q : q[x] \in S
  BY ElementOfSeq, LenProperties
<1>3. received[id][i] \in Messages
  BY <1>1, <1>2
<1>4. QED
  BY <1>1, <1>3 DEF Once

\* A client reads the update of a broadcast once at most, although it comes to
\* every core and its session may be subscribed on all of them: only the core
\* that has the session pushes it, on the one arrival of the broadcast there.
THEOREM UpdatesReadOnce == Spec => []UpdatesOnce
<1>1. QED
  BY Invariant, UpdatesFollow, PTL
-----------------------------------------------------------------------------
(* No answer is lost.                                                      *)

\* A client that reads, or waits for the reply, has a session in the table,
\* active; nobody has posted with a session that is opening; no client reads once
\* the transports stop.
ReadersInv ==
    /\ clients \cup opening \subseteq registered /\ \A id \in clients \cup opening : active[id]
    /\ opening \cap (clients \cup streams) = {}
    /\ \A n \in DOMAIN posts : posts[n] \notin opening
    /\ server # "up" => clients = {}
KeptInv == ReadersInv /\ AnswerKept

\* After a step: the answer to message n is on its way or with its session, or
\* nobody can miss it.
Reached(n) ==
    \/ \E g \in flight' : g.msg = Answer(n)
    \/ posts[n] \notin clients' \/ posts[n] \in overrun'
    \/ Answer(n) \in Held(received'[posts[n]], queue'[posts[n]])

\* A step that takes no message from a session that is read, and brings on
\* every answer it touches, keeps them all.
LEMMA KeptStep ==
    ASSUME IInv, KeptInv, overrun \subseteq overrun',
           \A n \in DOMAIN posts : posts[n] \in clients' => posts[n] \in clients,
           \A n \in DOMAIN posts' : (n \in DOMAIN posts /\ posts'[n] = posts[n])
                                       \/ \E j \in jobs' : j.n = n,
           \A id \in (clients' \cap Created) \ overrun' :
               HeldBy(id) \subseteq Held(received'[id], queue'[id]),
           \A j \in jobs : (\E k \in jobs' : k.n = j.n) \/ Reached(j.n),
           \A f \in flight : f \in flight' \/ \A n \in DOMAIN posts : f.msg = Answer(n) => Reached(n)
    PROVE  AnswerKept'
<1> SUFFICES ASSUME NEW n \in DOMAIN posts', posts'[n] \in clients', posts'[n] \notin overrun'
             PROVE  \/ \E j \in jobs' : j.n = n
                    \/ \E f \in flight' : f.msg = Answer(n)
                    \/ Answer(n) \in Held(received'[posts'[n]], queue'[posts'[n]])
  BY DEF AnswerKept
<1>1. CASE \E j \in jobs' : j.n = n
  BY <1>1
<1>2. CASE n \in DOMAIN posts /\ posts'[n] = posts[n]
  <2>1. posts[n] \in clients /\ posts[n] \in Created
    BY <1>2 DEF IInv, SessionInv
  <2>2. posts[n] \notin overrun
    BY <1>2
  <2>3. CASE \E j \in jobs : j.n = n
    BY <1>2, <2>3 DEF Reached
  <2>4. CASE \E f \in flight : f.msg = Answer(n)
    BY <1>2, <2>4 DEF Reached
  <2>5. CASE Answer(n) \in HeldBy(posts[n])
    BY <1>2, <2>1, <2>5
  <2>6. QED
    BY <1>2, <2>1, <2>2, <2>3, <2>4, <2>5 DEF KeptInv, AnswerKept, HeldBy
<1>3. QED
  BY <1>1, <1>2

\* A push loses nothing in the sessions that it does not overrun, and is with
\* every session it is for that is in the table and active.
LEMMA PushToKeeps ==
    ASSUME SessionInv, NEW ids, NEW m \in Messages, PushTo(ids, m), received' = received
    PROVE  /\ overrun \subseteq overrun'
           /\ \A id \in Created \ overrun' :
                 /\ HeldBy(id) \subseteq Held(received'[id], queue'[id])
                 /\ (id \in ids /\ id \in registered /\ active[id])
                       => m \in Held(received'[id], queue'[id])
<1> DEFINE to == {id \in ids : id \in registered /\ active[id]}
<1>1. /\ queue' = [id \in Created |-> IF id \in to THEN PushEventually(queue[id], m) ELSE queue[id]]
      /\ overrun' = overrun \cup {id \in to : Overruns(queue[id])}
  BY DEF PushTo
<1>2. ASSUME NEW id \in Created \ overrun'
      PROVE  /\ HeldBy(id) \subseteq Held(received'[id], queue'[id])
             /\ id \in to => m \in Held(received'[id], queue'[id])
  <2>1. CASE id \in to
    <3>1. queue'[id] = PushEventually(queue[id], m) /\ ~ Overruns(queue[id])
      BY <1>1, <1>2, <2>1
    <3>2. Held(received[id], queue[id]) \cup {m} \subseteq Held(received[id], PushEventually(queue[id], m))
      <4> DEFINE S == Messages
                 r == received[id]
                 q == queue[id]
      <4>1. r \in Seq(S) /\ q \in QueueOf(S) /\ m \in S /\ ~ Overruns(q)
        BY <3>1 DEF SessionInv
      <4> HIDE DEF S, r, q
      <4>2. Held(r, q) \cup {m} \subseteq Held(r, PushEventually(q, m))
        BY <4>1, PushKeeps
      <4>3. QED
        BY <4>2 DEF r, q
    <3>3. QED
      BY <3>1, <3>2 DEF HeldBy
  <2>2. CASE id \notin to
    BY <1>1, <2>2 DEF HeldBy
  <2>3. QED
    BY <2>1, <2>2
<1>3. QED
  BY <1>1, <1>2

\* Opening, posting, the next request of a batch and a broadcast.
LEMMA CreateSessionKeeps == ASSUME IInv, KeptInv, NEW s \in Shards, CreateSession(s) PROVE KeptInv'
<1>0. PICK id : id = <<s, Cardinality(Mine(s)) + 1>>
  OBVIOUS
<1>1. /\ server = "up"
      /\ queue' = Extended(queue, id, EmptyQueue) /\ received' = Extended(received, id, <<>>)
      /\ active' = Extended(active, id, TRUE)
      /\ registered' = registered \cup {id} /\ opening' = opening \cup {id}
      /\ UNCHANGED <<streams, clients, overrun, jobs, flight, server, posts>>
  BY <1>0 DEF CreateSession, Mine
<1>2. Cardinality(Mine(s)) \in Nat
  BY FS_CardinalityType DEF IInv, IdsInv
<1>3. id \notin Created /\ id # NoSession /\ id # Unknown
  <2>1. Owner(id) = s /\ id[2] = Cardinality(Mine(s)) + 1
    BY <1>0 DEF Owner
  <2>2. id \in Created => id[2] \in 1..Cardinality(Mine(s))
    BY <2>1 DEF IInv, IdsInv
  <2>3. NoSession[2] = 0 /\ Unknown[2] = -1
    BY DEF NoSession, Unknown
  <2>4. QED
    BY <1>2, <2>1, <2>2, <2>3
<1>4. /\ active'[id] = TRUE
      /\ \A x \in Created : /\ queue'[x] = queue[x] /\ received'[x] = received[x]
                            /\ active'[x] = active[x]
  BY <1>1, <1>3 DEF Extended, Created, IInv, SessionInv
<1>5. \A n \in DOMAIN posts : posts[n] # id
  <2>1. posts \in Seq(Ids)
    BY DEF IInv, DispatchInv
  <2>2. \A n \in DOMAIN posts : posts[n] \in Ids
    BY <2>1, ElementOfSeq, LenProperties
  <2>3. id \notin Ids
    BY <1>3 DEF Ids
  <2>4. QED
    BY <2>2, <2>3
<1>6. ReadersInv'
  <2>1. clients \subseteq Created /\ streams \subseteq Created /\ opening \subseteq Created
    BY DEF IInv, SessionInv
  <2>2. ReadersInv
    BY DEF KeptInv
  <2>3. QED
    BY <1>1, <1>3, <1>4, <1>5, <2>1, <2>2 DEF ReadersInv
<1>7. AnswerKept'
  BY <1>1, <1>3, <1>4, KeptStep DEF HeldBy
<1>8. QED
  BY <1>6, <1>7 DEF KeptInv

\* Nobody has posted with the session whose reply is written.
LEMMA StartKeeps ==
    ASSUME IInv, KeptInv, NEW id \in Created, StartStream(id) \/ StartFails(id) \/ ReplyLost(id)
    PROVE  KeptInv'
<1>1. UNCHANGED <<queue, received, overrun, jobs, flight, server, posts>> /\ id \in opening
  BY DEF StartStream, StartFails, ReplyLost
<1>2. ReadersInv
  BY DEF KeptInv
<1>3. ReadersInv'
  <2>1. CASE StartStream(id)
    BY <1>2, <2>1 DEF StartStream, ReadersInv
  <2>2. CASE StartFails(id)
    <3>1. \A x \in Created : x # id => active'[x] = active[x]
      BY <2>2 DEF StartFails, IInv, SessionInv
    <3>2. clients \subseteq Created /\ opening \subseteq Created
      BY DEF IInv, SessionInv
    <3>3. QED
      BY <1>2, <2>2, <3>1, <3>2 DEF StartFails, EndStream, ReadersInv
  <2>3. CASE ReplyLost(id)
    BY <1>2, <2>3 DEF ReplyLost, ReadersInv
  <2>4. QED
    BY <2>1, <2>2, <2>3
<1>4. clients' \subseteq clients \cup {id}
  BY DEF StartStream, StartFails, ReplyLost
<1>5. \A n \in DOMAIN posts : posts[n] \in clients' => posts[n] \in clients
  BY <1>1, <1>2, <1>4 DEF ReadersInv
<1>6. AnswerKept'
  BY <1>1, <1>5, KeptStep, Zenon DEF HeldBy
<1>7. QED
  BY <1>3, <1>6 DEF KeptInv

LEMMA PostKeeps ==
    ASSUME IInv, KeptInv, NEW s \in Shards, NEW id \in Ids, NEW body \in Bodies,
           Post(s, id, body)
    PROVE  KeptInv'
<1> DEFINE job == [n |-> Len(posts) + 1, shard |-> s, session |-> id, rest |-> Tail(body)]
<1>1. /\ posts' = Append(posts, id) /\ jobs' = jobs \cup {job}
      /\ UNCHANGED <<queue, active, registered, opening, streams, clients, received, overrun,
                     flight, server>>
  BY DEF Post, sessionVars
<1>1a. id \notin opening
  BY DEF Post
<1>2. job.n = Len(posts) + 1
  OBVIOUS
<1> HIDE DEF job
<1>3a. \A n \in DOMAIN posts' : \/ (n \in DOMAIN posts /\ posts'[n] = posts[n])
                               \/ (n = Len(posts) + 1 /\ posts'[n] = id)
  <2>1. posts \in Seq(Ids)
    BY DEF IInv, DispatchInv
  <2>2. QED
    BY <1>1, <2>1, AppendProperties, LenProperties
<1>3. \A n \in DOMAIN posts' : (n \in DOMAIN posts /\ posts'[n] = posts[n]) \/ \E j \in jobs' : j.n = n
  BY <1>1, <1>2, <1>3a
<1>4. ReadersInv'
  <2>1. \A n \in DOMAIN posts' : posts'[n] \notin opening
    BY <1>1, <1>1a, <1>3a DEF KeptInv, ReadersInv
  <2>2. QED
    BY <1>1, <2>1 DEF KeptInv, ReadersInv
<1>5. AnswerKept'
  BY <1>1, <1>3, KeptStep DEF HeldBy
<1>6. QED
  BY <1>4, <1>5 DEF KeptInv

LEMMA ContinueKeeps == ASSUME IInv, KeptInv, NEW j \in jobs, Continue(j) PROVE KeptInv'
<1> DEFINE rest == [j EXCEPT !.rest = Tail(@)]
<1>1. /\ jobs' = (jobs \ {j}) \cup {rest}
      /\ UNCHANGED <<queue, active, registered, opening, streams, clients, received, overrun,
                     flight, server, posts>>
  BY DEF Continue, sessionVars
<1>2. rest.n = j.n
  BY DEF IInv, DispatchInv, Job
<1> HIDE DEF rest
<1>3. \A k \in jobs : \E l \in jobs' : l.n = k.n
  BY <1>1, <1>2
<1>4. ReadersInv'
  BY <1>1 DEF KeptInv, ReadersInv
<1>5. AnswerKept'
  BY <1>1, <1>3, KeptStep DEF HeldBy
<1>6. QED
  BY <1>4, <1>5 DEF KeptInv

LEMMA BroadcastKeeps == ASSUME IInv, KeptInv, NEW u \in Uris, Broadcast(u) PROVE KeptInv'
<1>1. /\ flight \subseteq flight'
      /\ UNCHANGED <<queue, active, registered, opening, streams, clients, received, overrun,
                     jobs, server, posts>>
  BY DEF Broadcast, sessionVars
<1>2. ReadersInv'
  BY <1>1 DEF KeptInv, ReadersInv
<1>3. AnswerKept'
  BY <1>1, KeptStep DEF HeldBy
<1>4. QED
  BY <1>2, <1>3 DEF KeptInv

\* The session of a message that is read is in the table and active, so the
\* answer that is pushed to it is with it, or overruns it.
LEMMA PushReaches ==
    ASSUME IInv, KeptInv, NEW n \in DOMAIN posts, PushTo({posts[n]}, Answer(n)),
           received' = received, clients' = clients
    PROVE  Reached(n)
<1> SUFFICES ASSUME posts[n] \in clients, posts[n] \notin overrun'
             PROVE  Answer(n) \in Held(received'[posts[n]], queue'[posts[n]])
  BY DEF Reached
<1>1. posts[n] \in Created /\ posts[n] \in registered /\ active[posts[n]]
  BY DEF IInv, SessionInv, KeptInv, ReadersInv
<1>2. Answer(n) \in Messages
  <2>1. n \in Nat
    BY LenProperties DEF IInv, DispatchInv
  <2>2. QED
    BY <2>1, AnswerIs
<1>3. SessionInv
  BY DEF IInv
<1>4. QED
  BY <1>1, <1>2, <1>3, PushToKeeps

LEMMA RespondKeeps == ASSUME IInv, KeptInv, NEW j \in jobs, Respond(j) PROVE KeptInv'
<1>1. /\ jobs' = jobs \ {j}
      /\ UNCHANGED <<active, registered, opening, streams, clients, received, server, posts>>
  BY DEF Respond
<1>2. j \in Job /\ j.n \in DOMAIN posts /\ posts[j.n] = j.session
  BY DEF IInv, DispatchInv
<1>3. ReadersInv'
  BY <1>1 DEF KeptInv, ReadersInv
<1>4. \A k \in jobs : k = j \/ \E l \in jobs' : l.n = k.n
  BY <1>1
<1>5. SessionInv /\ Answer(j.n) \in Messages
  BY <1>2, AnswerIs DEF IInv, Job
<1>6. AnswerKept'
  <2>1. CASE j.session = NoSession
    <3>1. UNCHANGED <<queue, overrun, flight>>
      BY <2>1 DEF Respond
    <3>2. posts[j.n] \notin clients
      <4>1. NoSession \notin Created
        BY NoSessionIsNone DEF IInv
      <4>2. QED
        BY <1>2, <1>5, <2>1, <4>1 DEF SessionInv
    <3>3. Reached(j.n)
      BY <1>1, <3>2 DEF Reached
    <3>4. QED
      BY <1>1, <1>4, <3>1, <3>3, KeptStep DEF HeldBy
  <2>2. CASE j.session # NoSession /\ Owner(j.session) = j.shard
    <3>1. PushTo({posts[j.n]}, Answer(j.n)) /\ UNCHANGED flight
      BY <1>2, <2>2 DEF Respond
    <3>2. Reached(j.n)
      BY <1>1, <1>2, <3>1, PushReaches
    <3>3. overrun \subseteq overrun'
          /\ \A id \in Created \ overrun' : HeldBy(id) \subseteq Held(received'[id], queue'[id])
      BY <1>1, <1>5, <3>1, PushToKeeps
    <3>4. QED
      BY <1>1, <1>4, <3>1, <3>2, <3>3, KeptStep
  <2>3. CASE j.session # NoSession /\ Owner(j.session) # j.shard
    <3> DEFINE sent == [to |-> Owner(j.session), session |-> j.session, uri |-> "none",
                        msg |-> Answer(j.n)]
    <3>1. flight' = flight \cup {sent} /\ UNCHANGED <<queue, overrun>>
      BY <2>3 DEF Respond
    <3>2. sent.msg = Answer(j.n)
      OBVIOUS
    <3> HIDE DEF sent
    <3>3. Reached(j.n)
      BY <3>1, <3>2 DEF Reached
    <3>4. QED
      BY <1>1, <1>4, <3>1, <3>3, KeptStep DEF HeldBy
  <2>4. QED
    BY <2>1, <2>2, <2>3
<1>7. QED
  BY <1>3, <1>6 DEF KeptInv

LEMMA ArriveKeeps == ASSUME IInv, KeptInv, NEW f \in flight, Arrive(f) PROVE KeptInv'
<1>1. /\ flight' = flight \ {f}
      /\ UNCHANGED <<active, registered, opening, streams, clients, received, jobs, server,
                     posts>>
  BY DEF Arrive
<1>2. ReadersInv'
  BY <1>1 DEF KeptInv, ReadersInv
<1>3. SessionInv /\ FlightInv /\ f.msg \in Messages
  BY DEF IInv, FlightInv
<1>4. PICK ids : PushTo(ids, f.msg)
  BY DEF Arrive
<1>5. overrun \subseteq overrun'
      /\ \A id \in Created \ overrun' : HeldBy(id) \subseteq Held(received'[id], queue'[id])
  BY <1>1, <1>3, <1>4, PushToKeeps
<1>6. ASSUME NEW n \in DOMAIN posts, f.msg = Answer(n) PROVE Reached(n)
  <2>1. n \in Nat /\ f.msg \in Answers
    <3>1. n \in Nat
      BY LenProperties DEF IInv, DispatchInv
    <3>2. QED
      BY <1>6, <3>1, AnswerIs
  <2>2. f.session # NoSession
    BY <1>3, <2>1 DEF FlightInv
  <2>3. PICK k \in DOMAIN posts : f.msg = Answer(k) /\ posts[k] = f.session
    BY <1>3, <2>2 DEF FlightInv
  <2>4. k = n
    BY <1>6, <2>3, AnswerIs
  <2>5. PushTo({f.session}, f.msg)
    BY <2>2 DEF Arrive
  <2>6. PushTo({posts[n]}, Answer(n))
    BY <1>6, <2>3, <2>4, <2>5
  <2>7. QED
    BY <1>1, <2>6, PushReaches
<1>7. AnswerKept'
  BY <1>1, <1>5, <1>6, KeptStep
<1>8. QED
  BY <1>2, <1>7 DEF KeptInv

LEMMA RefillKeeps == ASSUME IInv, KeptInv, NEW id \in Created, Refill(id) PROVE KeptInv'
<1>1. /\ queue[id].granted # <<>> /\ queue' = [queue EXCEPT ![id] = Refilled(queue[id])]
      /\ UNCHANGED <<active, registered, opening, streams, clients, received, overrun, jobs,
                     flight, server, posts>>
  BY DEF Refill
<1>2. queue \in [Created -> QueueOf(Messages)] /\ received[id] \in Seq(Messages)
  BY DEF IInv, SessionInv
<1>3. Held(received[id], queue[id]) \subseteq Held(received[id], Refilled(queue[id]))
  <2> DEFINE S == Messages
             r == received[id]
             q == queue[id]
  <2>1. r \in Seq(S) /\ q \in QueueOf(S) /\ q.granted # <<>>
    BY <1>1, <1>2
  <2> HIDE DEF S, r, q
  <2>2. Held(r, q) \subseteq Held(r, Refilled(q))
    BY <2>1, RefilledKeeps
  <2>3. QED
    BY <2>2 DEF r, q
<1>4. \A x \in Created : queue'[x] = IF x = id THEN Refilled(queue[id]) ELSE queue[x]
  BY <1>1, <1>2
<1>5. \A x \in Created : HeldBy(x) \subseteq Held(received'[x], queue'[x])
  BY <1>1, <1>3, <1>4 DEF HeldBy
<1>6. ReadersInv'
  BY <1>1 DEF KeptInv, ReadersInv
<1>7. AnswerKept'
  BY <1>1, <1>5, KeptStep
<1>8. QED
  BY <1>6, <1>7 DEF KeptInv

LEMMA DeliverKeeps == ASSUME IInv, KeptInv, NEW id \in Created, Deliver(id) PROVE KeptInv'
<1> DEFINE h == Head(queue[id].messages)
<1>1. /\ queue[id].messages # <<>>
      /\ received' = [received EXCEPT ![id] = Append(received[id], h)]
      /\ queue' = [queue EXCEPT ![id] = Pop(queue[id])]
      /\ UNCHANGED <<active, registered, opening, streams, clients, overrun, jobs, flight,
                     server, posts>>
  BY DEF Deliver
<1>2. queue \in [Created -> QueueOf(Messages)] /\ received \in [Created -> Seq(Messages)]
  BY DEF IInv, SessionInv
<1>3. Held(received[id], queue[id]) \subseteq Held(Append(received[id], h), Pop(queue[id]))
  <2> DEFINE S == Messages
             r == received[id]
             q == queue[id]
  <2>1. r \in Seq(S) /\ q \in QueueOf(S) /\ q.messages # <<>>
    BY <1>1, <1>2
  <2> HIDE DEF S, r, q
  <2>2. Held(r, q) \subseteq Held(Append(r, Head(q.messages)), Pop(q))
    BY <2>1, PopKeeps
  <2>3. QED
    BY <2>2 DEF r, q
<1> HIDE DEF h
<1>4. \A x \in Created : /\ queue'[x] = IF x = id THEN Pop(queue[id]) ELSE queue[x]
                         /\ received'[x] = IF x = id THEN Append(received[id], h) ELSE received[x]
  BY <1>1, <1>2
<1>5. \A x \in Created : HeldBy(x) \subseteq Held(received'[x], queue'[x])
  BY <1>3, <1>4 DEF HeldBy
<1>6. ReadersInv'
  BY <1>1 DEF KeptInv, ReadersInv
<1>7. AnswerKept'
  BY <1>1, <1>5, KeptStep
<1>8. QED
  BY <1>6, <1>7 DEF KeptInv

\* Only a session that nobody reads loses a message to a failed write.
LEMMA WriteFailsKeeps == ASSUME IInv, KeptInv, NEW id \in Created, WriteFails(id) PROVE KeptInv'
<1>1. /\ id \notin clients /\ id \in streams /\ streams' = streams \ {id}
      /\ active' = [active EXCEPT ![id] = FALSE]
      /\ queue' = [queue EXCEPT ![id] = Pop(queue[id])]
      /\ registered' = registered \ {id}
      /\ UNCHANGED <<opening, clients, received, overrun, jobs, flight, server, posts>>
  BY DEF WriteFails, EndStream
<1>2. queue \in [Created -> QueueOf(Messages)] /\ active \in [Created -> BOOLEAN]
  BY DEF IInv, SessionInv
<1>3. \A x \in Created \ {id} : queue'[x] = queue[x] /\ active'[x] = active[x]
  BY <1>1, <1>2
<1>4. \A x \in clients \cap Created : HeldBy(x) \subseteq Held(received'[x], queue'[x])
  BY <1>1, <1>3 DEF HeldBy
<1>5. ReadersInv'
  <2>1. clients \subseteq Created /\ opening \subseteq Created /\ id \notin opening
    BY <1>1 DEF IInv, SessionInv, KeptInv, ReadersInv
  <2>2. QED
    BY <1>1, <1>3, <2>1 DEF KeptInv, ReadersInv
<1>6. AnswerKept'
  BY <1>1, <1>4, KeptStep
<1>7. QED
  BY <1>5, <1>6 DEF KeptInv

LEMMA QuietKeeps ==
    ASSUME IInv, KeptInv, (\E id \in Created : Leave(id)) \/ StopTransports \/ StopShards
    PROVE  KeptInv'
<1>1. /\ UNCHANGED <<queue, received, overrun, jobs, flight, posts>>
      /\ clients' \subseteq clients
  BY DEF Leave, StopTransports, StopShards
<1>2. ReadersInv'
  <2>1. ReadersInv
    BY DEF KeptInv
  <2>2. CASE \E id \in Created : Leave(id)
    BY <1>1, <2>1, <2>2 DEF Leave, ReadersInv
  <2>3. CASE StopTransports
    BY <1>1, <2>1, <2>3 DEF StopTransports, ReadersInv
  <2>4. CASE StopShards
    BY <1>1, <2>1, <2>4 DEF StopShards, ReadersInv
  <2>5. QED
    BY <2>2, <2>3, <2>4
<1>3. AnswerKept'
  BY <1>1, KeptStep DEF HeldBy
<1>4. QED
  BY <1>2, <1>3 DEF KeptInv

LEMMA NextKeeps == ASSUME IInv, KeptInv, [Next]_vars PROVE KeptInv'
<1>1. ASSUME UNCHANGED vars PROVE KeptInv'
  <2>1. UNCHANGED <<queue, active, registered, opening, streams, clients, received, overrun,
                    jobs, flight, server, posts>>
    BY <1>1 DEF vars, sessionVars
  <2>2. ReadersInv'
    BY <2>1 DEF KeptInv, ReadersInv
  <2>3. AnswerKept'
    BY <2>1, KeptStep DEF HeldBy
  <2>4. QED
    BY <2>2, <2>3 DEF KeptInv
<1>2. ASSUME Next PROVE KeptInv'
  <2>1. ASSUME NEW s \in Shards, CreateSession(s) PROVE KeptInv'
    BY <2>1, CreateSessionKeeps
  <2>2. ASSUME NEW s \in Shards, NEW id \in Ids, NEW body \in Bodies,
               Post(s, id, body)
        PROVE  KeptInv'
    BY <2>2, PostKeeps
  <2>3. ASSUME NEW j \in jobs, Continue(j) PROVE KeptInv'
    BY <2>3, ContinueKeeps
  <2>4. ASSUME NEW j \in jobs, Respond(j) PROVE KeptInv'
    BY <2>4, RespondKeeps
  <2>5. ASSUME NEW u \in Uris, Broadcast(u) PROVE KeptInv'
    BY <2>5, BroadcastKeeps
  <2>6. ASSUME NEW f \in flight, Arrive(f) PROVE KeptInv'
    BY <2>6, ArriveKeeps
  <2>7. ASSUME NEW id \in Created, Refill(id) PROVE KeptInv'
    BY <2>7, RefillKeeps
  <2>8. ASSUME NEW id \in Created, Deliver(id) PROVE KeptInv'
    BY <2>8, DeliverKeeps
  <2>9. ASSUME NEW id \in Created, WriteFails(id) PROVE KeptInv'
    BY <2>9, WriteFailsKeeps
  <2>10. ASSUME (\E id \in Created : Leave(id)) \/ StopTransports \/ StopShards PROVE KeptInv'
    BY <2>10, QuietKeeps
  <2>11. ASSUME NEW id \in Created, StartStream(id) \/ StartFails(id) \/ ReplyLost(id)
         PROVE  KeptInv'
    BY <2>11, StartKeeps
  <2>12. QED
    BY <1>2, <2>1, <2>2, <2>3, <2>4, <2>5, <2>6, <2>7, <2>8, <2>9, <2>10, <2>11 DEF Next
<1>3. QED
  BY <1>1, <1>2

\* The safety half of AnswerArrives, for any number of cores, sessions and
\* messages: while its client reads, an answer is always somewhere on its way,
\* unless the session's queue lost a message to its limit.
THEOREM AnswersAreKept == Spec => []AnswerKept
<1>1. Init => KeptInv
  BY DEF Init, KeptInv, ReadersInv, AnswerKept
<1>2. QED
  BY <1>1, NextKeeps, Invariant, PTL DEF Spec, KeptInv
=============================================================================
