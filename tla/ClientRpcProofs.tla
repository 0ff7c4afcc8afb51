--------------------------- MODULE ClientRpcProofs ---------------------------
(***************************************************************************)
(* Proofs about ClientRpc, for every set of shards and sessions, every     *)
(* queue and all bounds: a promise is set once and by whom, an answer      *)
(* posted at home resolves its call, and stop leaves no call waiting.      *)
(***************************************************************************)
EXTENDS ClientRpc, SseQueueProofs

States == {"pushing", "waiting", "returned", "failed"}
Posts  == [call : Nat, at : Shards]
Setter == Posts \cup {ServerStopped}
Call   == [session : Sessions, id : Nat, held : BOOLEAN, by : Seq(Setter), state : States]

\* The sequence and function types of the state, with the bounds TypeOK needs.
CallsType == calls \in Seq(Call) /\ Len(calls) <= MaxCalls
ShardType ==
    /\ counter \in [Shards -> Nat] /\ pending \in [Shards -> SUBSET Nat]
    /\ \A s \in Shards : counter[s] <= Len(calls) /\ pending[s] \subseteq 1..counter[s]
QueueType ==
    /\ queue \in [Sessions -> QueueOf(0..Len(calls))]
    /\ heard \subseteq 1..Len(calls)
SessionType ==
    /\ open \subseteq Sessions /\ clients \subseteq Sessions
    /\ server \in {"up", "closing", "stopped"}
    /\ answers \in 0..MaxAnswers
    /\ errors \in [Sessions -> Nat] /\ \A id \in Sessions : errors[id] <= answers
    /\ posted \subseteq Posts

Types == CallsType /\ ShardType /\ QueueType /\ SessionType

\* The number of a call was given out by its shard, and to no other call.
NumbersUnique ==
    \A n \in DOMAIN calls :
        /\ calls[n].id \in 1..counter[Owner[calls[n].session]]
        /\ \A m \in DOMAIN calls :
              (Owner[calls[m].session] = Owner[calls[n].session] /\ calls[m].id = calls[n].id)
                  => m = n

\* The promise of a call is in the table exactly until it is set.
PendingUntilSet ==
    \A n \in DOMAIN calls :
        /\ Pending(n) <=> calls[n].by = <<>>
        /\ calls[n].state = "waiting" => calls[n].by = <<>>

\* An answer was posted to a call that exists.
SettersExist ==
    /\ \A n \in DOMAIN calls : \A i \in DOMAIN calls[n].by :
          calls[n].by[i] = ServerStopped \/ calls[n].by[i].call \in DOMAIN calls
    /\ \A a \in posted : a.call \in DOMAIN calls

StoppedIsEmpty == server = "stopped" => \A s \in Shards : pending[s] = {}

PromiseInv ==
    NumbersUnique /\ PendingUntilSet /\ SettersExist /\ StoppedIsEmpty /\ OwnAnswerOnce
        /\ AnswerAtHomeResolves
IInv == Types /\ PromiseInv
-----------------------------------------------------------------------------
\* A function on the indices of a sequence is a sequence.
LEMMA FunctionIsSeq ==
    ASSUME NEW S, NEW n \in Nat, NEW f \in [1..n -> S]
    PROVE  f \in Seq(S) /\ Len(f) = n /\ DOMAIN f = 1..n
<1>1. f \in Seq(S)
  BY SeqDef
<1>2. QED
  BY <1>1, LenProperties

\* Two lists of calls are the same but for promises and states.
SameCalls(cs, ds) ==
    /\ ds \in Seq(Call) /\ Len(ds) = Len(cs) /\ DOMAIN ds = DOMAIN cs
    /\ \A n \in DOMAIN cs : ds[n].session = cs[n].session /\ ds[n].id = cs[n].id

\* A failed push changes the state of its call and nothing else.
LEMMA PushFailedCalls ==
    ASSUME NEW cs \in Seq(Call), NEW ns
    PROVE  /\ SameCalls(cs, PushFailed(cs, ns))
           /\ \A n \in DOMAIN cs : /\ PushFailed(cs, ns)[n].by = cs[n].by
                                   /\ PushFailed(cs, ns)[n].state \in {cs[n].state, "failed"}
<1> DEFINE f == PushFailed(cs, ns)
<1>1. Len(cs) \in Nat /\ DOMAIN cs = 1..Len(cs) /\ \A n \in 1..Len(cs) : cs[n] \in Call
  BY LenProperties, ElementOfSeq
<1>2. \A n \in 1..Len(cs) :
         f[n] \in Call /\ f[n].session = cs[n].session /\ f[n].id = cs[n].id
            /\ f[n].by = cs[n].by /\ f[n].state \in {cs[n].state, "failed"}
  BY <1>1 DEF PushFailed, Call, States
<1>3. f \in [1..Len(cs) -> Call]
  BY <1>1, <1>2 DEF PushFailed
<1>4. f \in Seq(Call) /\ Len(f) = Len(cs) /\ DOMAIN f = 1..Len(cs)
  BY <1>1, <1>3, FunctionIsSeq
<1>5. QED
  BY <1>1, <1>2, <1>4 DEF SameCalls

\* Setting promises appends to who set them and wakes the calls that wait.
LEMMA PromiseSetCalls ==
    ASSUME NEW cs \in Seq(Call), NEW ns, NEW x \in Setter
    PROVE  /\ SameCalls(cs, PromiseSet(cs, ns, x))
           /\ \A n \in DOMAIN cs :
                 IF n \in ns
                 THEN /\ PromiseSet(cs, ns, x)[n].by = Append(cs[n].by, x)
                      /\ PromiseSet(cs, ns, x)[n].state # "waiting"
                 ELSE PromiseSet(cs, ns, x)[n] = cs[n]
<1> DEFINE f == PromiseSet(cs, ns, x)
<1>1. Len(cs) \in Nat /\ DOMAIN cs = 1..Len(cs) /\ \A n \in 1..Len(cs) : cs[n] \in Call
  BY LenProperties, ElementOfSeq
<1>2. ASSUME NEW n \in 1..Len(cs), n \in ns
      PROVE  /\ f[n] \in Call /\ f[n].session = cs[n].session /\ f[n].id = cs[n].id
             /\ f[n].by = Append(cs[n].by, x) /\ f[n].state # "waiting"
  <2>1. f[n] = [cs[n] EXCEPT !.by = Append(cs[n].by, x),
                             !.state = IF cs[n].state = "waiting" THEN "returned" ELSE cs[n].state]
    BY <1>1, <1>2 DEF PromiseSet, Call
  <2>2. cs[n] \in Call /\ Append(cs[n].by, x) \in Seq(Setter)
    BY <1>1 DEF Call
  <2>3. QED
    BY <2>1, <2>2 DEF Call, States
<1>3. ASSUME NEW n \in 1..Len(cs), n \notin ns
      PROVE  f[n] = cs[n] /\ f[n] \in Call
  BY <1>1, <1>3 DEF PromiseSet
<1>4. f \in [1..Len(cs) -> Call]
  BY <1>1, <1>2, <1>3 DEF PromiseSet
<1>5. f \in Seq(Call) /\ Len(f) = Len(cs) /\ DOMAIN f = 1..Len(cs)
  BY <1>1, <1>4, FunctionIsSeq
<1>6. QED
  BY <1>1, <1>2, <1>3, <1>5 DEF SameCalls
-----------------------------------------------------------------------------
\* The calls are those of before, with the same setters; a call waits only if
\* it did, or if its promise is not set.
SameSetters(cs, ds) ==
    /\ SameCalls(cs, ds)
    /\ \A n \in DOMAIN cs :
          /\ ds[n].by = cs[n].by
          /\ ds[n].state = "waiting" => cs[n].state = "waiting" \/ cs[n].by = <<>>

LEMMA PushToStep ==
    ASSUME NEW N \in Nat, queue \in [Sessions -> QueueOf(0..N)], NEW cs \in Seq(Call),
           NEW id \in Sessions, NEW m \in 0..N, PushTo(id, m, cs)
    PROVE  queue' \in [Sessions -> QueueOf(0..N)] /\ SameSetters(cs, calls')
<1>1. SameSetters(cs, cs)
  BY DEF SameSetters, SameCalls
<1>2. CASE id \notin open
  BY <1>1, <1>2 DEF PushTo
<1>3. CASE id \in open
  <2>1. queue[id] \in QueueOf(0..N)
    OBVIOUS
  <2>2. PushEventually(queue[id], m) \in QueueOf(0..N)
    BY <2>1, PushType
  <2>3. queue' \in [Sessions -> QueueOf(0..N)]
    BY <1>3, <2>2 DEF PushTo
  <2>4. SameSetters(cs, PushFailed(cs, WaitingIn(queue[id])))
    BY PushFailedCalls DEF SameSetters
  <2>5. QED
    BY <1>1, <1>3, <2>3, <2>4 DEF PushTo
<1>4. QED
  BY <1>2, <1>3

\* A step that sets no promise and makes no call keeps everything that is
\* known of the promises; an answer posted meanwhile is to a call that is set.
LEMMA QuietStep ==
    ASSUME IInv, SameSetters(calls, calls'), UNCHANGED <<counter, pending>>,
           server' = "stopped" => server = "stopped",
           \A a \in posted' \ posted :
              /\ a.call \in DOMAIN calls
              /\ a.at = Owner[calls[a.call].session] => calls[a.call].by # <<>>
    PROVE  CallsType' /\ ShardType' /\ PromiseInv'
<1>1. /\ DOMAIN calls' = DOMAIN calls /\ Len(calls') = Len(calls) /\ calls' \in Seq(Call)
      /\ \A n \in DOMAIN calls :
            /\ calls'[n].session = calls[n].session /\ calls'[n].id = calls[n].id
            /\ calls'[n].by = calls[n].by
            /\ calls'[n].state = "waiting" => calls[n].state = "waiting" \/ calls[n].by = <<>>
  BY DEF SameSetters, SameCalls
<1>2. CallsType' /\ ShardType'
  BY <1>1 DEF IInv, Types, CallsType, ShardType
<1>3. NumbersUnique'
  BY <1>1 DEF IInv, PromiseInv, NumbersUnique
<1>4. PendingUntilSet'
  BY <1>1 DEF IInv, PromiseInv, PendingUntilSet, Pending
<1>5. SettersExist'
  BY <1>1 DEF IInv, PromiseInv, SettersExist
<1>6. StoppedIsEmpty'
  BY DEF IInv, PromiseInv, StoppedIsEmpty
<1>7. OwnAnswerOnce'
  <2>1. ASSUME NEW n \in DOMAIN calls
        PROVE  Len(calls'[n].by) <= 1
    BY <1>1 DEF IInv, PromiseInv, OwnAnswerOnce
  <2>2. ASSUME NEW n \in DOMAIN calls, NEW i \in DOMAIN calls'[n].by
        PROVE  LET a == calls'[n].by[i]
               IN  \/ a \in {ServerStopped} \cup {[call |-> n, at |-> s] : s \in Shards}
                   \/ a.at # Owner[calls'[a.call].session]
    <3> DEFINE a == calls[n].by[i]
    <3>1. calls'[n].by[i] = a /\ i \in DOMAIN calls[n].by
      BY <1>1
    <3>2. a = ServerStopped \/ a.call \in DOMAIN calls
      BY <3>1 DEF IInv, PromiseInv, SettersExist
    <3>3. \/ a \in {ServerStopped} \cup {[call |-> n, at |-> s] : s \in Shards}
          \/ a.at # Owner[calls[a.call].session]
      BY <3>1 DEF IInv, PromiseInv, OwnAnswerOnce
    <3> HIDE DEF a
    <3>4. QED
      BY <1>1, <3>1, <3>2, <3>3
  <2>3. QED
    BY <1>1, <2>1, <2>2 DEF OwnAnswerOnce
<1>8. ASSUME NEW a \in posted', a.at = Owner[calls'[a.call].session]
      PROVE  calls'[a.call].by # <<>>
  <2>1. CASE a \in posted
    <3>1. a.call \in DOMAIN calls
      BY <2>1 DEF IInv, PromiseInv, SettersExist
    <3>2. calls[a.call].by # <<>>
      BY <1>1, <1>8, <2>1, <3>1 DEF IInv, PromiseInv, AnswerAtHomeResolves
    <3>3. QED
      BY <1>1, <3>1, <3>2
  <2>2. CASE a \notin posted
    BY <1>1, <1>8, <2>2
  <2>3. QED
    BY <2>1, <2>2
<1>9. AnswerAtHomeResolves'
  BY <1>8 DEF AnswerAtHomeResolves
<1>10. QED
  BY <1>2, <1>3, <1>4, <1>5, <1>6, <1>7, <1>9 DEF PromiseInv
-----------------------------------------------------------------------------
\* Setting the promises of some calls that are all pending, and taking exactly
\* their numbers off the tables, gives each of them its one setter.
LEMMA SetStep ==
    ASSUME IInv, NEW ns \in SUBSET DOMAIN calls, NEW x \in Setter,
           calls' = PromiseSet(calls, ns, x), UNCHANGED counter,
           pending' \in [Shards -> SUBSET Nat],
           \A s \in Shards : pending'[s] \subseteq pending[s],
           \A n \in DOMAIN calls :
              /\ n \in ns => calls[n].by = <<>>
              /\ calls[n].id \in pending'[Owner[calls[n].session]] <=> Pending(n) /\ n \notin ns,
           \A a \in posted' : a.call \in DOMAIN calls,
           x # ServerStopped =>
              /\ x.call \in DOMAIN calls
              /\ x.at = Owner[calls[x.call].session] => ns \subseteq {x.call}
    PROVE  /\ CallsType' /\ ShardType'
           /\ NumbersUnique' /\ PendingUntilSet' /\ SettersExist' /\ OwnAnswerOnce'
           /\ \A n \in DOMAIN calls : calls'[n].session = calls[n].session
           /\ \A n \in DOMAIN calls : calls'[n].by = IF n \in ns THEN <<x>> ELSE calls[n].by
<1>1. calls \in Seq(Call) /\ Len(calls) \in Nat /\ DOMAIN calls = 1..Len(calls)
      /\ \A n \in DOMAIN calls : calls[n] \in Call
  BY LenProperties, ElementOfSeq DEF IInv, Types, CallsType
<1>2. /\ DOMAIN calls' = DOMAIN calls /\ Len(calls') = Len(calls) /\ calls' \in Seq(Call)
      /\ \A n \in DOMAIN calls :
            /\ calls'[n].session = calls[n].session /\ calls'[n].id = calls[n].id
            /\ IF n \in ns THEN /\ calls'[n].by = Append(calls[n].by, x)
                                /\ calls'[n].state # "waiting"
               ELSE calls'[n] = calls[n]
  BY <1>1, PromiseSetCalls DEF SameCalls
<1>3. \A n \in ns : calls'[n].by = <<x>>
  BY <1>2
<1>4. CallsType' /\ ShardType'
  BY <1>2 DEF IInv, Types, CallsType, ShardType
<1>5. NumbersUnique'
  BY <1>2 DEF IInv, PromiseInv, NumbersUnique
<1>6. PendingUntilSet'
  <2> SUFFICES ASSUME NEW n \in DOMAIN calls
               PROVE  /\ Pending(n)' <=> calls'[n].by = <<>>
                      /\ calls'[n].state = "waiting" => calls'[n].by = <<>>
    BY <1>2 DEF PendingUntilSet
  <2>1. Pending(n)' <=> Pending(n) /\ n \notin ns
    BY <1>2 DEF Pending
  <2>2. <<x>> # <<>>
    OBVIOUS
  <2>3. QED
    BY <1>2, <1>3, <2>1, <2>2 DEF IInv, PromiseInv, PendingUntilSet
<1>7. SettersExist'
  <2>1. ASSUME NEW n \in DOMAIN calls, NEW i \in DOMAIN calls'[n].by
        PROVE  calls'[n].by[i] = ServerStopped \/ calls'[n].by[i].call \in DOMAIN calls
    <3>1. CASE n \in ns
      BY <1>3, <3>1, <2>1
    <3>2. CASE n \notin ns
      BY <1>2, <3>2, <2>1 DEF IInv, PromiseInv, SettersExist
    <3>3. QED
      BY <3>1, <3>2
  <2>2. QED
    BY <1>2, <2>1 DEF SettersExist
<1>8. OwnAnswerOnce'
  <2> DEFINE Fits(n, a) ==
               \/ a \in {ServerStopped} \cup {[call |-> n, at |-> s] : s \in Shards}
               \/ a.at # Owner[calls[a.call].session]
  <2>1. ASSUME NEW n \in DOMAIN calls, NEW i \in DOMAIN calls'[n].by
        PROVE  Fits(n, calls'[n].by[i]) /\ Len(calls'[n].by) <= 1
    <3>1. CASE n \in ns
      <4> DEFINE b == <<x>>
      <4>0. DOMAIN b = {1} /\ b[1] = x /\ Len(b) = 1
        OBVIOUS
      <4>1. calls'[n].by[i] = x /\ Len(calls'[n].by) = 1
        <5>1. calls'[n].by = b
          BY <1>3, <3>1
        <5> HIDE DEF b
        <5>2. QED
          BY <4>0, <5>1, <2>1
      <4>2. ASSUME x # ServerStopped, x.at = Owner[calls[x.call].session]
            PROVE  x = [call |-> n, at |-> x.at] /\ x.at \in Shards
        BY <3>1, <4>2 DEF Setter, Posts
      <4>3. QED
        BY <4>1, <4>2
    <3>2. CASE n \notin ns
      BY <1>2, <3>2, <2>1 DEF IInv, PromiseInv, OwnAnswerOnce
    <3>3. QED
      BY <3>1, <3>2
  <2>2. ASSUME NEW n \in DOMAIN calls
        PROVE  Len(calls'[n].by) <= 1
    BY <1>2, <1>3 DEF IInv, PromiseInv, OwnAnswerOnce
  <2>3. ASSUME NEW n \in DOMAIN calls, NEW i \in DOMAIN calls'[n].by
        PROVE  LET a == calls'[n].by[i]
               IN  \/ a \in {ServerStopped} \cup {[call |-> n, at |-> s] : s \in Shards}
                   \/ a.at # Owner[calls'[a.call].session]
    <3> DEFINE a == calls'[n].by[i]
    <3>1. a = ServerStopped \/ a.call \in DOMAIN calls
      BY <1>2, <1>7, <2>3 DEF SettersExist
    <3>2. Fits(n, a)
      BY <2>1, <2>3
    <3> HIDE DEF a
    <3>3. a \in {ServerStopped} \cup {[call |-> n, at |-> s] : s \in Shards}
             \/ a.at # Owner[calls'[a.call].session]
      BY <1>2, <3>1, <3>2
    <3>4. QED
      BY <3>3 DEF a
  <2>4. DOMAIN calls' = DOMAIN calls
    BY <1>2
  <2>5. QED
    BY <2>2, <2>3, <2>4, Zenon DEF OwnAnswerOnce
<1>9. QED
  BY <1>2, <1>3, <1>4, <1>5, <1>6, <1>7, <1>8
-----------------------------------------------------------------------------
LEMMA InitInv == Init => IInv
<1> SUFFICES ASSUME Init PROVE IInv
  OBVIOUS
<1>1. calls = <<>> /\ calls \in Seq(Call) /\ Len(calls) = 0 /\ DOMAIN calls = {}
  BY EmptySeq DEF Init
<1>2. CallsType
  BY <1>1, ClientRpcAssumption DEF CallsType
<1>3. ShardType
  BY <1>1 DEF ShardType, Init
<1>4. QueueType
  BY <1>1, EmptyQueueType DEF QueueType, Init
<1>5. SessionType
  BY ClientRpcAssumption DEF SessionType, Init
<1>6. PromiseInv
  BY <1>1 DEF PromiseInv, NumbersUnique, PendingUntilSet, SettersExist, StoppedIsEmpty,
              OwnAnswerOnce, AnswerAtHomeResolves, Init
<1>7. QED
  BY <1>2, <1>3, <1>4, <1>5, <1>6 DEF IInv, Types

\* What the steps use of the invariant.
LEMMA Shape ==
    ASSUME IInv
    PROVE  /\ calls \in Seq(Call) /\ Len(calls) \in Nat /\ DOMAIN calls = 1..Len(calls)
           /\ \A n \in DOMAIN calls : /\ calls[n] \in Call /\ Owner[calls[n].session] \in Shards
           /\ queue \in [Sessions -> QueueOf(0..Len(calls))]
<1>1. calls \in Seq(Call) /\ queue \in [Sessions -> QueueOf(0..Len(calls))]
  BY DEF IInv, Types, CallsType, QueueType
<1>2. Len(calls) \in Nat /\ DOMAIN calls = 1..Len(calls) /\ \A n \in DOMAIN calls : calls[n] \in Call
  BY <1>1, LenProperties, ElementOfSeq
<1>3. \A c \in Call : Owner[c.session] \in Shards
  BY ClientRpcAssumption DEF Call
<1>4. QED
  BY <1>1, <1>2, <1>3

\* The calls and queues of before, with one queue replaced by another.
LEMMA SameCallsSetters == ASSUME IInv PROVE SameSetters(calls, calls)
  BY Shape DEF SameSetters, SameCalls

LEMMA RefillInv ==
    ASSUME IInv, NEW id \in Sessions, Refill(id)
    PROVE  IInv'
<1> DEFINE n == Head(queue[id].granted)
<1>1. queue[id] \in QueueOf(0..Len(calls)) /\ queue[id].granted # <<>>
  BY Shape DEF Refill
<1>2. n \in 0..Len(calls) /\ Refilled(queue[id]) \in QueueOf(0..Len(calls))
  BY <1>1, RefilledType
<1> HIDE DEF n
<1>3. SameSetters(calls, calls')
  <2>1. CASE n = InvalidRequest
    BY <2>1, SameCallsSetters DEF Refill, n
  <2>2. CASE n # InvalidRequest
    <3> DEFINE st == IF calls[n].by = <<>> THEN "waiting" ELSE "returned"
    <3>1. n \in DOMAIN calls
      BY <1>2, <2>2, Shape DEF InvalidRequest
    <3>2. calls' = [calls EXCEPT ![n] = [calls[n] EXCEPT !.state = st]]
      BY <2>2, <3>1 DEF Refill, n
    <3>3. st \in States
      BY DEF States
    <3>4. [calls[n] EXCEPT !.state = st] \in Call
      BY <3>1, <3>3, Shape DEF Call
    <3>5. calls' \in Seq(Call) /\ Len(calls') = Len(calls) /\ DOMAIN calls' = DOMAIN calls
      BY <3>1, <3>2, <3>4, Shape
    <3>6. ASSUME NEW m \in DOMAIN calls
          PROVE  /\ calls'[m].session = calls[m].session /\ calls'[m].id = calls[m].id
                 /\ calls'[m].by = calls[m].by
                 /\ calls'[m].state = "waiting" => calls[m].state = "waiting" \/ calls[m].by = <<>>
      BY <3>2, Shape DEF Call
    <3>7. QED
      BY <3>5, <3>6 DEF SameSetters, SameCalls
  <2>3. QED
    BY <2>1, <2>2
<1>4. Len(calls') = Len(calls)
  BY <1>3 DEF SameSetters, SameCalls
<1>5. QueueType' /\ SessionType'
  BY <1>2, <1>4, Shape DEF Refill, IInv, Types, QueueType, SessionType
<1>6. CallsType' /\ ShardType' /\ PromiseInv'
  BY <1>3, QuietStep DEF Refill
<1>7. QED
  BY <1>5, <1>6 DEF IInv, Types

LEMMA DeliverInv ==
    ASSUME IInv, NEW id \in Sessions, Deliver(id)
    PROVE  IInv'
<1>1. queue[id] \in QueueOf(0..Len(calls)) /\ queue[id].messages # <<>>
  BY Shape DEF Deliver
<1>2. Pop(queue[id]) \in QueueOf(0..Len(calls)) /\ Head(queue[id].messages) \in 0..Len(calls)
  BY <1>1, PopType
<1>3. heard' \subseteq 1..Len(calls)
  <2>1. {Head(queue[id].messages)} \ {InvalidRequest} \subseteq 1..Len(calls)
    BY <1>2, Shape DEF InvalidRequest
  <2>2. QED
    BY <2>1 DEF Deliver, IInv, Types, QueueType
<1>4. QueueType' /\ SessionType'
  BY <1>2, <1>3, Shape DEF Deliver, IInv, Types, QueueType, SessionType
<1>5. CallsType' /\ ShardType' /\ PromiseInv'
  BY SameCallsSetters, QuietStep DEF Deliver
<1>6. QED
  BY <1>4, <1>5 DEF IInv, Types

LEMMA WriteFailsInv ==
    ASSUME IInv, NEW id \in Sessions, WriteFails(id)
    PROVE  IInv'
<1>1. SameSetters(calls, calls')
  BY Shape, PushFailedCalls DEF WriteFails, SameSetters
<1>2. Len(calls') = Len(calls)
  BY <1>1 DEF SameSetters, SameCalls
<1>3. QueueType' /\ SessionType'
  <2> DEFINE S == 0..Len(calls)
             dead == [EmptyQueue EXCEPT !.granted = Pop(queue[id]).granted]
  <2>1. queue[id] \in QueueOf(S) /\ queue[id].messages # <<>>
    BY Shape DEF WriteFails
  <2>2. dead \in QueueOf(S)
    <3> HIDE DEF S
    <3>1. Pop(queue[id]) \in QueueOf(S)
      BY <2>1, PopType
    <3>2. Pop(queue[id]).granted \in Seq(S)
      BY <3>1 DEF QueueOf
    <3>3. <<>> \in Seq(S) /\ Len(<<>>) <= 1
      BY EmptySeq
    <3>4. dead = [messages |-> <<>>, waiting |-> <<>>, granted |-> Pop(queue[id]).granted]
      BY DEF EmptyQueue
    <3>5. QED
      BY <3>2, <3>3, <3>4 DEF QueueOf
  <2>3. /\ queue' = [queue EXCEPT ![id] = dead] /\ open' = open \ {id}
        /\ UNCHANGED <<clients, errors, server, heard, posted, answers>>
    BY DEF WriteFails
  <2> HIDE DEF dead
  <2>4. QED
    BY <1>2, <2>2, <2>3, Shape DEF IInv, Types, QueueType, SessionType
<1>4. CallsType' /\ ShardType' /\ PromiseInv'
  BY <1>1, QuietStep DEF WriteFails
<1>5. QED
  BY <1>3, <1>4 DEF IInv, Types

LEMMA ErrorArrivesInv ==
    ASSUME IInv, NEW id \in Sessions, ErrorArrives(id)
    PROVE  IInv'
<1>1. queue' \in [Sessions -> QueueOf(0..Len(calls))] /\ SameSetters(calls, calls')
  BY Shape, PushToStep DEF ErrorArrives, InvalidRequest
<1>2. Len(calls') = Len(calls)
  BY <1>1 DEF SameSetters, SameCalls
<1>3. QueueType' /\ SessionType'
  <2>1. errors' \in [Sessions -> Nat] /\ \A i \in Sessions : errors'[i] <= answers
    BY DEF ErrorArrives, IInv, Types, SessionType
  <2>2. QED
    BY <1>1, <1>2, <2>1 DEF ErrorArrives, IInv, Types, QueueType, SessionType
<1>4. CallsType' /\ ShardType' /\ PromiseInv'
  BY <1>1, QuietStep DEF ErrorArrives
<1>5. QED
  BY <1>3, <1>4 DEF IInv, Types

\* An answer goes to the call of its number on the shard that got it, which is
\* the call it answers when that is the call's own shard.
LEMMA HandleClientResponseInv ==
    ASSUME IInv, NEW n \in DOMAIN calls, NEW s \in Shards, HandleClientResponse(n, s),
           posted' = posted \cup {[call |-> n, at |-> s]}, UNCHANGED <<counter, server>>
    PROVE  CallsType' /\ ShardType' /\ PromiseInv'
<1> DEFINE ns == Numbered(s, calls[n].id)
           x  == [call |-> n, at |-> s]
<1>1. x \in Setter /\ x.call = n /\ x.at = s
  BY Shape DEF Setter, Posts
<1>2. \A m \in DOMAIN calls :
         m \in ns <=> Owner[calls[m].session] = s /\ calls[m].id = calls[n].id
  BY DEF Numbered
<1>3. s = Owner[calls[n].session] => ns \subseteq {n}
  BY DEF Numbered, IInv, PromiseInv, NumbersUnique
<1>4. /\ pending' = [pending EXCEPT ![s] = @ \ {calls[n].id}] /\ pending \in [Shards -> SUBSET Nat]
      /\ calls[n].id \in pending[s]
  BY DEF HandleClientResponse, IInv, Types, ShardType
<1>5. \A a \in posted' : a.call \in DOMAIN calls
  BY <1>1 DEF IInv, PromiseInv, SettersExist
<1>6. ASSUME NEW m \in DOMAIN calls
      PROVE  /\ m \in ns => calls[m].by = <<>>
             /\ calls[m].id \in pending'[Owner[calls[m].session]] <=> Pending(m) /\ m \notin ns
  <2>1. Owner[calls[m].session] \in Shards /\ (Pending(m) <=> calls[m].by = <<>>)
    BY Shape DEF IInv, PromiseInv, PendingUntilSet
  <2>2. QED
    BY <1>2, <1>4, <2>1 DEF Pending
<1>7. \A m \in DOMAIN calls : calls[m].id \in Nat
  BY Shape DEF Call
<1>8. /\ ns \in SUBSET DOMAIN calls /\ pending' \in [Shards -> SUBSET Nat]
      /\ \A t \in Shards : pending'[t] \subseteq pending[t]
      /\ calls' = PromiseSet(calls, ns, x)
  BY <1>4 DEF Numbered, HandleClientResponse
<1>9. x # ServerStopped =>
         /\ x.call \in DOMAIN calls
         /\ x.at = Owner[calls[x.call].session] => ns \subseteq {x.call}
  BY <1>1, <1>3
<1>own. n \in ns <=> s = Owner[calls[n].session]
  BY <1>2
<1> HIDE DEF ns, x
<1>10. /\ CallsType' /\ ShardType'
       /\ NumbersUnique' /\ PendingUntilSet' /\ SettersExist' /\ OwnAnswerOnce'
       /\ \A m \in DOMAIN calls : calls'[m].session = calls[m].session
       /\ \A m \in DOMAIN calls : calls'[m].by = IF m \in ns THEN <<x>> ELSE calls[m].by
  BY <1>1, <1>5, <1>6, <1>8, <1>9, SetStep
<1>11. StoppedIsEmpty'
  BY <1>4, <1>8 DEF IInv, PromiseInv, StoppedIsEmpty
<1>12. <<x>> # <<>>
  OBVIOUS
<1>13. AnswerAtHomeResolves'
  <2>1. ASSUME NEW a \in posted', a.at = Owner[calls[a.call].session]
        PROVE  calls'[a.call].by # <<>>
    <3>1. CASE a \in posted
      BY <1>5, <1>10, <1>12, <2>1, <3>1 DEF IInv, PromiseInv, AnswerAtHomeResolves
    <3>2. CASE a = x
      BY <1>1, <1>10, <1>12, <1>own, <2>1, <3>2
    <3>3. QED
      BY <3>1, <3>2 DEF x
  <2>2. QED
    BY <1>5, <1>10, <2>1 DEF AnswerAtHomeResolves
<1>14. QED
  BY <1>10, <1>11, <1>13 DEF PromiseInv

LEMMA PostAnswerInv ==
    ASSUME IInv, NEW n \in heard, NEW s \in Shards, PostAnswer(n, s)
    PROVE  IInv'
<1>1. n \in DOMAIN calls
  BY Shape DEF IInv, Types, QueueType
<1>2. answers' \in 0..MaxAnswers /\ answers' = answers + 1 /\ answers \in Nat
  BY ClientRpcAssumption DEF PostAnswer, IInv, Types, SessionType
<1>3. posted' \subseteq Posts /\ posted' = posted \cup {[call |-> n, at |-> s]}
  BY <1>1, Shape DEF PostAnswer, IInv, Types, SessionType, Posts
<1>4. CASE HandleClientResponse(n, s)
  <2>1. CallsType' /\ ShardType' /\ PromiseInv'
    BY <1>1, <1>3, <1>4, HandleClientResponseInv DEF PostAnswer
  <2>2. Len(calls') = Len(calls)
    BY <1>1, <1>4, Shape, PromiseSetCalls DEF HandleClientResponse, SameCalls, Setter, Posts
  <2>3. QueueType' /\ SessionType'
    BY <1>2, <1>3, <1>4, <2>2
       DEF HandleClientResponse, PostAnswer, IInv, Types, QueueType, SessionType
  <2>4. QED
    BY <2>1, <2>3 DEF IInv, Types
<1>5. CASE NotPending(n, s)
  <2> DEFINE id == calls[n].session
  <2>1. id \in Sessions
    BY <1>1, Shape DEF Call
  <2>2. queue' \in [Sessions -> QueueOf(0..Len(calls))] /\ SameSetters(calls, calls')
    <3>1. CASE Owner[id] = s
      BY <1>5, <2>1, <3>1, Shape, PushToStep DEF NotPending, InvalidRequest
    <3>2. CASE Owner[id] # s
      BY <1>5, <3>2, Shape, SameCallsSetters DEF NotPending
    <3>3. QED
      BY <3>1, <3>2
  <2>3. errors' \in [Sessions -> Nat] /\ \A i \in Sessions : errors'[i] <= answers + 1
    BY <1>2, <1>5, <2>1 DEF NotPending, IInv, Types, SessionType
  <2>4. s = Owner[id] => calls[n].by # <<>>
    BY <1>1, <1>5 DEF NotPending, IInv, PromiseInv, PendingUntilSet, Pending
  <2>5. CallsType' /\ ShardType' /\ PromiseInv'
    <3>1. UNCHANGED <<counter, pending, server>>
      BY <1>5 DEF PostAnswer, NotPending
    <3>2. \A a \in posted' \ posted :
             /\ a.call \in DOMAIN calls
             /\ a.at = Owner[calls[a.call].session] => calls[a.call].by # <<>>
      BY <1>1, <1>3, <2>4
    <3>3. QED
      BY <2>2, <3>1, <3>2, QuietStep
  <2>6. Len(calls') = Len(calls)
    BY <2>2 DEF SameSetters, SameCalls
  <2>7. QueueType' /\ SessionType'
    BY <1>2, <1>3, <2>2, <2>3, <2>6 DEF PostAnswer, IInv, Types, QueueType, SessionType
  <2>8. QED
    BY <2>5, <2>7 DEF IInv, Types
<1>6. QED
  BY <1>4, <1>5 DEF PostAnswer
-----------------------------------------------------------------------------
\* A new request takes a number its shard has not given out.
LEMMA SendRequestInv ==
    ASSUME IInv, NEW id \in Sessions, NEW held \in BOOLEAN, SendRequest(id, held)
    PROVE  IInv'
<1> DEFINE s  == Owner[id]
           n  == Len(calls) + 1
           st == IF id \in open /\ Full(queue[id]) THEN "pushing" ELSE "waiting"
           c  == [session |-> id, id |-> NewId(s), held |-> held, by |-> <<>>, state |-> st]
           cs == Append(calls, c)
<1>1. s \in Shards /\ counter[s] \in Nat /\ NewId(s) \in Nat /\ NewId(s) = counter[s] + 1
  BY ClientRpcAssumption DEF IInv, Types, ShardType, NewId
<1>2. /\ counter' = [counter EXCEPT ![s] = NewId(s)]
      /\ pending' = [pending EXCEPT ![s] = @ \cup {NewId(s)}]
      /\ PushTo(id, n, cs)
      /\ UNCHANGED <<open, clients, errors, server, heard, posted, answers>>
      /\ Len(calls) < MaxCalls /\ server = "up"
  BY DEF SendRequest
<1>3. /\ c \in Call /\ c.session = id /\ c.id = NewId(s) /\ c.by = <<>>
  BY <1>1 DEF Call, States
<1>4. n \in Nat
  BY Shape
<1> HIDE DEF c
<1>5. /\ cs \in Seq(Call) /\ Len(cs) = n /\ DOMAIN cs = 1..n /\ cs[n] = c
      /\ \A m \in DOMAIN calls : cs[m] = calls[m] /\ m # n
      /\ DOMAIN cs = DOMAIN calls \cup {n}
  <2>1. cs \in Seq(Call) /\ Len(cs) = n /\ cs[n] = c
        /\ \A m \in 1..Len(calls) : cs[m] = calls[m]
    BY <1>3, Shape
  <2>2. DOMAIN cs = 1..n
    BY <2>1, LenProperties
  <2>3. 1..n = 1..Len(calls) \cup {n} /\ \A m \in 1..Len(calls) : m # n
    BY Shape
  <2>4. QED
    BY <2>1, <2>2, <2>3, Shape
<1>6. queue' \in [Sessions -> QueueOf(0..n)] /\ SameSetters(cs, calls')
  <2>1. 0..Len(calls) \subseteq 0..n /\ n \in 0..n
    BY <1>4, Shape
  <2>2. queue \in [Sessions -> QueueOf(0..n)]
    BY <2>1, QueueGrows, Shape
  <2> HIDE DEF n, cs
  <2>3. QED
    BY <1>2, <1>4, <1>5, <2>1, <2>2, PushToStep
<1> HIDE DEF cs
<1>7. /\ DOMAIN calls' = DOMAIN calls \cup {n} /\ Len(calls') = n /\ calls' \in Seq(Call)
      /\ calls'[n].session = id /\ calls'[n].id = NewId(s) /\ calls'[n].by = <<>>
      /\ \A m \in DOMAIN calls :
            /\ m # n /\ calls'[m].session = calls[m].session /\ calls'[m].id = calls[m].id
            /\ calls'[m].by = calls[m].by
            /\ calls'[m].state = "waiting" => calls[m].state = "waiting" \/ calls[m].by = <<>>
  BY <1>3, <1>5, <1>6 DEF SameSetters, SameCalls
<1> HIDE DEF n
<1>8. CallsType'
  BY <1>2, <1>7, Shape, ClientRpcAssumption DEF CallsType, n
<1>9. Len(calls) <= n /\ Len(calls) \in Nat
  BY Shape DEF n
<1>10. ShardType'
  <2>1. counter' \in [Shards -> Nat] /\ pending' \in [Shards -> SUBSET Nat]
    BY <1>1, <1>2 DEF IInv, Types, ShardType
  <2>2. ASSUME NEW t \in Shards
        PROVE  counter'[t] <= n /\ pending'[t] \subseteq 1..counter'[t]
    <3>1. /\ counter[t] \in Nat /\ counter[t] <= Len(calls) /\ pending[t] \subseteq 1..counter[t]
          /\ n = Len(calls) + 1
          /\ counter \in [Shards -> Nat] /\ pending \in [Shards -> SUBSET Nat]
      BY DEF IInv, Types, ShardType, n
    <3>2. CASE t = s
      BY <1>1, <1>2, <1>9, <3>1, <3>2
    <3>3. CASE t # s
      BY <1>1, <1>2, <1>9, <3>1, <3>3
    <3>4. QED
      BY <3>2, <3>3
  <2>3. QED
    BY <1>7, <2>1, <2>2 DEF ShardType
<1>11. /\ \A t \in Shards : counter[t] \in Nat /\ counter'[t] \in Nat /\ counter[t] <= counter'[t]
       /\ counter'[s] = NewId(s) /\ NewId(s) \in pending'[s]
       /\ \A t \in Shards : \A i \in 1..counter[t] : i \in pending'[t] <=> i \in pending[t]
       /\ \A i \in 1..counter[s] : i # NewId(s)
  BY <1>1, <1>2 DEF IInv, Types, ShardType
<1>12. \A m \in DOMAIN calls :
          /\ Owner[calls[m].session] \in Shards
          /\ calls[m].id \in 1..counter[Owner[calls[m].session]]
          /\ calls[m].id \in 1..counter'[Owner[calls[m].session]]
  BY <1>11, Shape DEF IInv, PromiseInv, NumbersUnique
<1>13. NumbersUnique'
  <2>1. calls'[n].id \in 1..counter'[Owner[calls'[n].session]]
    BY <1>1, <1>7, <1>11
  <2>2. ASSUME NEW m \in DOMAIN calls
        PROVE  ~(Owner[calls[m].session] = s /\ calls[m].id = NewId(s))
    BY <1>11, <1>12
  <2>3. QED
    BY <1>7, <1>12, <2>1, <2>2 DEF IInv, PromiseInv, NumbersUnique
<1>14. PendingUntilSet'
  BY <1>7, <1>11, <1>12 DEF IInv, PromiseInv, PendingUntilSet, Pending
<1>15. SettersExist'
  <2>1. DOMAIN calls'[n].by = {}
    BY <1>7
  <2>2. QED
    BY <1>2, <1>7, <2>1 DEF IInv, PromiseInv, SettersExist
<1>16. StoppedIsEmpty'
  BY <1>2 DEF StoppedIsEmpty
<1>17. OwnAnswerOnce'
  <2>1. DOMAIN calls'[n].by = {} /\ Len(calls'[n].by) = 0
    BY <1>7
  <2>2. ASSUME NEW m \in DOMAIN calls
        PROVE  Len(calls'[m].by) <= 1
    BY <1>7 DEF IInv, PromiseInv, OwnAnswerOnce
  <2>3. ASSUME NEW m \in DOMAIN calls, NEW i \in DOMAIN calls'[m].by
        PROVE  LET a == calls'[m].by[i]
               IN  \/ a \in {ServerStopped} \cup {[call |-> m, at |-> t] : t \in Shards}
                   \/ a.at # Owner[calls'[a.call].session]
    <3> DEFINE a == calls[m].by[i]
    <3>1. calls'[m].by[i] = a /\ i \in DOMAIN calls[m].by
      BY <1>7
    <3>2. a = ServerStopped \/ a.call \in DOMAIN calls
      BY <3>1 DEF IInv, PromiseInv, SettersExist
    <3>3. \/ a \in {ServerStopped} \cup {[call |-> m, at |-> t] : t \in Shards}
          \/ a.at # Owner[calls[a.call].session]
      BY <3>1 DEF IInv, PromiseInv, OwnAnswerOnce
    <3> HIDE DEF a
    <3>4. QED
      BY <1>7, <3>1, <3>2, <3>3
  <2>4. DOMAIN calls' = DOMAIN calls \cup {n}
    BY <1>7
  <2>5. \A m \in DOMAIN calls' : Len(calls'[m].by) <= 1
    BY <2>1, <2>2, <2>4
  <2>6. \A m \in DOMAIN calls' : \A i \in DOMAIN calls'[m].by : m \in DOMAIN calls
    BY <2>1, <2>4
  <2>7. QED
    BY <2>3, <2>5, <2>6, Zenon DEF OwnAnswerOnce
<1>18. AnswerAtHomeResolves'
  BY <1>2, <1>7 DEF IInv, PromiseInv, AnswerAtHomeResolves, SettersExist
<1>19. QueueType' /\ SessionType'
  <2>1. heard' \subseteq 1..n
    BY <1>2, <1>9 DEF IInv, Types, QueueType, n
  <2>2. QED
    BY <1>2, <1>6, <1>7, <2>1 DEF IInv, Types, QueueType, SessionType
<1>20. QED
  BY <1>8, <1>10, <1>13, <1>14, <1>15, <1>16, <1>17, <1>18, <1>19 DEF IInv, Types, PromiseInv

\* The end of the server sets every promise that is still in a table.
LEMMA StopShardsInv ==
    ASSUME IInv, StopShards
    PROVE  IInv'
<1> DEFINE ns == {n \in DOMAIN calls : Pending(n)}
<1>1. /\ calls' = PromiseSet(calls, ns, ServerStopped) /\ pending' = [s \in Shards |-> {}]
      /\ UNCHANGED <<counter, queue, open, clients, errors, heard, posted, answers>>
      /\ server' = "stopped"
  BY DEF StopShards
<1>2. /\ ns \in SUBSET DOMAIN calls /\ ServerStopped \in Setter
      /\ pending' \in [Shards -> SUBSET Nat] /\ \A s \in Shards : pending'[s] \subseteq pending[s]
  BY <1>1 DEF Setter
<1>3. \A n \in DOMAIN calls :
         /\ n \in ns => calls[n].by = <<>>
         /\ calls[n].id \in pending'[Owner[calls[n].session]] <=> Pending(n) /\ n \notin ns
  BY <1>1, Shape DEF IInv, PromiseInv, PendingUntilSet
<1>4. \A a \in posted' : a.call \in DOMAIN calls
  BY <1>1 DEF IInv, PromiseInv, SettersExist
<1> HIDE DEF ns
<1>5. /\ CallsType' /\ ShardType'
      /\ NumbersUnique' /\ PendingUntilSet' /\ SettersExist' /\ OwnAnswerOnce'
      /\ \A m \in DOMAIN calls : calls'[m].session = calls[m].session
      /\ \A m \in DOMAIN calls : calls'[m].by = IF m \in ns THEN <<ServerStopped>> ELSE calls[m].by
  BY <1>1, <1>2, <1>3, <1>4, SetStep
<1>6. <<ServerStopped>> # <<>>
  OBVIOUS
<1>7. AnswerAtHomeResolves'
  BY <1>1, <1>4, <1>5, <1>6 DEF IInv, PromiseInv, AnswerAtHomeResolves
<1>8. StoppedIsEmpty'
  BY <1>1 DEF StoppedIsEmpty
<1>9. Len(calls') = Len(calls)
  BY <1>1, <1>2, Shape, PromiseSetCalls DEF SameCalls
<1>10. QueueType' /\ SessionType'
  BY <1>1, <1>9 DEF IInv, Types, QueueType, SessionType
<1>11. QED
  BY <1>5, <1>7, <1>8, <1>10 DEF IInv, Types, PromiseInv
-----------------------------------------------------------------------------
LEMMA StutterInv == ASSUME IInv, UNCHANGED vars PROVE IInv'
<1>1. QueueType' /\ SessionType' /\ CallsType' /\ ShardType'
  BY DEF vars, IInv, Types, QueueType, SessionType, CallsType, ShardType
<1>2. PromiseInv'
  BY DEF vars, IInv, PromiseInv, NumbersUnique, PendingUntilSet, Pending, SettersExist,
         StoppedIsEmpty, OwnAnswerOnce, AnswerAtHomeResolves
<1>3. QED
  BY <1>1, <1>2 DEF IInv, Types

LEMMA ClosingInv ==
    ASSUME IInv, StopTransports \/ \E id \in Sessions : Leave(id)
    PROVE  IInv'
<1>1. /\ UNCHANGED <<counter, pending, calls, queue, open, errors, heard, posted, answers>>
      /\ clients' \subseteq Sessions
      /\ server' = "stopped" => server = "stopped"
      /\ server' \in {"up", "closing", "stopped"}
  BY DEF StopTransports, Leave, IInv, Types, SessionType
<1>2. CallsType' /\ ShardType' /\ PromiseInv'
  BY <1>1, SameCallsSetters, QuietStep
<1>3. QueueType' /\ SessionType'
  BY <1>1 DEF IInv, Types, QueueType, SessionType
<1>4. QED
  BY <1>2, <1>3 DEF IInv, Types

LEMMA NextInv == IInv /\ [Next]_vars => IInv'
<1> SUFFICES ASSUME IInv, [Next]_vars PROVE IInv'
  OBVIOUS
<1>1. ASSUME NEW id \in Sessions, NEW held \in BOOLEAN, SendRequest(id, held)
      PROVE  IInv'
  BY <1>1, SendRequestInv
<1>2. ASSUME NEW id \in Sessions,
             Refill(id) \/ Deliver(id) \/ WriteFails(id) \/ Leave(id) \/ ErrorArrives(id)
      PROVE  IInv'
  BY <1>2, RefillInv, DeliverInv, WriteFailsInv, ClosingInv, ErrorArrivesInv
<1>3. ASSUME NEW n \in heard, NEW s \in Shards, PostAnswer(n, s)
      PROVE  IInv'
  BY <1>3, PostAnswerInv
<1>4. CASE StopTransports \/ StopShards
  BY <1>4, ClosingInv, StopShardsInv
<1>5. CASE UNCHANGED vars
  BY <1>5, StutterInv
<1>6. QED
  BY <1>1, <1>2, <1>3, <1>4, <1>5 DEF Next

\* The inductive invariant holds in every state.
THEOREM Invariant == Spec => []IInv
<1>1. QED
  BY InitInv, NextInv, PTL DEF Spec

\* The type invariant: in every state counters and pending numbers, calls,
\* queues and errors in flight are in their bounds.
THEOREM TypeCorrect == Spec => []TypeOK
<1>1. ASSUME IInv PROVE TypeOK
  <2>1. counter \in [Shards -> 0..MaxCalls] /\ \A s \in Shards : pending[s] \subseteq 1..counter[s]
    BY <1>1, Shape, ClientRpcAssumption DEF IInv, Types, ShardType, CallsType
  <2>2. \A n \in DOMAIN calls :
           /\ calls[n].session \in Sessions /\ calls[n].held \in BOOLEAN
           /\ calls[n].id \in 1..counter[Owner[calls[n].session]]
           /\ calls[n].state \in {"pushing", "waiting", "returned", "failed"}
    BY <1>1, Shape DEF IInv, PromiseInv, NumbersUnique, Call, States
  <2>3. \A id \in Sessions : Len(queue[id].waiting) <= 1
    BY <1>1, Shape DEF QueueOf
  <2>4. errors \in [Sessions -> 0..MaxAnswers]
    BY <1>1, ClientRpcAssumption DEF IInv, Types, SessionType
  <2>5. QED
    BY <1>1, <2>1, <2>2, <2>3, <2>4, Shape DEF TypeOK, IInv, Types, SessionType, QueueType
<1>2. QED
  BY <1>1, Invariant, PTL

\* The promise of a request to a client is set at most once, by the end of the
\* server, by an answer to that request, or by one posted on another core.
THEOREM PromisesSetOnce == Spec => []OwnAnswerOnce
<1>1. IInv => OwnAnswerOnce
  BY DEF IInv, PromiseInv
<1>2. QED
  BY <1>1, Invariant, PTL

\* Once an answer was posted on its session's core its call has its promise set.
THEOREM HomeAnswersResolve == Spec => []AnswerAtHomeResolves
<1>1. IInv => AnswerAtHomeResolves
  BY DEF IInv, PromiseInv
<1>2. QED
  BY <1>1, Invariant, PTL

\* After the shards have stopped no call waits for its promise.
THEOREM StopLeavesNoneWaiting == Spec => []StopEndsCalls
<1>1. ASSUME IInv PROVE StopEndsCalls
  BY <1>1, Shape
     DEF IInv, PromiseInv, StoppedIsEmpty, PendingUntilSet, Pending, StopEndsCalls
<1>2. QED
  BY <1>1, Invariant, PTL
=============================================================================
