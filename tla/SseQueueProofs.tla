---------------------------- MODULE SseQueueProofs ----------------------------
(***************************************************************************)
(* Lemmas about the operators of SseQueue, for messages of any kind: what  *)
(* pushing, popping and the continuation of a granted push make of a queue,*)
(* and that they never double a message.                                   *)
(***************************************************************************)
EXTENDS SseQueue, SequenceTheorems, TLAPS

\* The queues of messages of S, with at most one push that waits.
QueueOf(S) ==
    {q \in [messages : Seq(S), waiting : Seq(S), granted : Seq(S)] : Len(q.waiting) <= 1}

LEMMA EmptyQueueType == \A S : EmptyQueue \in QueueOf(S)
  BY EmptySeq DEF EmptyQueue, QueueOf

\* A queue of some messages is one of more.
LEMMA QueueGrows ==
    ASSUME NEW S, NEW T, S \subseteq T, NEW q \in QueueOf(S)
    PROVE  q \in QueueOf(T)
  BY SeqMonotonic DEF QueueOf

\* A queue is made of three sequences, the waiting one of at most one message.
LEMMA QueueParts ==
    ASSUME NEW S, NEW q \in Seq(S), NEW w \in Seq(S), NEW g \in Seq(S), Len(w) <= 1
    PROVE  [messages |-> q, waiting |-> w, granted |-> g] \in QueueOf(S)
  BY DEF QueueOf

\* A push puts its message at the end, or makes it the one that waits.
LEMMA PushParts ==
    ASSUME NEW S, NEW q \in QueueOf(S), NEW m
    PROVE  PushEventually(q, m) =
              IF Full(q)
              THEN [messages |-> q.messages, waiting |-> <<m>>, granted |-> q.granted]
              ELSE [messages |-> Append(q.messages, m), waiting |-> q.waiting,
                    granted |-> q.granted]
<1>1. q \in [messages : Seq(S), waiting : Seq(S), granted : Seq(S)]
  BY DEF QueueOf
<1>2. ASSUME NEW w
      PROVE  /\ [q EXCEPT !.waiting = w]
                   = [messages |-> q.messages, waiting |-> w, granted |-> q.granted]
             /\ [q EXCEPT !.messages = w]
                   = [messages |-> w, waiting |-> q.waiting, granted |-> q.granted]
  BY <1>1
<1>3. CASE Full(q)
  <2>1. PushEventually(q, m) = [q EXCEPT !.waiting = <<m>>]
    BY <1>3 DEF PushEventually
  <2>2. QED
    BY <1>2, <1>3, <2>1
<1>4. CASE ~ Full(q)
  <2>1. PushEventually(q, m) = [q EXCEPT !.messages = Append(q.messages, m)]
    BY <1>4 DEF PushEventually
  <2>2. QED
    BY <1>2, <1>4, <2>1
<1>5. QED
  BY <1>3, <1>4

LEMMA PushType ==
    ASSUME NEW S, NEW q \in QueueOf(S), NEW m \in S
    PROVE  PushEventually(q, m) \in QueueOf(S)
<1>1. /\ q.messages \in Seq(S) /\ q.granted \in Seq(S) /\ q.waiting \in Seq(S)
      /\ Len(q.waiting) <= 1
  BY DEF QueueOf
<1>2. Append(q.messages, m) \in Seq(S)
  BY <1>1
<1>3. <<m>> \in Seq(S) /\ Len(<<m>>) <= 1
  OBVIOUS
<1>4. CASE Full(q)
  <2>1. PushEventually(q, m) = [messages |-> q.messages, waiting |-> <<m>>, granted |-> q.granted]
    BY <1>4, PushParts
  <2>2. QED
    BY <1>1, <1>3, <2>1, QueueParts
<1>5. CASE ~Full(q)
  <2>1. PushEventually(q, m)
           = [messages |-> Append(q.messages, m), waiting |-> q.waiting, granted |-> q.granted]
    BY <1>5, PushParts
  <2>2. QED
    BY <1>1, <1>2, <2>1, QueueParts
<1>6. QED
  BY <1>4, <1>5

\* A pop takes the first message and may grant the push that waits.
LEMMA PopType ==
    ASSUME NEW S, NEW q \in QueueOf(S), q.messages # <<>>
    PROVE  Pop(q) \in QueueOf(S) /\ Head(q.messages) \in S
<1>1. /\ q.messages \in Seq(S) /\ q.granted \in Seq(S) /\ q.waiting \in Seq(S)
      /\ Len(q.waiting) <= 1
  BY DEF QueueOf
<1>2. Head(q.messages) \in S /\ Tail(q.messages) \in Seq(S)
  BY <1>1, HeadTailProperties
<1>3. q.granted \o q.waiting \in Seq(S)
  BY <1>1, ConcatProperties
<1>4. <<>> \in Seq(S) /\ Len(<<>>) <= 1
  BY EmptySeq
<1>5. CASE Len(q.messages) = QueueMax
  <2>1. Pop(q) = [messages |-> Tail(q.messages), waiting |-> <<>>,
                  granted |-> q.granted \o q.waiting]
    BY <1>5 DEF Pop
  <2>2. QED
    BY <1>2, <1>3, <1>4, <2>1, QueueParts
<1>6. CASE Len(q.messages) # QueueMax
  <2>1. Pop(q) = [messages |-> Tail(q.messages), waiting |-> q.waiting, granted |-> q.granted]
    BY <1>6 DEF Pop, QueueOf
  <2>2. QED
    BY <1>1, <1>2, <2>1, QueueParts
<1>7. QED
  BY <1>5, <1>6

\* The continuation of a granted push moves its message to the end.
LEMMA RefilledType ==
    ASSUME NEW S, NEW q \in QueueOf(S), q.granted # <<>>
    PROVE  Refilled(q) \in QueueOf(S) /\ Head(q.granted) \in S
<1>1. Head(q.granted) \in S /\ Tail(q.granted) \in Seq(S)
  BY HeadTailProperties DEF QueueOf
<1>2. Append(q.messages, Head(q.granted)) \in Seq(S)
  BY <1>1 DEF QueueOf
<1>3. QED
  BY <1>1, <1>2 DEF Refilled, QueueOf
-----------------------------------------------------------------------------
\* Each element of A is in a sequence once; two sequences share none of A.
Once(A, s) == \A i, j \in DOMAIN s : (s[i] = s[j] /\ s[i] \in A) => i = j
Apart(A, s, t) == Elems(s) \cap Elems(t) \cap A = {}

\* What was read from a queue, r, or still is in it, q, is at one place if it
\* is of A.
OnceIn(A, r, q) ==
    /\ Once(A, r) /\ Once(A, q.messages) /\ Once(A, q.waiting) /\ Once(A, q.granted)
    /\ Apart(A, r, q.messages) /\ Apart(A, r, q.waiting) /\ Apart(A, r, q.granted)
    /\ Apart(A, q.messages, q.waiting) /\ Apart(A, q.messages, q.granted)
    /\ Apart(A, q.waiting, q.granted)

LEMMA EmptyOnce == \A A : Elems(<<>>) = {} /\ Once(A, <<>>)
  BY DEF Elems, Once

\* What is appended is there once if it was not there before.
LEMMA AppendOnce ==
    ASSUME NEW A, NEW S, NEW s \in Seq(S), NEW m \in S, Once(A, s), m \in A => m \notin Elems(s)
    PROVE  Elems(Append(s, m)) = Elems(s) \cup {m} /\ Once(A, Append(s, m))
<1> DEFINE t == Append(s, m)
<1>1. /\ Len(s) \in Nat /\ DOMAIN s = 1..Len(s) /\ DOMAIN t = 1..(Len(s) + 1)
      /\ t[Len(s) + 1] = m /\ \A i \in 1..Len(s) : t[i] = s[i]
  BY AppendProperties, LenProperties
<1> HIDE DEF t
<1>2. DOMAIN t = DOMAIN s \cup {Len(s) + 1} /\ \A i \in DOMAIN s : t[i] = s[i] /\ i # Len(s) + 1
  BY <1>1
<1>3. Elems(t) = Elems(s) \cup {m}
  BY <1>1, <1>2 DEF Elems
<1>4. Once(A, t)
  BY <1>1, <1>2 DEF Once, Elems
<1>5. QED
  BY <1>3, <1>4 DEF t

\* What the head of a sequence is, its tail has not.
LEMMA TailOnce ==
    ASSUME NEW A, NEW S, NEW s \in Seq(S), s # <<>>, Once(A, s)
    PROVE  /\ Elems(Tail(s)) \subseteq Elems(s) /\ Once(A, Tail(s)) /\ Head(s) \in Elems(s)
           /\ Head(s) \in A => Head(s) \notin Elems(Tail(s))
<1> DEFINE t == Tail(s)
<1>1. /\ Len(s) \in Nat \ {0} /\ DOMAIN s = 1..Len(s) /\ Head(s) = s[1]
      /\ t \in Seq(S) /\ Len(t) = Len(s) - 1 /\ \A i \in 1..Len(t) : t[i] = s[i + 1]
  BY HeadTailProperties, LenProperties, EmptySeq
<1>2. DOMAIN t = 1..Len(t)
  BY <1>1, LenProperties
<1> HIDE DEF t
<1>3. \A i \in DOMAIN t : i \in Nat /\ i + 1 \in DOMAIN s /\ i + 1 # 1 /\ t[i] = s[i + 1]
  BY <1>1, <1>2
<1>4. 1 \in DOMAIN s
  BY <1>1
<1>5. Elems(t) \subseteq Elems(s) /\ Head(s) \in Elems(s)
  BY <1>1, <1>3, <1>4 DEF Elems
<1>6. Once(A, t)
  <2> SUFFICES ASSUME NEW i \in DOMAIN t, NEW j \in DOMAIN t, t[i] = t[j], t[i] \in A
               PROVE  i = j
    BY DEF Once
  <2>1. i + 1 = j + 1
    BY <1>3 DEF Once
  <2>2. QED
    BY <1>3, <2>1
<1>7. Head(s) \in A => Head(s) \notin Elems(t)
  BY <1>1, <1>3, <1>4 DEF Once, Elems
<1>8. QED
  BY <1>5, <1>6, <1>7 DEF t

LEMMA ConcatOnce ==
    ASSUME NEW A, NEW S, NEW s \in Seq(S), NEW t \in Seq(S), Once(A, s), Once(A, t), Apart(A, s, t)
    PROVE  Elems(s \o t) = Elems(s) \cup Elems(t) /\ Once(A, s \o t)
<1> DEFINE c == s \o t
<1>1. /\ Len(s) \in Nat /\ Len(t) \in Nat /\ DOMAIN s = 1..Len(s) /\ DOMAIN t = 1..Len(t)
      /\ c \in Seq(S) /\ Len(c) = Len(s) + Len(t)
      /\ \A i \in 1..(Len(s) + Len(t)) : c[i] = IF i <= Len(s) THEN s[i] ELSE t[i - Len(s)]
  BY ConcatProperties, LenProperties
<1>2. DOMAIN c = 1..(Len(s) + Len(t))
  BY <1>1, LenProperties
<1> HIDE DEF c
<1>3. \A i \in DOMAIN c : \/ i \in DOMAIN s /\ c[i] = s[i]
                          \/ i - Len(s) \in DOMAIN t /\ c[i] = t[i - Len(s)] /\ i \in Nat
  BY <1>1, <1>2
<1>4. (\A i \in DOMAIN s : i \in DOMAIN c /\ c[i] = s[i])
      /\ \A i \in DOMAIN t : i + Len(s) \in DOMAIN c /\ c[i + Len(s)] = t[i]
  BY <1>1, <1>2
<1>5. Elems(c) = Elems(s) \cup Elems(t)
  BY <1>3, <1>4 DEF Elems
<1>6. Once(A, c)
  <2> SUFFICES ASSUME NEW i \in DOMAIN c, NEW j \in DOMAIN c, c[i] = c[j], c[i] \in A
               PROVE  i = j
    BY DEF Once
  <2>1. CASE i \in DOMAIN s /\ c[i] = s[i] /\ j \in DOMAIN s /\ c[j] = s[j]
    BY <2>1 DEF Once
  <2>2. ASSUME NEW k \in DOMAIN s, NEW l \in DOMAIN t, s[k] = t[l], s[k] \in A
        PROVE  FALSE
    BY <2>2 DEF Apart, Elems
  <2>3. CASE /\ i - Len(s) \in DOMAIN t /\ c[i] = t[i - Len(s)] /\ i \in Nat
             /\ j - Len(s) \in DOMAIN t /\ c[j] = t[j - Len(s)] /\ j \in Nat
    <3>1. i - Len(s) = j - Len(s)
      BY <2>3 DEF Once
    <3>2. QED
      BY <1>1, <2>3, <3>1
  <2>4. QED
    BY <1>3, <2>1, <2>2, <2>3
<1>7. QED
  BY <1>5, <1>6 DEF c

\* A push of a message that is new to the session doubles nothing.
LEMMA PushOnce ==
    ASSUME NEW A, NEW S, NEW r \in Seq(S), NEW q \in QueueOf(S), NEW m \in S,
           OnceIn(A, r, q), m \in A => m \notin Held(r, q)
    PROVE  /\ OnceIn(A, r, PushEventually(q, m))
           /\ Held(r, PushEventually(q, m)) \subseteq Held(r, q) \cup {m}
<1>1. q.messages \in Seq(S) /\ q.waiting \in Seq(S) /\ q.granted \in Seq(S)
  BY DEF QueueOf
<1>2. CASE Full(q)
  <2> DEFINE w == <<m>>
  <2>0. w = Append(<<>>, m)
    OBVIOUS
  <2> HIDE DEF w
  <2>1. Elems(w) = Elems(<<>>) \cup {m} /\ Once(A, w)
    BY <2>0, EmptyOnce, AppendOnce, EmptySeq
  <2>2. Elems(w) = {m}
    BY <2>1, EmptyOnce
  <2>3. PushEventually(q, m) = [messages |-> q.messages, waiting |-> w, granted |-> q.granted]
    BY <1>2, PushParts DEF w
  <2>4. QED
    BY <2>1, <2>2, <2>3 DEF OnceIn, Held, Apart
<1>3. CASE ~ Full(q)
  <2> DEFINE t == Append(q.messages, m)
  <2>1. Elems(t) = Elems(q.messages) \cup {m} /\ Once(A, t)
    BY <1>1, AppendOnce DEF OnceIn, Held
  <2>2. PushEventually(q, m) = [messages |-> t, waiting |-> q.waiting, granted |-> q.granted]
    BY <1>3, PushParts
  <2> HIDE DEF t
  <2>3. QED
    BY <2>1, <2>2 DEF OnceIn, Held, Apart
<1>4. QED
  BY <1>2, <1>3

\* A message that is popped and read moves, one that is popped and lost goes.
LEMMA PopOnce ==
    ASSUME NEW A, NEW S, NEW r \in Seq(S), NEW q \in QueueOf(S), q.messages # <<>>,
           OnceIn(A, r, q)
    PROVE  LET h == Head(q.messages)
           IN  /\ OnceIn(A, Append(r, h), Pop(q)) /\ Held(Append(r, h), Pop(q)) \subseteq Held(r, q)
               /\ OnceIn(A, r, Pop(q)) /\ Held(r, Pop(q)) \subseteq Held(r, q)
<1> DEFINE h == Head(q.messages)
           t == Tail(q.messages)
           a == Append(r, h)
           g == q.granted \o q.waiting
<1>1. q.messages \in Seq(S) /\ q.waiting \in Seq(S) /\ q.granted \in Seq(S)
  BY DEF QueueOf
<1>2. Elems(t) \subseteq Elems(q.messages) /\ Once(A, t) /\ h \in Elems(q.messages)
      /\ (h \in A => h \notin Elems(t))
  BY <1>1, TailOnce DEF OnceIn
<1>3. Elems(a) = Elems(r) \cup {h} /\ Once(A, a)
  <2>1. h \in S
    BY <1>1, HeadTailProperties
  <2>2. h \in A => h \notin Elems(r)
    BY <1>2 DEF OnceIn, Apart
  <2> HIDE DEF h
  <2>3. QED
    BY <2>1, <2>2, AppendOnce DEF OnceIn
<1>4. Elems(g) = Elems(q.granted) \cup Elems(q.waiting) /\ Once(A, g)
  <2>1. Apart(A, q.granted, q.waiting)
    BY DEF OnceIn, Apart
  <2>2. QED
    BY <1>1, <2>1, ConcatOnce DEF OnceIn
<1>5. Elems(<<>>) = {} /\ Once(A, <<>>)
  BY EmptyOnce
<1>6. \/ Pop(q) = [messages |-> t, waiting |-> <<>>, granted |-> g]
      \/ Pop(q) = [messages |-> t, waiting |-> q.waiting, granted |-> q.granted]
  BY DEF Pop, QueueOf
<1>7. h \in A => h \notin Elems(q.waiting) /\ h \notin Elems(q.granted)
  BY <1>2 DEF OnceIn, Apart
<1> HIDE DEF h, t, a, g
<1>8. CASE Pop(q) = [messages |-> t, waiting |-> <<>>, granted |-> g]
  <2>1. OnceIn(A, a, Pop(q)) /\ Held(a, Pop(q)) \subseteq Held(r, q)
    BY <1>2, <1>3, <1>4, <1>5, <1>7, <1>8 DEF OnceIn, Held, Apart
  <2>2. OnceIn(A, r, Pop(q)) /\ Held(r, Pop(q)) \subseteq Held(r, q)
    BY <1>2, <1>4, <1>5, <1>8 DEF OnceIn, Held, Apart
  <2>3. QED
    BY <2>1, <2>2 DEF a, h
<1>9. CASE Pop(q) = [messages |-> t, waiting |-> q.waiting, granted |-> q.granted]
  <2>1. OnceIn(A, a, Pop(q)) /\ Held(a, Pop(q)) \subseteq Held(r, q)
    BY <1>2, <1>3, <1>7, <1>9 DEF OnceIn, Held, Apart
  <2>2. OnceIn(A, r, Pop(q)) /\ Held(r, Pop(q)) \subseteq Held(r, q)
    BY <1>2, <1>9 DEF OnceIn, Held, Apart
  <2>3. QED
    BY <2>1, <2>2 DEF a, h
<1>10. QED
  BY <1>6, <1>8, <1>9

\* The continuation of a granted push moves its message.
LEMMA RefilledOnce ==
    ASSUME NEW A, NEW S, NEW r \in Seq(S), NEW q \in QueueOf(S), q.granted # <<>>,
           OnceIn(A, r, q)
    PROVE  OnceIn(A, r, Refilled(q)) /\ Held(r, Refilled(q)) \subseteq Held(r, q)
<1> DEFINE h == Head(q.granted)
           t == Tail(q.granted)
           a == Append(q.messages, h)
<1>1. q.messages \in Seq(S) /\ q.granted \in Seq(S)
  BY DEF QueueOf
<1>2. Elems(t) \subseteq Elems(q.granted) /\ Once(A, t) /\ h \in Elems(q.granted)
      /\ (h \in A => h \notin Elems(t))
  BY <1>1, TailOnce DEF OnceIn
<1>3. h \in S
  BY <1>1, HeadTailProperties
<1>4. Refilled(q) = [messages |-> a, waiting |-> q.waiting, granted |-> t]
  <2>1. q \in [messages : Seq(S), waiting : Seq(S), granted : Seq(S)]
    BY DEF QueueOf
  <2>2. Refilled(q) = [q EXCEPT !.messages = a, !.granted = t]
    BY DEF Refilled
  <2> HIDE DEF a, t
  <2>3. QED
    BY <2>1, <2>2
<1> HIDE DEF h, t
<1>5. h \in A => h \notin Elems(r) /\ h \notin Elems(q.messages) /\ h \notin Elems(q.waiting)
  BY <1>2 DEF OnceIn, Apart
<1>6. Elems(a) = Elems(q.messages) \cup {h} /\ Once(A, a)
  BY <1>1, <1>3, <1>5, AppendOnce DEF OnceIn
<1> HIDE DEF a
<1>7. QED
  BY <1>2, <1>4, <1>5, <1>6 DEF OnceIn, Held, Apart
-----------------------------------------------------------------------------
(* Nothing is lost but by a push that overruns.                            *)

LEMMA AppendElems ==
    ASSUME NEW S, NEW s \in Seq(S), NEW m \in S
    PROVE  Elems(Append(s, m)) = Elems(s) \cup {m}
<1>1. PICK A : A = {}
  OBVIOUS
<1>2. Once(A, s) /\ (m \in A => m \notin Elems(s))
  BY <1>1 DEF Once
<1>3. QED
  BY <1>2, AppendOnce

LEMMA ConcatElems ==
    ASSUME NEW S, NEW s \in Seq(S), NEW t \in Seq(S)
    PROVE  Elems(s \o t) = Elems(s) \cup Elems(t)
<1>1. PICK A : A = {}
  OBVIOUS
<1>2. Once(A, s) /\ Once(A, t) /\ Apart(A, s, t)
  BY <1>1 DEF Once, Apart
<1>3. QED
  BY <1>2, ConcatOnce

LEMMA PushKeeps ==
    ASSUME NEW S, NEW r \in Seq(S), NEW q \in QueueOf(S), NEW m \in S, ~ Overruns(q)
    PROVE  Held(r, q) \cup {m} \subseteq Held(r, PushEventually(q, m))
<1>1. q.messages \in Seq(S) /\ q.waiting \in Seq(S) /\ q.granted \in Seq(S)
  BY DEF QueueOf
<1>2. Elems(<<>>) = {}
  BY EmptyOnce
<1>3. CASE Full(q)
  <2> DEFINE w == <<m>>
  <2>0. w = Append(<<>>, m)
    OBVIOUS
  <2> HIDE DEF w
  <2>1. Elems(w) = Elems(<<>>) \cup {m}
    BY <2>0, AppendElems, EmptySeq
  <2>2. PushEventually(q, m) = [messages |-> q.messages, waiting |-> w, granted |-> q.granted]
    BY <1>3, PushParts DEF w
  <2>3. q.waiting = <<>>
    BY <1>3 DEF Overruns
  <2>4. Held(r, PushEventually(q, m))
           = Elems(r) \cup Elems(q.messages) \cup Elems(w) \cup Elems(q.granted)
    BY <2>2 DEF Held
  <2>5. Held(r, q) = Elems(r) \cup Elems(q.messages) \cup {} \cup Elems(q.granted)
    BY <1>2, <2>3 DEF Held
  <2>6. QED
    BY <1>2, <2>1, <2>4, <2>5, Zenon
<1>4. CASE ~ Full(q)
  <2> DEFINE t == Append(q.messages, m)
  <2>2. Elems(t) = Elems(q.messages) \cup {m}
    BY <1>1, AppendElems
  <2>3. PushEventually(q, m) = [messages |-> t, waiting |-> q.waiting, granted |-> q.granted]
    BY <1>4, PushParts
  <2> HIDE DEF t
  <2>4. Held(r, PushEventually(q, m))
           = Elems(r) \cup Elems(t) \cup Elems(q.waiting) \cup Elems(q.granted)
    BY <2>3 DEF Held
  <2>5. Held(r, q)
           = Elems(r) \cup Elems(q.messages) \cup Elems(q.waiting) \cup Elems(q.granted)
    BY DEF Held
  <2>6. QED
    BY <2>2, <2>4, <2>5, Zenon
<1>5. QED
  BY <1>3, <1>4

\* The elements of a sequence are its head and those of its tail.
LEMMA HeadAndTail ==
    ASSUME NEW S, NEW s \in Seq(S), s # <<>>
    PROVE  Elems(s) = {Head(s)} \cup Elems(Tail(s))
<1> DEFINE t == Tail(s)
<1>1. /\ Len(s) \in Nat \ {0} /\ DOMAIN s = 1..Len(s) /\ Head(s) = s[1]
      /\ t \in Seq(S) /\ Len(t) = Len(s) - 1 /\ \A i \in 1..Len(t) : t[i] = s[i + 1]
  BY HeadTailProperties, LenProperties, EmptySeq
<1>2. DOMAIN t = 1..Len(t)
  BY <1>1, LenProperties
<1> HIDE DEF t
<1>3. /\ \A i \in DOMAIN t : i + 1 \in DOMAIN s /\ t[i] = s[i + 1]
      /\ \A i \in DOMAIN s : i = 1 \/ (i - 1 \in DOMAIN t /\ t[i - 1] = s[i])
      /\ 1 \in DOMAIN s
  BY <1>1, <1>2
<1>4. Elems(s) \subseteq {s[1]} \cup Elems(t)
  BY <1>3 DEF Elems
<1>5. {s[1]} \cup Elems(t) \subseteq Elems(s)
  BY <1>3 DEF Elems
<1>6. QED
  BY <1>1, <1>4, <1>5 DEF t

LEMMA PopKeeps ==
    ASSUME NEW S, NEW r \in Seq(S), NEW q \in QueueOf(S), q.messages # <<>>
    PROVE  Held(r, q) \subseteq Held(Append(r, Head(q.messages)), Pop(q))
<1> DEFINE h == Head(q.messages)
           t == Tail(q.messages)
           a == Append(r, h)
           g == q.granted \o q.waiting
<1>1. q.messages \in Seq(S) /\ q.waiting \in Seq(S) /\ q.granted \in Seq(S)
  BY DEF QueueOf
<1>2. Elems(q.messages) = {h} \cup Elems(t) /\ h \in S
  BY <1>1, HeadAndTail, HeadTailProperties
<1>4. Elems(a) = Elems(r) \cup {h}
  <2> HIDE DEF h
  <2>1. QED
    BY <1>2, AppendElems
<1>5. Elems(g) = Elems(q.granted) \cup Elems(q.waiting)
  BY <1>1, ConcatElems
<1>6. \/ Pop(q) = [messages |-> t, waiting |-> <<>>, granted |-> g]
      \/ Pop(q) = [messages |-> t, waiting |-> q.waiting, granted |-> q.granted]
  BY DEF Pop, QueueOf
<1> HIDE DEF h, t, a, g
<1>7. Held(r, q) \subseteq Held(a, Pop(q))
  BY <1>2, <1>4, <1>5, <1>6 DEF Held
<1>8. QED
  BY <1>7 DEF a, h

LEMMA RefilledKeeps ==
    ASSUME NEW S, NEW r \in Seq(S), NEW q \in QueueOf(S), q.granted # <<>>
    PROVE  Held(r, q) \subseteq Held(r, Refilled(q))
<1> DEFINE h == Head(q.granted)
           t == Tail(q.granted)
           a == Append(q.messages, h)
<1>1. q.messages \in Seq(S) /\ q.granted \in Seq(S)
  BY DEF QueueOf
<1>2. Elems(q.granted) = {h} \cup Elems(t) /\ h \in S
  BY <1>1, HeadAndTail, HeadTailProperties
<1>3. Refilled(q) = [messages |-> a, waiting |-> q.waiting, granted |-> t]
  <2>1. q \in [messages : Seq(S), waiting : Seq(S), granted : Seq(S)]
    BY DEF QueueOf
  <2>2. Refilled(q) = [q EXCEPT !.messages = a, !.granted = t]
    BY DEF Refilled
  <2> HIDE DEF a, t
  <2>3. QED
    BY <2>1, <2>2
<1> HIDE DEF h, t
<1>5. Elems(a) = Elems(q.messages) \cup {h}
  BY <1>1, <1>2, AppendElems
<1> HIDE DEF a
<1>6. QED
  BY <1>2, <1>3, <1>5 DEF Held
=============================================================================
