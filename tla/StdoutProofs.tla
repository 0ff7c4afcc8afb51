----------------------------- MODULE StdoutProofs -----------------------------
(***************************************************************************)
(* Proofs about Stdout, for every set of reactors, every size of the       *)
(* buffer and any number of statements: a notification is lost only to a   *)
(* crossing, is in the pipe when its thread is done with it, and is        *)
(* received at most once and in order.                                     *)
(***************************************************************************)
EXTENDS Stdout, SequenceTheorems, FiniteSetTheorems, WellFoundedInduction, TLAPS

Kinds == {"log", "response", "notification"}
Msg   == [id : Nat, kind : Kinds, by : Threads]
Ins   == [op : {"lock", "put", "flush", "unlock"}, msg : Msg, text : BOOLEAN, end : BOOLEAN]

\* The log line of the heuristic that precedes notification m.
LogOf(m) == [m EXCEPT !.kind = "log"]

\* What a thread executes of the statements of m when d more are left after it.
LogLeft(m, d)      == IF d = 0 THEN Newline(m) ELSE Text(m)
ResponseLeft(m, d) == CASE d = 0 -> Op("flush", m) [] d = 1 -> Newline(m) [] d = 2 -> Text(m)
NotifyLeft(m, d)   == CASE d = 0 -> Op("unlock", m) [] d = 1 -> Op("flush", m)
                        [] d = 2 -> Newline(m) [] d = 3 -> Text(m) [] d = 4 -> Op("lock", m)
                        [] d = 5 -> TextLine(LogOf(m)) [] d \in {6, 7} -> Text(LogOf(m))
Left(m, d) == CASE m.kind = "log" -> LogLeft(m, d) [] m.kind = "response" -> ResponseLeft(m, d)
                [] m.kind = "notification" -> NotifyLeft(m, d)
Longest(m) == IF m.kind = "notification" THEN 8 ELSE 3

\* The message a busy thread is at, and how much of message m is left to do.
Current(t) == todo[t][Len(todo[t])].msg
LeftOf(m)  == IF Busy(DataPlaneThread) /\ Current(DataPlaneThread) = m
              THEN Len(todo[DataPlaneThread]) ELSE 0

BegunInv ==
    /\ begun \in Seq(Msg)
    /\ \A i \in DOMAIN begun :
          begun[i].id = i /\ (begun[i].kind = "notification" <=> begun[i].by = DataPlaneThread)

\* A thread executes the end of the statements of the message it is at.
IsRest(s, m) == Len(s) <= Longest(m) /\ \A i \in DOMAIN s : s[i] = Left(m, Len(s) - i)
TodoInv ==
    /\ todo \in [Threads -> Seq(Ins)]
    /\ \A t \in Threads : Busy(t) =>
          /\ Current(t).by = t /\ Current(t).id \in DOMAIN begun
          /\ begun[Current(t).id] = Current(t)
          /\ IsRest(todo[t], Current(t))

\* The data plane thread holds the mutex from its lock to its unlock.
MutexInv ==
    /\ cout_mtx \in Threads \cup {Nobody}
    /\ Len(todo[DataPlaneThread]) \in 1..4 => cout_mtx = DataPlaneThread

\* The pump has read up to the end of a line.
StreamInv ==
    /\ stream \in Seq(Ins)
    /\ \A i \in DOMAIN stream :
          /\ stream[i].op = "put" /\ stream[i].msg.id \in DOMAIN begun
          /\ stream[i].msg.kind # "log" => begun[stream[i].msg.id] = stream[i].msg
    /\ read \in Nat /\ flushed \in Nat /\ read <= flushed /\ flushed <= Len(stream)
    /\ read # 0 => stream[read].end

\* Who wrote the last of the stream and ended no line writes on.
LastInv ==
    (stream # <<>> /\ ~ stream[Len(stream)].end) =>
        LET m == stream[Len(stream)].msg
        IN  m.by \in Threads /\ Busy(m.by) /\ todo[m.by][1].op = "put" /\ todo[m.by][1].msg = m

\* After its flush all of a notification is in the pipe.
VisibleInv ==
    \A m \in Notifications : LeftOf(m) \in {0, 1} => \A i \in Positions(m) : i <= flushed

\* A notification that no other thread's statement overlaps stands on a line
\* of its own: its text starts one and its newline ends it.
StartsLine(p) == p = 1 \/ stream[p - 1].end
OwnLine(m, p) ==
    /\ p \in Nat \ {0} /\ p + 1 <= Len(stream) /\ Positions(m) = {p, p + 1}
    /\ stream[p] = Text(m) /\ stream[p + 1] = Newline(m) /\ StartsLine(p)
    /\ p + 1 <= read => m \in Received
Clean(m) ==
    /\ LeftOf(m) >= 1 => \A u \in Reactors : ~ Busy(u)
    /\ LeftOf(m) >= 4 => Positions(m) = {}
    /\ LeftOf(m) = 3 =>
          /\ stream # <<>> /\ Positions(m) = {Len(stream)}
          /\ stream[Len(stream)] = Text(m) /\ StartsLine(Len(stream))
    /\ LeftOf(m) <= 2 => \E p \in DOMAIN stream : OwnLine(m, p)
CleanInv == \A m \in Notifications : m.id \notin overlap => Clean(m)

\* The texts of one thread's messages are in the order they were begun, the
\* one it has yet to write last, and what was received was read.
Payload(i, t) == stream[i].text /\ stream[i].msg.kind # "log" /\ stream[i].msg.by = t
TextToCome(t) ==
    /\ Busy(t) /\ Current(t).kind # "log"
    /\ Len(todo[t]) >= IF Current(t).kind = "notification" THEN 4 ELSE 3
OrderInv ==
    \A t \in Threads :
        /\ \A i, j \in DOMAIN stream :
              Payload(i, t) /\ Payload(j, t) /\ i < j => stream[i].msg.id < stream[j].msg.id
        /\ TextToCome(t) =>
              \A i \in DOMAIN stream : Payload(i, t) => stream[i].msg.id < Current(t).id
ReceivedInv ==
    /\ received \in Seq(Msg)
    /\ \A k \in DOMAIN received :
          \E i \in DOMAIN stream :
             i <= read /\ stream[i].text /\ stream[i].msg = received[k] /\ received[k].kind # "log"
    /\ ReceivedInOrder

IInv == BegunInv /\ TodoInv /\ MutexInv /\ StreamInv /\ LastInv /\ VisibleInv /\ CleanInv
            /\ OrderInv /\ ReceivedInv
-----------------------------------------------------------------------------
\* A set of naturals that is not empty has a least element.
LEMMA LeastNatural ==
    ASSUME NEW T, T \subseteq Nat, T # {}
    PROVE  \E i \in T : \A j \in T : i <= j
<1>1. PICK i \in T : \A j \in T : ~ (<<j, i>> \in OpToRel(<, Nat))
  BY WFMin, NatLessThanWellFounded
<1>2. \A j \in T : ~ (j < i)
  BY <1>1 DEF OpToRel
<1>3. QED
  BY <1>2

\* The end of the next line is the first end after what was read.
LEMMA LineEndIsFirst ==
    ASSUME read \in Nat, LineEnds # {}
    PROVE  LineEnd \in LineEnds /\ \A j \in LineEnds : LineEnd <= j
<1>1. LineEnds \subseteq Nat
  BY DEF LineEnds
<1>2. \E i \in LineEnds : \A j \in LineEnds : i <= j
  BY <1>1, LeastNatural
<1>3. QED
  BY <1>2 DEF LineEnd

LEMMA InsType ==
    ASSUME NEW n \in Msg
    PROVE  /\ Text(n) \in Ins /\ Newline(n) \in Ins /\ TextLine(n) \in Ins
           /\ Op("flush", n) \in Ins /\ Op("lock", n) \in Ins /\ Op("unlock", n) \in Ins
           /\ Text(n).msg = n /\ Newline(n).msg = n /\ TextLine(n).msg = n
           /\ Op("flush", n).msg = n /\ Op("lock", n).msg = n /\ Op("unlock", n).msg = n
  BY DEF Ins, Text, Newline, TextLine, Op

\* What is left of a message's statements, by how much is left.
LEMMA LeftIns ==
    ASSUME NEW m \in Msg, NEW d \in Nat, d < Longest(m)
    PROVE  /\ Left(m, d) \in Ins /\ Left(m, d).msg \in {m, LogOf(m)}
           /\ Left(m, d).msg.id = m.id /\ Left(m, d).msg.by = m.by
           /\ Left(m, d).msg.kind \in {m.kind, "log"}
<1>1. m.kind \in Kinds /\ LogOf(m) \in Msg /\ LogOf(m).id = m.id /\ LogOf(m).by = m.by
      /\ LogOf(m).kind = "log"
  BY DEF Msg, LogOf, Kinds
<1>2. \A n \in {m, LogOf(m)} : \A x \in {Text(n), Newline(n), TextLine(n), Op("flush", n),
                                         Op("lock", n), Op("unlock", n)} : x \in Ins /\ x.msg = n
  BY <1>1, InsType
<1>3. Left(m, d) \in UNION {{Text(n), Newline(n), TextLine(n), Op("flush", n),
                             Op("lock", n), Op("unlock", n)} : n \in {m, LogOf(m)}}
  <2>1. CASE m.kind = "log"
    BY <2>1 DEF Left, LogLeft
  <2>2. CASE m.kind = "response"
    <3>1. d \in {0, 1, 2}
      BY <2>2 DEF Longest
    <3>2. QED
      BY <2>2, <3>1 DEF Left, ResponseLeft
  <2>3. CASE m.kind = "notification"
    <3>1. d \in {0, 1, 2, 3, 4, 5, 6, 7}
      BY <2>3 DEF Longest
    <3>2. QED
      BY <2>3, <3>1 DEF Left, NotifyLeft
  <2>4. QED
    BY <1>1, <2>1, <2>2, <2>3 DEF Kinds
<1>4. QED
  BY <1>1, <1>2, <1>3

LEMMA PositiveIsOne == \A n \in Nat \ {0} : n = 1 \/ n > 1
  OBVIOUS

LEMMA OneLess ==
    \A n \in Nat \ {0} : \A k \in Nat : n - 1 \in Nat /\ n = (n - 1) + 1 /\ (n <= k => n - 1 < k)
  OBVIOUS

LEMMA EmptyByLen ==
    ASSUME NEW S, NEW q \in Seq(S)
    PROVE  Len(q) \in Nat /\ (q = <<>> <=> Len(q) = 0)
  BY EmptySeq, LenProperties

\* The tail of a sequence of one element is empty, that of a longer one is not.
LEMMA TailEmpty ==
    ASSUME NEW S, NEW q \in Seq(S), q # <<>>
    PROVE  /\ Len(q) = 1 \/ Len(q) > 1
           /\ Tail(q) = <<>> <=> Len(q) = 1
<1>1. Len(q) \in Nat \ {0} /\ Tail(q) \in Seq(S) /\ Len(Tail(q)) = Len(q) - 1
  BY HeadTailProperties, EmptySeq
<1>2. Tail(q) = <<>> <=> Len(Tail(q)) = 0
  BY <1>1, EmptyByLen
<1>3. QED
  BY <1>1, <1>2

\* The fields of what is left that say where a thread is.
LEMMA LeftFields ==
    ASSUME NEW m \in Msg, NEW d \in Nat, d < Longest(m)
    PROVE  LET x == Left(m, d)
           IN  /\ m.kind = "notification" =>
                     /\ d = 0 => x.op = "unlock"
                     /\ d = 1 => x.op = "flush"
                     /\ d = 2 => x = Newline(m) /\ x.op = "put" /\ x.end /\ ~ x.text
                     /\ d = 3 => x = Text(m) /\ x.op = "put" /\ ~ x.end /\ x.text
                     /\ d = 4 => x.op = "lock"
                     /\ d >= 5 => x.op = "put" /\ x.msg = LogOf(m) /\ (x.end <=> d = 5)
               /\ m.kind = "response" =>
                     /\ d = 0 => x.op = "flush"
                     /\ d = 1 => x.op = "put" /\ x.msg = m /\ x.end /\ ~ x.text
                     /\ d = 2 => x.op = "put" /\ x.msg = m /\ ~ x.end /\ x.text
               /\ m.kind = "log" => x.op = "put" /\ x.msg = m /\ (x.end <=> d = 0)
<1>1. CASE m.kind = "notification"
  <2>1. d \in {0, 1, 2, 3, 4, 5, 6, 7}
    BY <1>1 DEF Longest
  <2>2. Left(m, d) = NotifyLeft(m, d)
    BY <1>1 DEF Left
  <2>3. QED
    BY <1>1, <2>1, <2>2 DEF NotifyLeft, Text, Newline, TextLine, Op
<1>2. CASE m.kind = "response"
  <2>1. d \in {0, 1, 2} /\ Left(m, d) = ResponseLeft(m, d)
    BY <1>2 DEF Longest, Left
  <2>2. QED
    BY <1>2, <2>1 DEF ResponseLeft, Text, Newline, Op
<1>3. CASE m.kind = "log"
  BY <1>3 DEF Left, LogLeft, Text, Newline
<1>4. QED
  BY <1>1, <1>2, <1>3 DEF Msg, Kinds

\* Where a busy thread is.
LEMMA AtCurrent ==
    ASSUME BegunInv, TodoInv, NEW t \in Threads, Busy(t)
    PROVE  /\ Len(todo[t]) \in Nat \ {0} /\ Len(todo[t]) <= Longest(Current(t))
           /\ Current(t) \in Msg /\ Current(t).by = t /\ Current(t).id \in DOMAIN begun
           /\ begun[Current(t).id] = Current(t)
           /\ Current(t).kind = "notification" <=> t = DataPlaneThread
           /\ todo[t][1] = Left(Current(t), Len(todo[t]) - 1) /\ todo[t][1] \in Ins
<1>1. todo[t] \in Seq(Ins) /\ todo[t] # <<>>
  BY DEF TodoInv, Busy
<1>2. Len(todo[t]) \in Nat \ {0} /\ DOMAIN todo[t] = 1..Len(todo[t])
  BY <1>1, EmptySeq, LenProperties
<1>3. todo[t][Len(todo[t])] \in Ins /\ todo[t][1] \in Ins
  BY <1>1, <1>2, ElementOfSeq
<1>4. Current(t) \in Msg
  BY <1>3 DEF Current, Ins
<1>5. /\ Current(t).by = t /\ Current(t).id \in DOMAIN begun
      /\ begun[Current(t).id] = Current(t) /\ IsRest(todo[t], Current(t))
  BY DEF TodoInv
<1>6. /\ Len(todo[t]) <= Longest(Current(t))
      /\ todo[t][1] = Left(Current(t), Len(todo[t]) - 1)
  BY <1>2, <1>5 DEF IsRest
<1>7. Current(t).kind = "notification" <=> t = DataPlaneThread
  BY <1>4, <1>5 DEF BegunInv
<1>8. QED
  BY <1>2, <1>3, <1>4, <1>5, <1>6, <1>7

\* A thread that does one thing has one less left to do.
LEMMA DoStep ==
    ASSUME BegunInv, TodoInv, NEW t \in Threads, NEW name, Do(t, name)
    PROVE  /\ Busy(t) /\ Left(Current(t), Len(todo[t]) - 1).op = name
           /\ Len(todo'[t]) = Len(todo[t]) - 1
           /\ Len(todo[t]) > 1 =>
                 Busy(t)' /\ Current(t)' = Current(t)
                    /\ todo'[t][1] = Left(Current(t), Len(todo[t]) - 2)
           /\ Len(todo[t]) = 1 => ~ Busy(t)'
           /\ \A u \in Threads \ {t} : todo'[u] = todo[u]
           /\ UNCHANGED begun => TodoInv'
<1> DEFINE s == todo[t]  L == Len(todo[t])  m == Current(t)
<1>1. s \in Seq(Ins) /\ s # <<>> /\ todo' = [todo EXCEPT ![t] = Tail(s)] /\ Busy(t)
      /\ todo \in [Threads -> Seq(Ins)]
  BY DEF TodoInv, Busy, Do
<1>2. L \in Nat \ {0} /\ L <= Longest(m) /\ todo[t][1] = Left(m, L - 1) /\ m \in Msg
  BY <1>1, AtCurrent
<1>3. /\ Tail(s) \in Seq(Ins) /\ Len(Tail(s)) = L - 1
      /\ \A i \in 1..(L - 1) : Tail(s)[i] = s[i + 1]
  BY <1>1, HeadTailProperties
<1>4. todo'[t] = Tail(s) /\ \A u \in Threads \ {t} : todo'[u] = todo[u]
  BY <1>1
<1>5. DOMAIN s = 1..L /\ DOMAIN Tail(s) = 1..(L - 1)
  BY <1>1, <1>2, <1>3, LenProperties
<1>6. \A i \in 1..L : s[i] = Left(m, L - i)
  BY <1>1, <1>5 DEF TodoInv, IsRest
<1>7. \A i \in 1..(L - 1) : Tail(s)[i] = Left(m, (L - 1) - i)
  <2> SUFFICES ASSUME NEW i \in 1..(L - 1) PROVE Tail(s)[i] = Left(m, (L - 1) - i)
    OBVIOUS
  <2>1. i + 1 \in 1..L /\ L - (i + 1) = (L - 1) - i
    BY <1>2
  <2>2. QED
    BY <1>3, <1>6, <2>1
<1>8. ASSUME L > 1
      PROVE  Busy(t)' /\ Current(t)' = m /\ todo'[t][1] = Left(m, L - 2)
  <2>1. L - 1 \in 1..(L - 1) /\ 1 \in 1..(L - 1) /\ (L - 1) - 1 = L - 2 /\ (L - 1) + 1 = L
    BY <1>2, <1>8
  <2>2. Tail(s) # <<>>
    BY <1>1, <1>8, TailEmpty
  <2>3. Tail(s)[L - 1] = s[L] /\ Tail(s)[1] = Left(m, L - 2)
    <3>1. Tail(s)[L - 1] = s[(L - 1) + 1]
      BY <1>3, <2>1
    <3>2. Tail(s)[1] = Left(m, (L - 1) - 1)
      BY <1>7, <2>1
    <3>3. QED
      BY <2>1, <3>1, <3>2
  <2>4. QED
    BY <1>3, <1>4, <2>2, <2>3 DEF Busy, Current
<1>9. ASSUME L = 1 PROVE ~ Busy(t)'
  <2>1. Tail(s) = <<>>
    BY <1>1, <1>9, TailEmpty
  <2>2. QED
    BY <1>4, <2>1 DEF Busy
<1>10. ASSUME UNCHANGED begun PROVE TodoInv'
  <2>1. todo' \in [Threads -> Seq(Ins)]
    BY <1>1, <1>3
  <2>2. ASSUME NEW u \in Threads, Busy(u)'
        PROVE  /\ Current(u)'.by = u /\ Current(u)'.id \in DOMAIN begun
               /\ begun[Current(u)'.id] = Current(u)'
               /\ IsRest(todo'[u], Current(u)')
    <3>1. CASE u = t
      <4>1. L > 1
        <5>1. L # 1
          BY <1>9, <2>2, <3>1
        <5>2. QED
          BY <1>1, <5>1, TailEmpty
      <4>2. Current(t)' = m /\ m.by = t /\ m.id \in DOMAIN begun /\ begun[m.id] = m
        BY <1>1, <1>8, <4>1 DEF TodoInv
      <4>3. IsRest(Tail(s), m)
        BY <1>2, <1>3, <1>5, <1>7 DEF IsRest, Longest
      <4>4. QED
        BY <1>4, <3>1, <4>2, <4>3
    <3>2. CASE u # t
      BY <1>4, <2>2, <3>2 DEF TodoInv, Busy, Current
    <3>3. QED
      BY <3>1, <3>2
  <2>3. QED
    BY <1>10, <2>1, <2>2 DEF TodoInv
<1>11. QED
  BY <1>1, <1>2, <1>3, <1>4, <1>8, <1>9, <1>10 DEF Do

\* A notification is a message of the data plane thread.
LEMMA NotificationIs ==
    ASSUME BegunInv, NEW m \in Notifications
    PROVE  /\ m \in Msg /\ m.kind = "notification" /\ m.by = DataPlaneThread
           /\ m.id \in DOMAIN begun /\ begun[m.id] = m
  BY LenProperties, ElementOfSeq DEF Notifications, BegunInv

\* How much of a notification is left, before and after a thread does a thing.
LEMMA LeftOfStep ==
    ASSUME BegunInv, TodoInv, NEW t \in Threads, NEW name, Do(t, name), NEW m \in Notifications
    PROVE  /\ LeftOf(m) \in 0..8
           /\ t # DataPlaneThread => LeftOf(m)' = LeftOf(m)
           /\ (t = DataPlaneThread /\ Current(t) = m) =>
                 LeftOf(m) = Len(todo[t]) /\ LeftOf(m)' = Len(todo[t]) - 1
           /\ (t = DataPlaneThread /\ Current(t) # m) => LeftOf(m) = 0 /\ LeftOf(m)' = 0
<1>1. DataPlaneThread \in Threads
  BY DEF Threads
<1>2. LeftOf(m) \in 0..8
  <2>1. CASE Busy(DataPlaneThread) /\ Current(DataPlaneThread) = m
    <3>1. \A n \in Nat \ {0} : n <= Longest(m) => n \in 0..8
      BY DEF Longest
    <3>2. LeftOf(m) = Len(todo[DataPlaneThread])
      BY <2>1 DEF LeftOf
    <3>3. Len(todo[DataPlaneThread]) \in Nat \ {0} /\ Len(todo[DataPlaneThread]) <= Longest(m)
      BY <1>1, <2>1, AtCurrent
    <3>4. QED
      BY <3>1, <3>2, <3>3
  <2>2. QED
    BY <2>1 DEF LeftOf
<1>3. CASE t # DataPlaneThread
  <2>1. todo'[DataPlaneThread] = todo[DataPlaneThread]
    BY <1>1, <1>3, DoStep
  <2>2. QED
    BY <1>2, <1>3, <2>1 DEF LeftOf, Busy, Current
<1>4. CASE t = DataPlaneThread
  <2>1. Busy(t) /\ Len(todo'[t]) = Len(todo[t]) - 1 /\ Len(todo[t]) \in Nat \ {0}
    BY DoStep, AtCurrent
  <2>2. CASE Len(todo[t]) > 1
    <3>1. Busy(t)' /\ Current(t)' = Current(t)
      BY <2>2, DoStep
    <3>2. QED
      BY <1>2, <1>4, <2>1, <3>1 DEF LeftOf
  <2>3. CASE Len(todo[t]) = 1
    <3>1. ~ Busy(t)'
      BY <2>3, DoStep
    <3>2. LeftOf(m)' = 0 /\ (Current(t) = m => LeftOf(m) = 1) /\ (Current(t) # m => LeftOf(m) = 0)
      BY <1>4, <2>1, <2>3, <3>1 DEF LeftOf
    <3>3. QED
      BY <1>2, <1>4, <2>3, <3>2
  <2>4. Len(todo[t]) = 1 \/ Len(todo[t]) > 1
    BY <2>1, PositiveIsOne
  <2>5. QED
    BY <2>2, <2>3, <2>4
<1>5. QED
  BY <1>3, <1>4
-----------------------------------------------------------------------------
\* The text a thread has yet to write can only become fewer.
LEMMA ToComeStep ==
    ASSUME BegunInv, TodoInv, NEW t \in Threads, NEW name, Do(t, name), NEW u \in Threads
    PROVE  /\ Busy(u)' => Busy(u)
           /\ TextToCome(u)' => TextToCome(u) /\ Current(u)' = Current(u)
<1>1. CASE u # t
  <2>1. todo'[u] = todo[u]
    BY <1>1, DoStep
  <2>2. QED
    BY <2>1 DEF Busy, TextToCome, Current
<1>2. CASE u = t
  <2>1. Busy(t) /\ Len(todo'[t]) = Len(todo[t]) - 1 /\ Len(todo[t]) \in Nat \ {0}
    BY DoStep, AtCurrent
  <2>2. CASE Len(todo[t]) > 1
    <3>1. Current(t)' = Current(t)
      BY <2>2, DoStep
    <3>2. QED
      BY <1>2, <2>1, <3>1 DEF TextToCome
  <2>3. CASE Len(todo[t]) = 1
    <3>1. ~ Busy(t)'
      BY <2>3, DoStep
    <3>2. QED
      BY <1>2, <2>1, <3>1 DEF TextToCome
  <2>4. Len(todo[t]) = 1 \/ Len(todo[t]) > 1
    BY <2>1, PositiveIsOne
  <2>5. QED
    BY <2>2, <2>3, <2>4
<1>3. QED
  BY <1>1, <1>2

\* What a step that writes nothing keeps.
LEMMA QuietStep ==
    ASSUME IInv, NEW t \in Threads, NEW name \in {"lock", "unlock", "flush"}, Do(t, name),
           UNCHANGED <<stream, read, received, begun, overlap>>,
           flushed' = flushed \/ flushed' = Len(stream)
    PROVE  BegunInv' /\ TodoInv' /\ StreamInv' /\ LastInv' /\ CleanInv' /\ OrderInv' /\ ReceivedInv'
<1>1. BegunInv /\ TodoInv /\ StreamInv /\ LastInv /\ CleanInv /\ OrderInv /\ ReceivedInv
  BY DEF IInv
<1>2. BegunInv' /\ TodoInv'
  BY <1>1, DoStep DEF BegunInv
<1>3. StreamInv'
  BY <1>1, LenProperties DEF StreamInv
<1>4. LastInv'
  <2> SUFFICES ASSUME stream # <<>>, ~ stream[Len(stream)].end
               PROVE  LET m == stream[Len(stream)].msg
                      IN  /\ m.by \in Threads /\ Busy(m.by)'
                          /\ todo'[m.by][1].op = "put" /\ todo'[m.by][1].msg = m
    BY DEF LastInv
  <2> DEFINE m == stream[Len(stream)].msg
  <2>1. m.by \in Threads /\ Busy(m.by) /\ todo[m.by][1].op = "put" /\ todo[m.by][1].msg = m
    BY <1>1 DEF LastInv
  <2>2. m.by # t
    BY <2>1 DEF Do
  <2>3. todo'[m.by] = todo[m.by]
    BY <1>1, <2>1, <2>2, DoStep
  <2>4. QED
    BY <2>1, <2>3 DEF Busy
<1>5. CleanInv'
  <2> SUFFICES ASSUME NEW m \in Notifications, m.id \notin overlap
               PROVE  Clean(m)'
    BY DEF CleanInv, Notifications
  <2>1. Clean(m) /\ LeftOf(m) \in 0..8
    BY <1>1, LeftOfStep DEF CleanInv
  <2>2. Positions(m)' = Positions(m) /\ \A p : StartsLine(p)' <=> StartsLine(p)
    BY DEF Positions, StartsLine
  <2>3. \A p : OwnLine(m, p) => OwnLine(m, p)'
    BY <2>2 DEF OwnLine, Received
  <2>4. /\ LeftOf(m)' = LeftOf(m) \/ LeftOf(m)' = LeftOf(m) - 1
        /\ LeftOf(m)' # LeftOf(m) => LeftOf(m) \in {1, 2, 5}
    <3>1. CASE t = DataPlaneThread /\ Current(t) = m
      <4> DEFINE d == Len(todo[t]) - 1
      <4>1. d \in Nat /\ d < Longest(m) /\ m \in Msg /\ m.kind = "notification" /\ Longest(m) = 8
        BY <1>1, <3>1, AtCurrent, DoStep, NotificationIs DEF Longest
      <4>2. Left(m, d).op = name
        BY <1>1, <3>1, DoStep
      <4>3. d \in {0, 1, 4}
        <5>1. d \in {0, 1, 2, 3, 4} \/ d >= 5
          <6>1. \A n \in Nat : n \in {0, 1, 2, 3, 4} \/ n >= 5
            OBVIOUS
          <6>2. QED
            BY <4>1, <6>1
        <5> HIDE DEF d
        <5>2. QED
          BY <4>1, <4>2, <5>1, LeftFields
      <4>4. LeftOf(m) = Len(todo[t]) /\ LeftOf(m)' = Len(todo[t]) - 1 /\ LeftOf(m) \in Nat
        BY <1>1, <3>1, LeftOfStep
      <4>5. \A n \in Nat : n - 1 \in {0, 1, 4} => n \in {1, 2, 5}
        OBVIOUS
      <4>6. QED
        BY <4>3, <4>4, <4>5
    <3>2. CASE ~ (t = DataPlaneThread /\ Current(t) = m)
      <4>1. LeftOf(m)' = LeftOf(m)
        BY <1>1, <3>2, LeftOfStep
      <4>2. QED
        BY <4>1
    <3>3. QED
      BY <3>1, <3>2
  <2>5. \A u \in Reactors : Busy(u)' => Busy(u)
    BY <1>1, ToComeStep DEF Threads
  <2> DEFINE l == LeftOf(m)
  <2>6. /\ LeftOf(m)' >= 1 => l >= 1
        /\ LeftOf(m)' >= 4 => l >= 4
        /\ LeftOf(m)' = 3 => l = 3
        /\ LeftOf(m)' <= 2 => l <= 2
    BY <2>1, <2>4
  <2>7. QED
    BY <2>1, <2>2, <2>3, <2>5, <2>6 DEF Clean
<1>6. OrderInv'
  BY <1>1, ToComeStep DEF OrderInv, Payload
<1>7. ReceivedInv'
  BY <1>1 DEF ReceivedInv, ReceivedInOrder
<1>8. QED
  BY <1>2, <1>3, <1>4, <1>5, <1>6, <1>7

\* Which thread does what, and how much it then has left.
LEMMA WhoDoes ==
    ASSUME BegunInv, TodoInv, NEW t \in Threads, NEW name, Do(t, name)
    PROVE  /\ name = "lock" => t = DataPlaneThread /\ Len(todo[t]) = 5
           /\ name = "unlock" => t = DataPlaneThread /\ Len(todo[t]) = 1
           /\ (name = "flush" /\ t = DataPlaneThread) => Len(todo[t]) = 2
           /\ (name = "put" /\ t = DataPlaneThread) => Len(todo[t]) \in {3, 4, 6, 7, 8}
<1> DEFINE d == Len(todo[t]) - 1
           m == Current(t)
<1>1. d \in Nat /\ d < Longest(m) /\ m \in Msg /\ Left(m, d).op = name
      /\ (m.kind = "notification" <=> t = DataPlaneThread) /\ Len(todo[t]) = d + 1
  <2>1. Busy(t) /\ m \in Msg /\ Left(m, d).op = name /\ (m.kind = "notification" <=> t = DataPlaneThread)
    BY AtCurrent, DoStep
  <2>2. Len(todo[t]) \in Nat \ {0} /\ Len(todo[t]) <= Longest(m) /\ Longest(m) \in Nat
    BY <2>1, AtCurrent DEF Longest
  <2>3. QED
    BY <2>1, <2>2, OneLess
<1> HIDE DEF d, m
<1>2. CASE m.kind = "notification"
  <2>1. d \in {0, 1, 2, 3, 4, 5, 6, 7}
    BY <1>1, <1>2 DEF Longest
  <2>2. (d = 0 /\ name = "unlock") \/ (d = 1 /\ name = "flush") \/ (d = 4 /\ name = "lock")
        \/ (d \in {2, 3, 5, 6, 7} /\ name = "put")
    BY <1>1, <1>2, <2>1, LeftFields
  <2>3. QED
    BY <1>1, <1>2, <2>2
<1>3. CASE m.kind = "response"
  <2>1. d \in {0, 1, 2}
    BY <1>1, <1>3 DEF Longest
  <2>2. name \in {"put", "flush"}
    BY <1>1, <1>3, <2>1, LeftFields
  <2>3. QED
    BY <1>1, <1>3, <2>2
<1>4. CASE m.kind = "log"
  <2>1. name = "put"
    BY <1>1, <1>4, LeftFields
  <2>2. QED
    BY <1>1, <1>4, <2>1
<1>5. QED
  BY <1>1, <1>2, <1>3, <1>4 DEF Msg, Kinds

\* A notification that is written out stays so while nothing is unwritten.
LEMMA VisibleStep ==
    ASSUME IInv, NEW t \in Threads, NEW name \in {"lock", "unlock", "flush"}, Do(t, name),
           UNCHANGED <<stream, begun>>,
           IF name = "flush" THEN flushed' = Len(stream) ELSE flushed' = flushed
    PROVE  VisibleInv'
<1>1. BegunInv /\ TodoInv /\ VisibleInv /\ stream \in Seq(Ins)
  BY DEF IInv, StreamInv
<1>2. CASE name = "flush"
  BY <1>1, <1>2, LenProperties DEF VisibleInv, Positions
<1>3. CASE name # "flush"
  <2> SUFFICES ASSUME NEW m \in Notifications, LeftOf(m)' \in {0, 1}, NEW i \in Positions(m)
               PROVE  i <= flushed
    BY <1>3 DEF VisibleInv, Notifications, Positions
  <2>1. LeftOf(m) \in {0, 1}
    <3>1. CASE t = DataPlaneThread /\ Current(t) = m
      <4>1. LeftOf(m) = Len(todo[t]) /\ LeftOf(m)' = Len(todo[t]) - 1
        BY <1>1, <3>1, LeftOfStep
      <4>2. Len(todo[t]) = 5 \/ Len(todo[t]) = 1
        BY <1>1, <1>3, WhoDoes
      <4>3. \A n \in {5, 1} : n - 1 \in {0, 1} => n \in {0, 1}
        OBVIOUS
      <4>4. QED
        BY <4>1, <4>2, <4>3
    <3>2. CASE ~ (t = DataPlaneThread /\ Current(t) = m)
      BY <1>1, <3>2, LeftOfStep
    <3>3. QED
      BY <3>1, <3>2
  <2>2. QED
    BY <1>1, <2>1 DEF VisibleInv
<1>4. QED
  BY <1>2, <1>3

\* The mutex is the data plane's from its lock to its unlock.
LEMMA MutexStep ==
    ASSUME BegunInv, TodoInv, MutexInv, NEW t \in Threads, NEW name, Do(t, name),
           IF name = "lock" THEN cout_mtx' = t
           ELSE IF name = "unlock" THEN cout_mtx' = Nobody ELSE cout_mtx' = cout_mtx,
           name \in {"lock", "unlock", "put", "flush"}
    PROVE  MutexInv'
<1>1. cout_mtx' \in Threads \cup {Nobody}
  BY DEF MutexInv
<1>2. DataPlaneThread \in Threads
  BY DEF Threads
<1>3. ASSUME Len(todo'[DataPlaneThread]) \in 1..4 PROVE cout_mtx' = DataPlaneThread
  <2>1. CASE t = DataPlaneThread
    <3>1. Len(todo'[t]) = Len(todo[t]) - 1
      BY DoStep
    <3>2. CASE name = "lock"
      BY <2>1, <3>2
    <3>3. CASE name = "unlock"
      <4>1. Len(todo[t]) = 1
        BY <3>3, WhoDoes
      <4>2. QED
        BY <1>3, <2>1, <3>1, <4>1
    <3>4. CASE name \in {"put", "flush"}
      <4>1. Len(todo[t]) \in {2, 3, 4, 6, 7, 8}
        BY <2>1, <3>4, WhoDoes
      <4>2. Len(todo[t]) \in 1..4
        <5>1. \A n \in {2, 3, 4, 6, 7, 8} : n - 1 \in 1..4 => n \in 1..4
          OBVIOUS
        <5>2. QED
          BY <1>3, <2>1, <3>1, <4>1, <5>1
      <4>3. QED
        BY <2>1, <3>4, <4>2 DEF MutexInv
    <3>5. QED
      BY <3>2, <3>3, <3>4
  <2>2. CASE t # DataPlaneThread
    <3>1. todo'[DataPlaneThread] = todo[DataPlaneThread]
      BY <1>2, <2>2, DoStep
    <3>2. name \notin {"lock", "unlock"}
      BY <2>2, WhoDoes
    <3>3. QED
      BY <1>3, <3>1, <3>2 DEF MutexInv
  <2>3. QED
    BY <2>1, <2>2
<1>4. QED
  BY <1>1, <1>3 DEF MutexInv

LEMMA LockInv ==
    ASSUME IInv, NEW t \in Threads, Lock(t) \/ Unlock(t) \/ Flush(t)
    PROVE  IInv'
<1>1. PICK name \in {"lock", "unlock", "flush"} :
         /\ Do(t, name) /\ UNCHANGED <<stream, read, received, begun, overlap>>
         /\ IF name = "flush" THEN flushed' = Len(stream) ELSE flushed' = flushed
         /\ IF name = "lock" THEN cout_mtx' = t
            ELSE IF name = "unlock" THEN cout_mtx' = Nobody ELSE cout_mtx' = cout_mtx
  BY DEF Lock, Unlock, Flush
<1>2. BegunInv' /\ TodoInv' /\ StreamInv' /\ LastInv' /\ CleanInv' /\ OrderInv' /\ ReceivedInv'
  BY <1>1, QuietStep
<1>3. MutexInv'
  BY <1>1, MutexStep DEF IInv
<1>4. VisibleInv'
  BY <1>1, VisibleStep
<1>5. QED
  BY <1>2, <1>3, <1>4 DEF IInv
-----------------------------------------------------------------------------
\* A notification on a line of its own is what the pump parses of that line.
LEMMA OwnLineParsed ==
    ASSUME StreamInv, LineEnds # {}, NEW m \in Msg, NEW p \in DOMAIN stream, OwnLine(m, p),
           m.kind # "log", read < p + 1, p + 1 <= LineEnd
    PROVE  ParsedLine(LineEnd) = {m}
<1>1. /\ read \in Nat /\ flushed \in Nat /\ p \in Nat \ {0}
      /\ stream[p] = Text(m) /\ stream[p + 1] = Newline(m) /\ StartsLine(p)
      /\ DOMAIN stream = 1..Len(stream) /\ Len(stream) \in Nat /\ flushed <= Len(stream)
      /\ read # 0 => stream[read].end
  BY LenProperties DEF StreamInv, OwnLine
<1>2. LineEnd \in LineEnds /\ \A j \in LineEnds : LineEnd <= j
  BY <1>1, LineEndIsFirst
<1>3. LineEnd \in (read + 1)..flushed
  BY <1>2 DEF LineEnds
<1>4. LineEnd = p + 1
  <2>1. p + 1 \in LineEnds
    BY <1>1, <1>3 DEF LineEnds, Newline
  <2>2. QED
    BY <1>1, <1>2, <1>3, <2>1
<1>5. read = p - 1
  <2>1. read # p
    BY <1>1 DEF Text
  <2>2. ~ (read + 1 <= p - 1)
    <3> SUFFICES ASSUME read + 1 <= p - 1 PROVE FALSE
      OBVIOUS
    <3>1. p # 1 /\ p - 1 \in (read + 1)..flushed
      BY <1>1, <1>3, <1>4
    <3>2. p - 1 \in LineEnds
      BY <1>1, <3>1 DEF LineEnds, StartsLine
    <3>3. QED
      BY <1>1, <1>2, <1>4, <3>2
  <2>3. QED
    BY <1>1, <2>1, <2>2
<1>6. LineText(LineEnd) = {p}
  <2>1. (read + 1)..LineEnd = {p, p + 1}
    BY <1>1, <1>4, <1>5
  <2>2. QED
    BY <1>1, <2>1 DEF LineText, Text, Newline
<1>7. Cardinality({p}) = 1
  BY FS_Singleton
<1>8. {stream[i].msg : i \in {j \in {p} : stream[j].msg.kind # "log"}} = {m}
  BY <1>1 DEF Text
<1>9. QED
  BY <1>6, <1>7, <1>8 DEF ParsedLine

LEMMA ReadLineInv == ASSUME IInv, ReadLine PROVE IInv'
<1> DEFINE e == LineEnd
<1>1. /\ BegunInv /\ TodoInv /\ MutexInv /\ StreamInv /\ LastInv /\ VisibleInv /\ CleanInv
      /\ OrderInv /\ ReceivedInv
      /\ LineEnds # {} /\ read' = e
      /\ UNCHANGED <<todo, cout_mtx, stream, flushed, begun, overlap>>
      /\ \/ \E m \in ParsedLine(e) : received' = Append(received, m)
         \/ ParsedLine(e) = {} /\ received' = received
  BY DEF IInv, ReadLine
<1>2. /\ BegunInv' /\ MutexInv' /\ LastInv' /\ OrderInv' /\ VisibleInv'
  BY <1>1 DEF BegunInv, MutexInv, LastInv, Busy, OrderInv, TextToCome, Current, Payload,
              VisibleInv, LeftOf, Positions, Notifications
<1>3. TodoInv'
  BY <1>1 DEF TodoInv, Busy, Current
<1>4. /\ read \in Nat /\ flushed \in Nat /\ flushed <= Len(stream) /\ Len(stream) \in Nat
      /\ DOMAIN stream = 1..Len(stream) /\ stream \in Seq(Ins)
  BY <1>1, LenProperties DEF StreamInv
<1>5. e \in (read + 1)..flushed /\ stream[e].end
  <2>1. e \in LineEnds
    BY <1>1, <1>4, LineEndIsFirst
  <2> HIDE DEF e
  <2>2. QED
    BY <2>1 DEF LineEnds
<1> HIDE DEF e
<1>6. StreamInv'
  BY <1>1, <1>4, <1>5 DEF StreamInv
<1>7. \A m \in ParsedLine(e) :
         \E i \in (read + 1)..e : stream[i].text /\ stream[i].msg = m /\ m.kind # "log"
  BY DEF ParsedLine, LineText
<1>8. received \in Seq(Msg) /\ Len(received) \in Nat /\ DOMAIN received = 1..Len(received)
  BY <1>1, LenProperties DEF ReceivedInv
<1>9. ReceivedInv' /\ \A m \in Received : m \in Received'
  <2>1. CASE received' = received
    BY <1>1, <1>4, <1>5, <2>1 DEF ReceivedInv, ReceivedInOrder, Received
  <2>2. ASSUME NEW m \in ParsedLine(e), received' = Append(received, m)
        PROVE  ReceivedInv' /\ \A n \in Received : n \in Received'
    <3>1. PICK i \in (read + 1)..e : stream[i].text /\ stream[i].msg = m /\ m.kind # "log"
      BY <1>7
    <3>2. i \in DOMAIN stream /\ i <= e /\ read < i
      BY <1>4, <1>5
    <3>3. m \in Msg
      <4>1. stream[i] \in Ins
        BY <1>4, <3>2, ElementOfSeq
      <4>2. QED
        BY <3>1, <4>1 DEF Ins
    <3>4. /\ received' \in Seq(Msg) /\ Len(received') = Len(received) + 1
          /\ DOMAIN received' = 1..(Len(received) + 1)
          /\ received'[Len(received) + 1] = m
          /\ \A k \in 1..Len(received) : received'[k] = received[k]
      BY <1>8, <2>2, <3>3, AppendProperties, LenProperties
    <3>5. \A k \in DOMAIN received' :
             \E j \in DOMAIN stream :
                j <= e /\ stream[j].text /\ stream[j].msg = received'[k] /\ received'[k].kind # "log"
      <4> SUFFICES ASSUME NEW k \in DOMAIN received'
                   PROVE  \E j \in DOMAIN stream :
                             /\ j <= e /\ stream[j].text /\ stream[j].msg = received'[k]
                             /\ received'[k].kind # "log"
        OBVIOUS
      <4>1. CASE k = Len(received) + 1
        BY <3>1, <3>2, <3>4, <4>1
      <4>2. CASE k \in DOMAIN received
        <5>1. PICK j \in DOMAIN stream :
                 j <= read /\ stream[j].text /\ stream[j].msg = received[k] /\ received[k].kind # "log"
          BY <1>1, <4>2 DEF ReceivedInv
        <5>2. j <= e
          BY <1>4, <1>5, <5>1
        <5>3. QED
          BY <1>8, <3>4, <4>2, <5>1, <5>2
      <4>3. QED
        BY <1>8, <3>4, <4>1, <4>2
    <3>6. ASSUME NEW k \in DOMAIN received, received[k].by = m.by
          PROVE  received[k].id < m.id
      <4>1. PICK j \in DOMAIN stream :
               j <= read /\ stream[j].text /\ stream[j].msg = received[k] /\ received[k].kind # "log"
        BY <1>1 DEF ReceivedInv
      <4>2. j < i /\ Payload(j, m.by) /\ Payload(i, m.by) /\ m.by \in Threads
        BY <1>4, <3>1, <3>2, <3>3, <3>6, <4>1 DEF Payload, Msg
      <4>3. QED
        BY <1>1, <3>1, <3>2, <4>1, <4>2 DEF OrderInv
    <3>7. ReceivedInOrder'
      <4> SUFFICES ASSUME NEW k \in DOMAIN received', NEW l \in DOMAIN received', k < l,
                          received'[k].by = received'[l].by
                   PROVE  received'[k].id < received'[l].id
        BY DEF ReceivedInOrder
      <4>1. k \in DOMAIN received /\ received'[k] = received[k]
        BY <1>8, <3>4
      <4>2. CASE l \in DOMAIN received
        BY <1>1, <1>8, <3>4, <4>1, <4>2 DEF ReceivedInv, ReceivedInOrder
      <4>3. CASE l = Len(received) + 1
        BY <3>4, <3>6, <4>1, <4>3
      <4>4. QED
        BY <1>8, <3>4, <4>2, <4>3
    <3>8. \A n \in Received : n \in Received'
      BY <1>8, <3>4 DEF Received
    <3>9. QED
      BY <1>1, <3>4, <3>5, <3>7, <3>8 DEF ReceivedInv
  <2>3. QED
    BY <1>1, <2>1, <2>2
<1>10. CleanInv'
  <2> SUFFICES ASSUME NEW m \in Notifications, m.id \notin overlap
               PROVE  Clean(m)'
    BY <1>1 DEF CleanInv, Notifications
  <2>1. Clean(m) /\ m \in Msg /\ m.kind # "log"
    BY <1>1, NotificationIs DEF CleanInv
  <2>2. /\ LeftOf(m)' = LeftOf(m) /\ Positions(m)' = Positions(m)
        /\ \A p : StartsLine(p)' <=> StartsLine(p)
        /\ \A u : Busy(u)' <=> Busy(u)
    BY <1>1 DEF LeftOf, Positions, StartsLine, Busy, Current
  <2>3. ASSUME NEW p \in DOMAIN stream, OwnLine(m, p)
        PROVE  OwnLine(m, p)'
    <3>1. ASSUME p + 1 <= e PROVE m \in Received'
      <4>1. CASE p + 1 <= read
        BY <1>9, <2>3, <4>1 DEF OwnLine
      <4>2. CASE read < p + 1
        <5>1. ParsedLine(e) = {m}
          BY <1>1, <2>1, <2>3, <3>1, <4>2, OwnLineParsed DEF e
        <5>2. received' = Append(received, m)
          BY <1>1, <5>1
        <5>3. Len(received) + 1 \in DOMAIN received' /\ received'[Len(received) + 1] = m
          BY <1>8, <2>1, <5>2, AppendProperties, LenProperties
        <5>4. QED
          BY <5>3 DEF Received
      <4>3. QED
        BY <1>4, <4>1, <4>2
    <3>2. QED
      BY <1>1, <2>2, <2>3, <3>1 DEF OwnLine
  <2>4. QED
    BY <1>1, <2>1, <2>2, <2>3 DEF Clean
<1>11. QED
  BY <1>2, <1>3, <1>6, <1>9, <1>10 DEF IInv
-----------------------------------------------------------------------------
\* What an insertion by thread t adds to the stream.
LEMMA PutShape ==
    ASSUME IInv, NEW t \in Threads, Put(t)
    PROVE  LET x == todo[t][1]
               m == Current(t)
           IN  /\ Do(t, "put") /\ x \in Ins /\ x = Left(m, Len(todo[t]) - 1) /\ x.op = "put"
               /\ Len(todo[t]) \in Nat \ {0} /\ Len(todo[t]) <= Longest(m) /\ m \in Msg
               /\ x.msg.by = t /\ x.msg.id = m.id /\ x.msg.id \in DOMAIN begun
               /\ x.msg.kind # "log" => x.msg = m /\ begun[m.id] = m
               /\ m.kind = "notification" <=> t = DataPlaneThread
               /\ stream \in Seq(Ins) /\ Len(stream) \in Nat /\ DOMAIN stream = 1..Len(stream)
               /\ stream' \in Seq(Ins) /\ Len(stream') = Len(stream) + 1 /\ stream' # <<>>
               /\ DOMAIN stream' = 1..(Len(stream) + 1)
               /\ stream'[Len(stream) + 1] = x
               /\ \A i \in 1..Len(stream) : stream'[i] = stream[i]
               /\ UNCHANGED <<cout_mtx, read, received, begun, overlap>>
               /\ flushed' \in {flushed, Len(stream)}
<1> DEFINE x == todo[t][1]
           m == Current(t)
           d == Len(todo[t]) - 1
<1>1. BegunInv /\ TodoInv /\ StreamInv /\ Do(t, "put") /\ Busy(t)
  BY DEF IInv, Put, Do
<1>2. /\ Len(todo[t]) \in Nat \ {0} /\ Len(todo[t]) <= Longest(m) /\ m \in Msg /\ m.by = t
      /\ m.id \in DOMAIN begun /\ begun[m.id] = m
      /\ (m.kind = "notification" <=> t = DataPlaneThread)
      /\ x = Left(m, d) /\ x \in Ins /\ Longest(m) \in Nat
  BY <1>1, AtCurrent DEF Longest
<1>3. d \in Nat /\ d < Longest(m)
  BY <1>2, OneLess
<1>4. x.msg \in {m, LogOf(m)} /\ x.msg.id = m.id /\ x.msg.by = m.by
  BY <1>2, <1>3, LeftIns
<1>5. LogOf(m).kind = "log"
  BY <1>2 DEF LogOf, Msg
<1>6. stream \in Seq(Ins) /\ Len(stream) \in Nat /\ DOMAIN stream = 1..Len(stream)
  BY <1>1, LenProperties DEF StreamInv
<1>7. /\ stream' = Append(stream, x) /\ UNCHANGED <<cout_mtx, read, received, begun, overlap>>
      /\ flushed' \in {flushed, Len(stream)} /\ x.op = "put"
  BY <1>1 DEF Put, Do
<1> HIDE DEF x
<1>8. /\ stream' \in Seq(Ins) /\ Len(stream') = Len(stream) + 1 /\ stream' # <<>>
      /\ stream'[Len(stream) + 1] = x /\ \A i \in 1..Len(stream) : stream'[i] = stream[i]
  BY <1>2, <1>6, <1>7, AppendProperties
<1>9. DOMAIN stream' = 1..(Len(stream) + 1)
  BY <1>8, LenProperties
<1>10. QED
  BY <1>1, <1>2, <1>4, <1>5, <1>6, <1>7, <1>8, <1>9 DEF x

\* A line that stands on its own goes on doing so when more is written.
LEMMA OwnLineKept ==
    ASSUME IInv, NEW t \in Threads, Put(t), NEW m, NEW p \in DOMAIN stream, OwnLine(m, p),
           todo[t][1].msg # m
    PROVE  OwnLine(m, p)'
<1>1. /\ stream'[Len(stream) + 1].msg # m /\ DOMAIN stream = 1..Len(stream)
      /\ Len(stream) \in Nat /\ Len(stream') = Len(stream) + 1
      /\ DOMAIN stream' = 1..(Len(stream) + 1) /\ \A i \in 1..Len(stream) : stream'[i] = stream[i]
      /\ UNCHANGED <<read, received>>
  BY PutShape
<1>2. Positions(m)' = Positions(m)
  BY <1>1 DEF Positions
<1>3. p \in Nat \ {0} /\ p + 1 <= Len(stream)
  BY DEF OwnLine
<1>4. StartsLine(p)'
  <2>1. CASE p = 1
    BY <2>1 DEF StartsLine
  <2>2. CASE p # 1
    <3>1. p - 1 \in 1..Len(stream)
      BY <1>1, <1>3, <2>2
    <3>2. QED
      BY <1>1, <2>2, <3>1 DEF OwnLine, StartsLine
  <2>3. QED
    BY <2>1, <2>2
<1>5. stream'[p] = stream[p] /\ stream'[p + 1] = stream[p + 1]
  BY <1>1, <1>3
<1>6. QED
  BY <1>1, <1>2, <1>3, <1>4, <1>5 DEF OwnLine, Received

LEMMA PutStream ==
    ASSUME IInv, NEW t \in Threads, Put(t)
    PROVE  BegunInv' /\ TodoInv' /\ MutexInv' /\ StreamInv' /\ LastInv' /\ ReceivedInv'
<1> DEFINE x == todo[t][1]
           m == Current(t)
           L == Len(todo[t])
<1>1. BegunInv /\ TodoInv /\ MutexInv /\ StreamInv /\ LastInv /\ ReceivedInv
  BY DEF IInv
<1>2. /\ Do(t, "put") /\ x \in Ins /\ x = Left(m, L - 1) /\ x.op = "put"
      /\ L \in Nat \ {0} /\ L <= Longest(m) /\ m \in Msg
      /\ x.msg.by = t /\ x.msg.id = m.id /\ x.msg.id \in DOMAIN begun
      /\ (x.msg.kind # "log" => x.msg = m /\ begun[m.id] = m)
      /\ Len(stream) \in Nat /\ DOMAIN stream = 1..Len(stream)
      /\ stream' \in Seq(Ins) /\ Len(stream') = Len(stream) + 1 /\ stream' # <<>>
      /\ DOMAIN stream' = 1..(Len(stream) + 1)
      /\ stream'[Len(stream) + 1] = x
      /\ \A i \in 1..Len(stream) : stream'[i] = stream[i]
      /\ UNCHANGED <<cout_mtx, read, received, begun, overlap>>
      /\ flushed' \in {flushed, Len(stream)}
  BY PutShape
<1>3. BegunInv' /\ TodoInv'
  BY <1>1, <1>2, DoStep DEF BegunInv
<1>4. MutexInv'
  BY <1>1, <1>2, MutexStep
<1> HIDE DEF x
<1>5. StreamInv'
  <2>1. \A i \in DOMAIN stream' :
           /\ stream'[i].op = "put" /\ stream'[i].msg.id \in DOMAIN begun
           /\ stream'[i].msg.kind # "log" => begun[stream'[i].msg.id] = stream'[i].msg
    <3> SUFFICES ASSUME NEW i \in DOMAIN stream'
                 PROVE  /\ stream'[i].op = "put" /\ stream'[i].msg.id \in DOMAIN begun
                        /\ stream'[i].msg.kind # "log" => begun[stream'[i].msg.id] = stream'[i].msg
      OBVIOUS
    <3>1. CASE i = Len(stream) + 1
      BY <1>2, <3>1
    <3>2. CASE i \in DOMAIN stream
      BY <1>1, <1>2, <3>2 DEF StreamInv
    <3>3. QED
      BY <1>2, <3>1, <3>2
  <2>2. read' # 0 => stream'[read'].end
    BY <1>1, <1>2 DEF StreamInv
  <2>3. read' <= flushed' /\ flushed' <= Len(stream') /\ flushed' \in Nat /\ read' \in Nat
    BY <1>1, <1>2 DEF StreamInv
  <2>4. QED
    BY <1>2, <2>1, <2>2, <2>3 DEF StreamInv
<1>6. LastInv'
  <2> SUFFICES ASSUME ~ x.end
               PROVE  t \in Threads /\ Busy(t)' /\ todo'[t][1].op = "put" /\ todo'[t][1].msg = x.msg
    BY <1>2 DEF LastInv
  <2> DEFINE d == L - 1
  <2>1. d \in Nat /\ d < Longest(m) /\ L = d + 1 /\ x = Left(m, d)
    BY <1>2, OneLess DEF Longest
  <2>2. d # 0 /\ (m.kind = "notification" => d \in {3, 6, 7}) /\ (m.kind = "response" => d = 2)
    <3> HIDE DEF d
    <3>1. CASE m.kind = "notification"
      <4>1. d \in {0, 1, 2, 3, 4, 5, 6, 7}
        BY <2>1, <3>1 DEF Longest
      <4>2. d \notin {0, 1, 2, 4, 5}
        BY <1>2, <2>1, <3>1, LeftFields
      <4>3. QED
        BY <3>1, <4>1, <4>2
    <3>2. CASE m.kind = "response"
      <4>1. d \in {0, 1, 2}
        BY <2>1, <3>2 DEF Longest
      <4>2. QED
        BY <1>2, <2>1, <3>2, <4>1, LeftFields
    <3>3. CASE m.kind = "log"
      BY <1>2, <2>1, <3>3, LeftFields
    <3>4. QED
      BY <1>2, <3>1, <3>2, <3>3 DEF Msg, Kinds
  <2>3. L > 1 /\ L - 2 = d - 1 /\ d - 1 \in Nat /\ d - 1 < Longest(m)
    <3>1. \A n \in Nat : \A k \in Nat : (n # 0 /\ n < k) =>
             n + 1 > 1 /\ (n + 1) - 2 = n - 1 /\ n - 1 \in Nat /\ n - 1 < k
      OBVIOUS
    <3>2. Longest(m) \in Nat
      BY DEF Longest
    <3> HIDE DEF d
    <3>3. QED
      BY <2>1, <2>2, <3>1, <3>2
  <2>4. Busy(t)' /\ todo'[t][1] = Left(m, d - 1)
    BY <1>1, <1>2, <2>3, DoStep
  <2>5. Left(m, d - 1).op = "put" /\ Left(m, d - 1).msg = Left(m, d).msg
    <3> HIDE DEF d
    <3>1. CASE m.kind = "notification"
      <4>1. Newline(m).msg = m /\ Text(m).msg = m
        BY DEF Newline, Text
      <4>2. d - 1 \in {2, 5, 6}
        BY <2>2, <3>1
      <4>3. d = 3 \/ d \in {6, 7}
        BY <2>2, <3>1
      <4>4. QED
        BY <1>2, <2>1, <2>3, <3>1, <4>1, <4>2, <4>3, LeftFields
    <3>2. CASE m.kind = "response"
      BY <1>2, <2>1, <2>2, <2>3, <3>2, LeftFields
    <3>3. CASE m.kind = "log"
      BY <1>2, <2>1, <2>3, <3>3, LeftFields
    <3>4. QED
      BY <1>2, <3>1, <3>2, <3>3 DEF Msg, Kinds
  <2>6. QED
    BY <1>2, <2>4, <2>5
<1>7. ReceivedInv'
  <2>1. received \in Seq(Msg) /\ ReceivedInOrder
    BY <1>1 DEF ReceivedInv
  <2>2. ASSUME NEW k \in DOMAIN received
        PROVE  \E i \in DOMAIN stream' : /\ i <= read /\ stream'[i].text
                                         /\ stream'[i].msg = received[k] /\ received[k].kind # "log"
    <3>1. PICK i \in DOMAIN stream :
             i <= read /\ stream[i].text /\ stream[i].msg = received[k] /\ received[k].kind # "log"
      BY <1>1 DEF ReceivedInv
    <3>2. i \in DOMAIN stream' /\ stream'[i] = stream[i]
      BY <1>2
    <3>3. QED
      BY <3>1, <3>2
  <2>3. ReceivedInOrder'
    BY <1>2, <2>1 DEF ReceivedInOrder
  <2>4. QED
    BY <1>2, <2>1, <2>2, <2>3 DEF ReceivedInv
<1>8. QED
  BY <1>3, <1>4, <1>5, <1>6, <1>7

\* An insertion is part of notification m only if the data plane thread is at
\* the text or the newline of m.
LEMMA PutOfNotification ==
    ASSUME IInv, NEW t \in Threads, Put(t), NEW m \in Notifications
    PROVE  /\ ~ (t = DataPlaneThread /\ Current(t) = m) =>
                 todo[t][1].msg # m /\ LeftOf(m)' = LeftOf(m)
           /\ (t = DataPlaneThread /\ Current(t) = m) =>
                 /\ LeftOf(m) \in {3, 4, 6, 7, 8} /\ LeftOf(m)' = LeftOf(m) - 1
                 /\ LeftOf(m) >= 6 => todo[t][1].msg # m
                 /\ LeftOf(m) = 4 => todo[t][1] = Text(m)
                 /\ LeftOf(m) = 3 => todo[t][1] = Newline(m)
<1>1. BegunInv /\ TodoInv /\ Do(t, "put")
  BY DEF IInv, Put
<1>2. m \in Msg /\ m.kind = "notification" /\ m.by = DataPlaneThread
  BY <1>1, NotificationIs
<1>3. CASE ~ (t = DataPlaneThread /\ Current(t) = m)
  <2>1. LeftOf(m)' = LeftOf(m)
    BY <1>1, <1>3, LeftOfStep
  <2>2. todo[t][1].msg # m
    BY <1>2, <1>3, PutShape
  <2>3. QED
    BY <1>3, <2>1, <2>2
<1>4. CASE t = DataPlaneThread /\ Current(t) = m
  <2> DEFINE d == Len(todo[t]) - 1
  <2>1. LeftOf(m) = Len(todo[t]) /\ LeftOf(m)' = Len(todo[t]) - 1
    BY <1>1, <1>4, LeftOfStep
  <2>2. Len(todo[t]) \in {3, 4, 6, 7, 8}
    BY <1>1, <1>4, WhoDoes
  <2>3. d \in Nat /\ d < Longest(m) /\ todo[t][1] = Left(m, d)
    <3>1. Len(todo[t]) \in Nat \ {0} /\ Len(todo[t]) <= Longest(m) /\ Longest(m) \in Nat
          /\ todo[t][1] = Left(m, d)
      BY <1>4, PutShape DEF Longest
    <3>2. QED
      BY <3>1, OneLess
  <2>4. \A n \in {3, 4, 6, 7, 8} : /\ n >= 6 => n - 1 >= 5
                                   /\ n = 4 => n - 1 = 3
                                   /\ n = 3 => n - 1 = 2
    OBVIOUS
  <2>5. LogOf(m) # m
    BY <1>2 DEF LogOf, Msg
  <2>6. /\ Len(todo[t]) >= 6 => d >= 5
        /\ Len(todo[t]) = 4 => d = 3
        /\ Len(todo[t]) = 3 => d = 2
    BY <2>2, <2>4
  <2> HIDE DEF d
  <2>7. /\ d >= 5 => todo[t][1].msg # m
        /\ d = 3 => todo[t][1] = Text(m)
        /\ d = 2 => todo[t][1] = Newline(m)
    BY <1>2, <2>3, <2>5, LeftFields
  <2>8. QED
    BY <1>4, <2>1, <2>2, <2>6, <2>7
<1>5. QED
  BY <1>3, <1>4

LEMMA PutVisible ==
    ASSUME IInv, NEW t \in Threads, Put(t)
    PROVE  VisibleInv'
<1>1. /\ VisibleInv /\ StreamInv /\ UNCHANGED begun
      /\ flushed \in Nat /\ flushed' \in Nat /\ flushed <= flushed'
      /\ Len(stream) \in Nat /\ DOMAIN stream = 1..Len(stream)
      /\ DOMAIN stream' = 1..(Len(stream) + 1) /\ stream'[Len(stream) + 1] = todo[t][1]
      /\ \A i \in 1..Len(stream) : stream'[i] = stream[i]
  BY PutShape DEF IInv, StreamInv
<1> SUFFICES ASSUME NEW m \in Notifications, LeftOf(m)' \in {0, 1}, NEW i \in Positions(m)'
             PROVE  i <= flushed'
  BY <1>1 DEF VisibleInv, Notifications
<1>2. ~ (t = DataPlaneThread /\ Current(t) = m)
  <2>1. \A n \in {3, 4, 6, 7, 8} : n - 1 \notin {0, 1}
    OBVIOUS
  <2>2. QED
    BY <2>1, PutOfNotification
<1>3. LeftOf(m) \in {0, 1} /\ todo[t][1].msg # m
  BY <1>2, PutOfNotification
<1>4. i \in Positions(m)
  BY <1>1, <1>3 DEF Positions
<1>5. i \in DOMAIN stream /\ i <= flushed
  BY <1>1, <1>3, <1>4 DEF VisibleInv, Positions
<1>6. QED
  BY <1>1, <1>5

LEMMA PutClean ==
    ASSUME IInv, NEW t \in Threads, Put(t)
    PROVE  CleanInv'
<1>1. /\ BegunInv /\ TodoInv /\ CleanInv /\ StreamInv /\ LastInv
      /\ UNCHANGED <<begun, overlap, read, received>> /\ Do(t, "put")
      /\ Len(stream) \in Nat /\ DOMAIN stream = 1..Len(stream)
      /\ stream' # <<>> /\ Len(stream') = Len(stream) + 1
      /\ DOMAIN stream' = 1..(Len(stream) + 1) /\ stream'[Len(stream) + 1] = todo[t][1]
      /\ \A i \in 1..Len(stream) : stream'[i] = stream[i]
      /\ stream \in Seq(Ins)
  BY PutShape DEF IInv
<1> SUFFICES ASSUME NEW m \in Notifications, m.id \notin overlap
             PROVE  Clean(m)'
  BY <1>1 DEF CleanInv, Notifications
<1> PICK N \in Nat : N = Len(stream)
  BY <1>1
<1>2. Clean(m) /\ LeftOf(m) \in 0..8
  BY <1>1, LeftOfStep DEF CleanInv
<1>3. \A u \in Reactors : Busy(u)' => Busy(u)
  BY <1>1, ToComeStep DEF Threads
<1>4. CASE ~ (t = DataPlaneThread /\ Current(t) = m)
  <2>1. LeftOf(m)' = LeftOf(m) /\ todo[t][1].msg # m
    BY <1>4, PutOfNotification
  <2>2. LeftOf(m) = 0
    <3>1. CASE t = DataPlaneThread
      BY <1>1, <1>4, <3>1, LeftOfStep
    <3>2. CASE t \in Reactors
      <4>1. Busy(t)
        BY <1>1 DEF Do
      <4>2. ~ (LeftOf(m) >= 1)
        BY <1>2, <3>2, <4>1 DEF Clean
      <4>3. QED
        BY <1>2, <4>2
    <3>3. QED
      BY <3>1, <3>2 DEF Threads
  <2>3. PICK p \in DOMAIN stream : OwnLine(m, p)
    BY <1>2, <2>2 DEF Clean
  <2>4. OwnLine(m, p)' /\ p \in DOMAIN stream'
    BY <1>1, <2>1, <2>3, OwnLineKept
  <2>5. QED
    BY <2>1, <2>2, <2>4 DEF Clean
<1>5. CASE t = DataPlaneThread /\ Current(t) = m
  <2>1. /\ LeftOf(m) \in {3, 4, 6, 7, 8} /\ LeftOf(m)' = LeftOf(m) - 1
        /\ LeftOf(m) >= 6 => todo[t][1].msg # m
        /\ LeftOf(m) = 4 => todo[t][1] = Text(m)
        /\ LeftOf(m) = 3 => todo[t][1] = Newline(m)
    BY <1>5, PutOfNotification
  <2>2. (\A u \in Reactors : ~ Busy(u)) /\ (\A u \in Reactors : ~ Busy(u)')
    BY <1>2, <1>3, <2>1 DEF Clean
  <2>3. CASE LeftOf(m) >= 6
    <3>1. Positions(m) = {} /\ todo[t][1].msg # m
      BY <1>2, <2>1, <2>3 DEF Clean
    <3>2. Positions(m)' = {}
      BY <1>1, <3>1 DEF Positions
    <3>3. LeftOf(m)' \in {5, 6, 7}
      BY <2>1, <2>3
    <3>4. QED
      BY <2>2, <3>2, <3>3 DEF Clean
  <2>4. CASE LeftOf(m) = 4
    <3>1. Positions(m) = {} /\ todo[t][1] = Text(m) /\ LeftOf(m)' = 3
      BY <1>2, <2>1, <2>4 DEF Clean
    <3>2. Text(m).msg = m
      BY DEF Text
    <3>3. Positions(m)' = {N + 1}
      BY <1>1, <3>1, <3>2 DEF Positions
    <3>4. StartsLine(N + 1)'
      <4> SUFFICES ASSUME N # 0, ~ stream[Len(stream)].end PROVE FALSE
        <5>1. N + 1 = 1 \/ stream[N].end
          OBVIOUS
        <5>2. (N + 1) - 1 = N /\ (N # 0 => N \in 1..Len(stream))
          OBVIOUS
        <5>3. QED
          BY <1>1, <5>1, <5>2 DEF StartsLine
      <4> DEFINE n == stream[Len(stream)].msg
      <4>1. stream # <<>> /\ Len(stream) \in DOMAIN stream
        BY <1>1, EmptyByLen
      <4>2. n.by \in Threads /\ Busy(n.by) /\ todo[n.by][1].msg = n
        BY <1>1, <4>1 DEF LastInv
      <4>3. n.by = t
        BY <1>5, <2>2, <4>2 DEF Threads
      <4>4. n = m
        BY <3>1, <3>2, <4>2, <4>3
      <4>5. Len(stream) \in Positions(m)
        BY <4>1, <4>4 DEF Positions
      <4>6. QED
        BY <3>1, <4>5
    <3>5. stream'[Len(stream')] = Text(m) /\ Len(stream') = N + 1
      BY <1>1, <3>1
    <3>6. QED
      BY <1>1, <2>2, <3>1, <3>3, <3>4, <3>5 DEF Clean
  <2>5. CASE LeftOf(m) = 3
    <3> PICK p \in Nat : p = Len(stream)
      BY <1>1
    <3>1. /\ todo[t][1] = Newline(m) /\ LeftOf(m)' = 2
          /\ stream # <<>> /\ Positions(m) = {p} /\ stream[p] = Text(m) /\ StartsLine(p)
      BY <1>2, <2>1, <2>5 DEF Clean
    <3>2. p \in DOMAIN stream /\ p \in Nat \ {0}
      BY <1>1, <3>1, EmptyByLen
    <3>3. Newline(m).msg = m
      BY DEF Newline
    <3>4. Positions(m)' = {p, p + 1}
      <4>1. \A i \in DOMAIN stream' : stream'[i].msg = m <=> i \in {p, p + 1}
        BY <1>1, <3>1, <3>2, <3>3 DEF Positions
      <4>2. QED
        BY <1>1, <3>2, <4>1 DEF Positions
    <3>5. StartsLine(p)'
      <4>1. CASE p = 1
        BY <4>1 DEF StartsLine
      <4>2. CASE p # 1
        <5>1. p - 1 \in 1..Len(stream)
          BY <3>2, <4>2
        <5>2. QED
          BY <1>1, <3>1, <4>2, <5>1 DEF StartsLine
      <4>3. QED
        BY <4>1, <4>2
    <3>6. ~ (p + 1 <= read)
      BY <1>1 DEF StreamInv
    <3>7. stream'[p] = Text(m) /\ stream'[p + 1] = Newline(m) /\ p + 1 <= Len(stream')
      BY <1>1, <3>1, <3>2
    <3>8. OwnLine(m, p)'
      BY <1>1, <3>2, <3>4, <3>5, <3>6, <3>7 DEF OwnLine
    <3>9. QED
      BY <1>1, <2>2, <3>1, <3>2, <3>8 DEF Clean
  <2>6. QED
    BY <2>1, <2>3, <2>4, <2>5
<1>6. QED
  BY <1>4, <1>5

LEMMA PutOrder ==
    ASSUME IInv, NEW t \in Threads, Put(t)
    PROVE  OrderInv'
<1> DEFINE x == todo[t][1]
<1>1. /\ BegunInv /\ TodoInv /\ OrderInv /\ Do(t, "put") /\ UNCHANGED begun
      /\ Len(stream) \in Nat /\ DOMAIN stream = 1..Len(stream)
      /\ DOMAIN stream' = 1..(Len(stream) + 1) /\ stream'[Len(stream) + 1] = x
      /\ \A i \in 1..Len(stream) : stream'[i] = stream[i]
      /\ x = Left(Current(t), Len(todo[t]) - 1) /\ x.msg.by = t /\ x.op = "put"
      /\ (x.msg.kind # "log" => x.msg = Current(t))
      /\ Len(todo[t]) \in Nat \ {0} /\ Len(todo[t]) <= Longest(Current(t)) /\ Current(t) \in Msg
  BY PutShape DEF IInv
<1> PICK N \in Nat : N = Len(stream)
  BY <1>1
<1>2. Busy(t) /\ Len(todo'[t]) = Len(todo[t]) - 1
      /\ (Len(todo[t]) > 1 => Current(t)' = Current(t)) /\ (Len(todo[t]) = 1 => ~ Busy(t)')
  BY <1>1, DoStep
<1>3. ASSUME x.text, x.msg.kind # "log"
      PROVE  TextToCome(t) /\ ~ TextToCome(t)'
  <2> DEFINE m == Current(t)
             d == Len(todo[t]) - 1
  <2>1. d \in Nat /\ d < Longest(m) /\ Len(todo[t]) = d + 1
    <3>1. Longest(m) \in Nat
      BY DEF Longest
    <3>2. QED
      BY <1>1, <3>1, OneLess
  <2>2. x = Left(m, d) /\ x.msg = m /\ m \in Msg /\ m.kind # "log"
    BY <1>1, <1>3
  <2> HIDE DEF d, x
  <2>3. CASE m.kind = "notification"
    <3>1. d \in {0, 1, 2, 3, 4, 5, 6, 7}
      BY <2>1, <2>3 DEF Longest
    <3>2. LogOf(m) # m
      BY <2>2 DEF LogOf, Msg
    <3>3. d \notin {5, 6, 7}
      BY <2>1, <2>2, <2>3, <3>2, LeftFields
    <3>4. d \notin {0, 1, 2, 4}
      BY <1>1, <1>3, <2>1, <2>2, <2>3, LeftFields DEF x
    <3>5. d = 3
      BY <3>1, <3>3, <3>4
    <3>6. Len(todo[t]) = 4 /\ Len(todo'[t]) = 3
      BY <1>2, <2>1, <3>5
    <3>7. QED
      BY <1>2, <2>3, <3>6 DEF TextToCome
  <2>4. CASE m.kind = "response"
    <3>1. d \in {0, 1, 2}
      BY <2>1, <2>4 DEF Longest
    <3>2. d \notin {0, 1}
      BY <1>1, <1>3, <2>1, <2>2, <2>4, LeftFields DEF x
    <3>3. Len(todo[t]) = 3 /\ Len(todo'[t]) = 2
      BY <1>2, <2>1, <3>1, <3>2
    <3>4. QED
      BY <1>2, <2>4, <3>3 DEF TextToCome
  <2>5. QED
    BY <2>2, <2>3, <2>4 DEF Msg, Kinds
<1> HIDE DEF x
<1>4. SUFFICES ASSUME NEW v \in Threads
               PROVE  /\ \A i, j \in DOMAIN stream' :
                            Payload(i, v)' /\ Payload(j, v)' /\ i < j
                               => stream'[i].msg.id < stream'[j].msg.id
                      /\ TextToCome(v)' =>
                            \A i \in DOMAIN stream' :
                               Payload(i, v)' => stream'[i].msg.id < Current(v)'.id
  BY DEF OrderInv
<1>5. \A i \in 1..N : Payload(i, v)' <=> Payload(i, v)
  BY <1>1 DEF Payload
<1>6. ASSUME Payload(N + 1, v)'
      PROVE  v = t /\ x.msg = Current(t) /\ TextToCome(t) /\ ~ TextToCome(t)'
  <2>1. x.text /\ x.msg.kind # "log" /\ x.msg.by = v
    BY <1>1, <1>6 DEF Payload
  <2>2. QED
    BY <1>1, <1>3, <2>1
<1>7. ASSUME NEW i \in DOMAIN stream', NEW j \in DOMAIN stream',
             Payload(i, v)', Payload(j, v)', i < j
      PROVE  stream'[i].msg.id < stream'[j].msg.id
  <2>1. i \in 1..N /\ Payload(i, v)
    BY <1>1, <1>5, <1>7
  <2>2. CASE j \in 1..N
    BY <1>1, <1>5, <1>7, <2>1, <2>2 DEF OrderInv
  <2>3. CASE j = N + 1
    <3>1. v = t /\ x.msg = Current(t) /\ TextToCome(t)
      BY <1>6, <1>7, <2>3
    <3>2. stream[i].msg.id < Current(t).id
      BY <1>1, <2>1, <3>1 DEF OrderInv
    <3>3. QED
      BY <1>1, <2>1, <2>3, <3>1, <3>2
  <2>4. QED
    BY <1>1, <2>2, <2>3
<1>8. ASSUME TextToCome(v)', NEW i \in DOMAIN stream', Payload(i, v)'
      PROVE  stream'[i].msg.id < Current(v)'.id
  <2>1. i # N + 1
    BY <1>6, <1>8
  <2>2. i \in 1..N /\ Payload(i, v)
    BY <1>1, <1>5, <1>8, <2>1
  <2>3. TextToCome(v) /\ Current(v)' = Current(v)
    BY <1>1, <1>8, ToComeStep
  <2>4. QED
    BY <1>1, <2>2, <2>3 DEF OrderInv
<1>9. QED
  BY <1>7, <1>8

LEMMA PutInv == ASSUME IInv, NEW t \in Threads, Put(t) PROVE IInv'
  BY PutStream, PutVisible, PutClean, PutOrder DEF IInv
-----------------------------------------------------------------------------
\* A thread that is idle begins the statements of a message of its own.
LEMMA BeginInv ==
    ASSUME IInv, NEW t \in Threads, NEW kind \in Kinds,
           kind = "notification" <=> t = DataPlaneThread,
           NEW m, m = NextMessage(t, kind), NEW ops \in Seq(Ins), Begin(m, ops),
           Len(ops) # 0, t = DataPlaneThread => Len(ops) \in {5, 8},
           IsRest(ops, m), ops[Len(ops)].msg = m
    PROVE  IInv'
<1>1. /\ BegunInv /\ TodoInv /\ MutexInv /\ StreamInv /\ LastInv /\ VisibleInv /\ CleanInv
      /\ OrderInv /\ ReceivedInv /\ DataPlaneThread \in Threads
  BY DEF IInv, Threads
<1>2. /\ begun \in Seq(Msg) /\ Len(begun) \in Nat /\ DOMAIN begun = 1..Len(begun)
      /\ stream \in Seq(Ins) /\ Len(stream) \in Nat /\ DOMAIN stream = 1..Len(stream)
  BY <1>1, LenProperties DEF BegunInv, StreamInv
<1> PICK N \in Nat : N = Len(begun)
  BY <1>2
<1>3. m \in Msg /\ m.id = N + 1 /\ m.kind = kind /\ m.by = t
  BY <1>2 DEF NextMessage, Msg
<1>4. /\ ~ Busy(t) /\ todo' = [todo EXCEPT ![t] = ops] /\ begun' = Append(begun, m)
      /\ UNCHANGED <<cout_mtx, stream, flushed, read, received>>
  BY <1>3 DEF Begin
<1>5. /\ todo'[t] = ops /\ \A u \in Threads \ {t} : todo'[u] = todo[u]
      /\ todo' \in [Threads -> Seq(Ins)]
  BY <1>1, <1>4 DEF TodoInv
<1>6. Busy(t)' /\ Current(t)' = m
  BY <1>5, EmptySeq DEF Busy, Current
<1>7. /\ begun' \in Seq(Msg) /\ DOMAIN begun' = 1..(N + 1) /\ begun'[N + 1] = m
      /\ \A i \in 1..N : begun'[i] = begun[i]
  BY <1>2, <1>3, <1>4, AppendProperties, LenProperties
<1>8. BegunInv'
  <2> SUFFICES ASSUME NEW i \in DOMAIN begun'
               PROVE  /\ begun'[i].id = i
                      /\ begun'[i].kind = "notification" <=> begun'[i].by = DataPlaneThread
    BY <1>7 DEF BegunInv
  <2>1. CASE i = N + 1
    BY <1>3, <1>7, <2>1
  <2>2. CASE i \in 1..N
    BY <1>1, <1>2, <1>7, <2>2 DEF BegunInv
  <2>3. QED
    BY <1>7, <2>1, <2>2
<1>9. TodoInv'
  <2> SUFFICES ASSUME NEW u \in Threads, Busy(u)'
               PROVE  /\ Current(u)'.by = u /\ Current(u)'.id \in DOMAIN begun'
                      /\ begun'[Current(u)'.id] = Current(u)'
                      /\ IsRest(todo'[u], Current(u)')
    BY <1>5 DEF TodoInv
  <2>1. CASE u = t
    BY <1>3, <1>5, <1>6, <1>7, <2>1
  <2>2. CASE u # t
    <3>1. todo'[u] = todo[u]
      BY <1>5, <2>2
    <3>2. Busy(u) /\ Current(u)' = Current(u)
      BY <3>1 DEF Busy, Current
    <3>3. QED
      BY <1>1, <1>2, <1>7, <3>1, <3>2 DEF TodoInv
  <2>3. QED
    BY <2>1, <2>2
<1>10. MutexInv'
  <2>1. CASE t = DataPlaneThread
    <3>1. Len(todo'[DataPlaneThread]) \in {5, 8}
      BY <1>5, <2>1
    <3>2. Len(todo'[DataPlaneThread]) \notin 1..4
      <4>1. \A k \in {5, 8} : k \notin 1..4
        OBVIOUS
      <4>2. QED
        BY <3>1, <4>1
    <3>3. QED
      BY <1>1, <1>4, <3>2 DEF MutexInv
  <2>2. CASE t # DataPlaneThread
    BY <1>1, <1>4, <1>5, <2>2 DEF MutexInv
  <2>3. QED
    BY <2>1, <2>2
<1>11. StreamInv'
  BY <1>1, <1>2, <1>4, <1>7 DEF StreamInv
<1>12. LastInv'
  <2> DEFINE n == stream[Len(stream)].msg
  <2> SUFFICES ASSUME stream # <<>>, ~ stream[Len(stream)].end
               PROVE  /\ n.by \in Threads /\ Busy(n.by)'
                      /\ todo'[n.by][1].op = "put" /\ todo'[n.by][1].msg = n
    BY <1>4 DEF LastInv
  <2>1. n.by \in Threads /\ Busy(n.by) /\ todo[n.by][1].op = "put" /\ todo[n.by][1].msg = n
    BY <1>1 DEF LastInv
  <2>2. todo'[n.by] = todo[n.by]
    BY <1>4, <1>5, <2>1
  <2>3. QED
    BY <1>4, <2>1, <2>2 DEF Busy
<1>13. ReceivedInv'
  BY <1>1, <1>4 DEF ReceivedInv, ReceivedInOrder
<1>14. \A i \in DOMAIN stream : stream[i].msg.id \in 1..N
  BY <1>1, <1>2 DEF StreamInv
<1>15. OrderInv'
  <2> SUFFICES ASSUME NEW v \in Threads
               PROVE  /\ \A i, j \in DOMAIN stream :
                            Payload(i, v) /\ Payload(j, v) /\ i < j
                               => stream[i].msg.id < stream[j].msg.id
                      /\ TextToCome(v)' =>
                            \A i \in DOMAIN stream :
                               Payload(i, v) => stream[i].msg.id < Current(v)'.id
    BY <1>4 DEF OrderInv, Payload
  <2>1. CASE v = t
    BY <1>1, <1>3, <1>6, <1>14, <2>1 DEF OrderInv
  <2>2. CASE v # t
    <3>1. todo'[v] = todo[v]
      BY <1>5, <2>2
    <3>2. TextToCome(v)' => TextToCome(v) /\ Current(v)' = Current(v)
      BY <3>1 DEF TextToCome, Busy, Current
    <3>3. QED
      BY <1>1, <3>2 DEF OrderInv
  <2>3. QED
    BY <2>1, <2>2
<1>16. ASSUME NEW n \in Notifications'
       PROVE  \/ n \in Notifications /\ n.id \in 1..N
              \/ n = m /\ t = DataPlaneThread
  <2>1. PICK i \in DOMAIN begun' : n = begun'[i] /\ begun'[i].kind = "notification"
    BY DEF Notifications
  <2>2. CASE i = N + 1
    BY <1>3, <1>7, <2>1, <2>2
  <2>3. CASE i \in 1..N
    BY <1>1, <1>2, <1>7, <2>1, <2>3 DEF Notifications, BegunInv
  <2>4. QED
    BY <1>7, <2>1, <2>2, <2>3
<1>17. Positions(m)' = {}
  BY <1>3, <1>4, <1>14 DEF Positions
<1>18. ASSUME t = DataPlaneThread PROVE LeftOf(m)' = Len(ops)
  BY <1>5, <1>6, <1>18 DEF LeftOf
<1>19. ASSUME NEW n \in Notifications, n.id \in 1..N
       PROVE  /\ t = DataPlaneThread => LeftOf(n) = 0 /\ LeftOf(n)' = 0
              /\ t # DataPlaneThread => LeftOf(n)' = LeftOf(n)
  <2>1. n # m
    BY <1>3, <1>19
  <2>2. CASE t = DataPlaneThread
    BY <1>4, <1>6, <2>1, <2>2 DEF LeftOf
  <2>3. CASE t # DataPlaneThread
    <3>1. todo'[DataPlaneThread] = todo[DataPlaneThread]
      BY <1>1, <1>5, <2>3
    <3>2. QED
      BY <2>3, <3>1 DEF LeftOf, Busy, Current
  <2>4. QED
    BY <2>2, <2>3
<1>20. VisibleInv'
  <2> SUFFICES ASSUME NEW n \in Notifications', LeftOf(n)' \in {0, 1}, NEW i \in Positions(n)'
               PROVE  i <= flushed
    BY <1>4 DEF VisibleInv
  <2>1. CASE n = m
    BY <1>17, <2>1
  <2>2. CASE n \in Notifications /\ n.id \in 1..N
    <3>1. LeftOf(n) \in {0, 1} /\ i \in Positions(n)
      BY <1>4, <1>19, <2>2 DEF Positions
    <3>2. QED
      BY <1>1, <2>2, <3>1 DEF VisibleInv
  <2>3. QED
    BY <1>16, <2>1, <2>2
<1>21. CleanInv'
  <2> SUFFICES ASSUME NEW n \in Notifications', n.id \notin overlap'
               PROVE  Clean(n)'
    BY DEF CleanInv
  <2> DEFINE others == {u \in Threads \ {t} : Busy(u)}
  <2>1. overlap' = overlap \cup (IF others = {} THEN {} ELSE {m.id})
                           \cup {todo[u][1].msg.id : u \in others}
    BY <1>3 DEF Begin
  <2>2. CASE n = m /\ t = DataPlaneThread
    <3>1. others = {}
      BY <2>1, <2>2
    <3>2. \A u \in Reactors : ~ Busy(u)'
      <4> SUFFICES ASSUME NEW u \in Reactors PROVE ~ Busy(u)'
        OBVIOUS
      <4>1. u \in Threads \ {t}
        BY <2>2, StdoutAssumption DEF Threads
      <4>2. QED
        BY <1>5, <3>1, <4>1 DEF Busy
    <3>3. LeftOf(m)' \in {5, 8}
      BY <1>18, <2>2
    <3>4. QED
      BY <1>17, <2>2, <3>2, <3>3 DEF Clean
  <2>3. CASE n \in Notifications /\ n.id \in 1..N
    <3>1. Clean(n) /\ n.id \notin overlap
      BY <1>1, <2>1, <2>3 DEF CleanInv
    <3>2. LeftOf(n) = 0 /\ LeftOf(n)' = 0
      <4>1. CASE t = DataPlaneThread
        BY <1>19, <2>3, <4>1
      <4>2. CASE t # DataPlaneThread
        <5> SUFFICES ASSUME Busy(DataPlaneThread), Current(DataPlaneThread) = n PROVE FALSE
          BY <1>19, <2>3, <4>2 DEF LeftOf
        <5>1. DataPlaneThread \in others
          BY <1>1, <4>2
        <5>2. todo[DataPlaneThread][1].msg.id = n.id
          <6>1. /\ Len(todo[DataPlaneThread]) \in Nat \ {0}
                /\ Len(todo[DataPlaneThread]) <= Longest(n) /\ n \in Msg /\ Longest(n) \in Nat
                /\ todo[DataPlaneThread][1] = Left(n, Len(todo[DataPlaneThread]) - 1)
            BY <1>1, AtCurrent DEF Longest
          <6>2. QED
            BY <6>1, OneLess, LeftIns
        <5>3. n.id \in overlap'
          BY <2>1, <5>1, <5>2
        <5>4. QED
          BY <5>3
      <4>3. QED
        BY <4>1, <4>2
    <3>3. PICK p \in DOMAIN stream : OwnLine(n, p)
      BY <3>1, <3>2 DEF Clean
    <3>4. OwnLine(n, p)'
      BY <1>4, <3>3 DEF OwnLine, Positions, StartsLine, Received
    <3>5. QED
      BY <1>4, <3>2, <3>3, <3>4 DEF Clean
  <2>4. QED
    BY <1>16, <2>2, <2>3
<1>22. QED
  BY <1>8, <1>9, <1>10, <1>11, <1>12, <1>13, <1>15, <1>20, <1>21 DEF IInv
-----------------------------------------------------------------------------
\* The statements of the code are what Left says of them.
LEMMA WriteIsRest ==
    ASSUME NEW m \in Msg, m.kind = "notification"
    PROVE  LET ops == WriteMcpMessage(m)
           IN  ops \in Seq(Ins) /\ Len(ops) = 5 /\ IsRest(ops, m) /\ ops[Len(ops)].msg = m
<1> DEFINE ops == WriteMcpMessage(m)
<1>1. /\ Op("lock", m) \in Ins /\ Text(m) \in Ins /\ Newline(m) \in Ins /\ Op("flush", m) \in Ins
      /\ Op("unlock", m) \in Ins /\ Op("unlock", m).msg = m
  BY InsType
<1>2. ops \in Seq(Ins) /\ Len(ops) = 5 /\ DOMAIN ops = 1..5
  BY <1>1 DEF WriteMcpMessage
<1>3. /\ ops[1] = Op("lock", m) /\ ops[2] = Text(m) /\ ops[3] = Newline(m)
      /\ ops[4] = Op("flush", m) /\ ops[5] = Op("unlock", m)
  BY DEF WriteMcpMessage
<1> HIDE DEF ops
<1>4. \A i \in 1..5 : ops[i] = NotifyLeft(m, 5 - i)
  <2> SUFFICES ASSUME NEW i \in 1..5 PROVE ops[i] = NotifyLeft(m, 5 - i)
    OBVIOUS
  <2>1. i \in {1, 2, 3, 4, 5}
    OBVIOUS
  <2>2. QED
    BY <1>3, <2>1 DEF NotifyLeft
<1>5. IsRest(ops, m)
  BY <1>2, <1>4 DEF IsRest, Longest, Left
<1>6. QED
  BY <1>1, <1>2, <1>3, <1>5 DEF ops

LEMMA HitIsRest ==
    ASSUME NEW m \in Msg, m.kind = "notification"
    PROVE  LET ops == HitLog(LogOf(m)) \o WriteMcpMessage(m)
           IN  ops \in Seq(Ins) /\ Len(ops) = 8 /\ IsRest(ops, m) /\ ops[Len(ops)].msg = m
<1> DEFINE hit == HitLog(LogOf(m))
           wri == WriteMcpMessage(m)
           ops == hit \o wri
           l == LogOf(m)
<1>1. l \in Msg
  BY DEF LogOf, Msg, Kinds
<1>2. Text(l) \in Ins /\ TextLine(l) \in Ins
  BY <1>1, InsType
<1>3. /\ hit \in Seq(Ins) /\ Len(hit) = 3
      /\ hit[1] = Text(l) /\ hit[2] = Text(l) /\ hit[3] = TextLine(l)
  BY <1>2 DEF HitLog
<1>4. wri \in Seq(Ins) /\ Len(wri) = 5 /\ IsRest(wri, m) /\ wri[5].msg = m
  BY WriteIsRest
<1> HIDE DEF hit, wri
<1>5. /\ ops \in Seq(Ins) /\ Len(ops) = 8
      /\ \A i \in 1..8 : ops[i] = IF i <= 3 THEN hit[i] ELSE wri[i - 3]
  <2>1. /\ ops \in Seq(Ins) /\ Len(ops) = Len(hit) + Len(wri)
        /\ \A i \in 1..(Len(hit) + Len(wri)) :
              ops[i] = IF i <= Len(hit) THEN hit[i] ELSE wri[i - Len(hit)]
    BY <1>3, <1>4, ConcatProperties
  <2> HIDE DEF ops
  <2>2. QED
    BY <1>3, <1>4, <2>1
<1> HIDE DEF ops
<1>6. DOMAIN ops = 1..8 /\ DOMAIN wri = 1..5
  BY <1>4, <1>5, LenProperties
<1>7. \A i \in 1..8 : ops[i] = Left(m, 8 - i)
  <2> SUFFICES ASSUME NEW i \in 1..8 PROVE ops[i] = Left(m, 8 - i)
    OBVIOUS
  <2>1. CASE i <= 3
    <3>1. i \in {1, 2, 3}
      BY <2>1
    <3>2. QED
      BY <1>3, <1>5, <3>1 DEF Left, NotifyLeft
  <2>2. CASE i > 3
    <3>1. i - 3 \in 1..5 /\ 5 - (i - 3) = 8 - i
      BY <2>2
    <3>2. wri[i - 3] = Left(m, 5 - (i - 3))
      BY <1>4, <1>6, <3>1 DEF IsRest
    <3>3. QED
      BY <1>5, <2>2, <3>1, <3>2
  <2>3. QED
    BY <2>1, <2>2
<1>8. IsRest(ops, m)
  BY <1>5, <1>6, <1>7 DEF IsRest, Longest
<1>9. ops[8].msg = m
  BY <1>4, <1>5
<1>10. QED
  BY <1>5, <1>8, <1>9 DEF ops, hit, wri

LEMMA ReactorIsRest ==
    ASSUME NEW m \in Msg, NEW ops,
           \/ m.kind = "log" /\ ops = ToolLog(m)
           \/ m.kind = "response" /\ ops = Response(m)
    PROVE  ops \in Seq(Ins) /\ Len(ops) = 3 /\ IsRest(ops, m) /\ ops[Len(ops)].msg = m
<1>1. /\ Text(m) \in Ins /\ Newline(m) \in Ins /\ Op("flush", m) \in Ins
      /\ Newline(m).msg = m /\ Op("flush", m).msg = m
  BY InsType
<1> DEFINE last == IF m.kind = "log" THEN Newline(m) ELSE Op("flush", m)
           mid  == IF m.kind = "log" THEN Text(m) ELSE Newline(m)
<1>2. mid \in Ins /\ last \in Ins /\ last.msg = m
  BY <1>1
<1>3. ops = <<Text(m), mid, last>>
  BY DEF ToolLog, Response
<1>4. \A i \in 1..3 : <<Text(m), mid, last>>[i] = Left(m, 3 - i)
  <2> SUFFICES ASSUME NEW i \in 1..3 PROVE <<Text(m), mid, last>>[i] = Left(m, 3 - i)
    OBVIOUS
  <2>1. i \in {1, 2, 3}
    OBVIOUS
  <2>2. Left(m, 2) = Text(m) /\ Left(m, 1) = mid /\ Left(m, 0) = last
    BY DEF Left, LogLeft, ResponseLeft
  <2> HIDE DEF mid, last
  <2>3. QED
    BY <2>1, <2>2
<1> HIDE DEF mid, last
<1>5. ops \in Seq(Ins) /\ Len(ops) = 3 /\ DOMAIN ops = 1..3 /\ ops[3] = last
  BY <1>1, <1>2, <1>3
<1>6. IsRest(ops, m)
  BY <1>3, <1>4, <1>5 DEF IsRest, Longest
<1>7. QED
  BY <1>2, <1>5, <1>6

LEMMA BeginsInv ==
    ASSUME IInv, Notify \/ \E t \in Reactors : ReactorLog(t) \/ ReactorRespond(t)
    PROVE  IInv'
<1>1. Len(begun) + 1 \in Nat
  BY LenProperties DEF IInv, BegunInv
<1>2. CASE Notify
  <2>1. PICK m : m = NextMessage(DataPlaneThread, "notification")
    OBVIOUS
  <2>2. m \in Msg /\ m.kind = "notification" /\ DataPlaneThread \in Threads
    BY <1>1, <2>1 DEF NextMessage, Msg, Kinds, Threads
  <2>3. PICK ops \in {WriteMcpMessage(m), HitLog(LogOf(m)) \o WriteMcpMessage(m)} : Begin(m, ops)
    BY <1>2, <2>1 DEF Notify, LogOf
  <2>4. /\ ops \in Seq(Ins) /\ Len(ops) \in {5, 8} /\ IsRest(ops, m) /\ ops[Len(ops)].msg = m
    BY <2>2, <2>3, WriteIsRest, HitIsRest
  <2>5. QED
    BY <2>1, <2>2, <2>3, <2>4, BeginInv DEF Kinds
<1>3. ASSUME NEW t \in Reactors, ReactorLog(t) \/ ReactorRespond(t)
      PROVE  IInv'
  <2>1. t \in Threads /\ t # DataPlaneThread
    BY StdoutAssumption DEF Threads
  <2>2. PICK kind \in {"log", "response"} :
           Begin(NextMessage(t, kind), IF kind = "log" THEN ToolLog(NextMessage(t, kind))
                                       ELSE Response(NextMessage(t, kind)))
    BY <1>3 DEF ReactorLog, ReactorRespond
  <2>3. PICK m : m = NextMessage(t, kind)
    OBVIOUS
  <2>4. m \in Msg /\ m.kind = kind /\ kind \in Kinds
    BY <1>1, <2>1, <2>3 DEF NextMessage, Msg, Kinds
  <2>5. PICK ops : ops = IF kind = "log" THEN ToolLog(m) ELSE Response(m)
    OBVIOUS
  <2>6. ops \in Seq(Ins) /\ Len(ops) = 3 /\ IsRest(ops, m) /\ ops[Len(ops)].msg = m
    BY <2>4, <2>5, ReactorIsRest
  <2>7. Begin(m, ops)
    BY <2>2, <2>3, <2>5
  <2>8. kind # "notification" /\ Len(ops) # 0
    BY <2>2, <2>6
  <2>9. QED
    BY <2>1, <2>3, <2>4, <2>6, <2>7, <2>8, BeginInv
<1>4. QED
  BY <1>2, <1>3
-----------------------------------------------------------------------------
LEMMA InitInv == Init => IInv
<1> SUFFICES ASSUME Init PROVE IInv
  OBVIOUS
<1>1. /\ begun = <<>> /\ stream = <<>> /\ received = <<>> /\ read = 0 /\ flushed = 0
      /\ cout_mtx = Nobody /\ \A t \in Threads : todo[t] = <<>> /\ ~ Busy(t)
  BY DEF Init, Busy
<1>2. /\ begun \in Seq(Msg) /\ DOMAIN begun = {} /\ stream \in Seq(Ins) /\ DOMAIN stream = {}
      /\ received \in Seq(Msg) /\ DOMAIN received = {} /\ Len(stream) = 0
  BY <1>1, EmptySeq
<1>3. Notifications = {}
  BY <1>2 DEF Notifications
<1>4. BegunInv /\ TodoInv
  BY <1>1, <1>2, EmptySeq DEF BegunInv, TodoInv, Init
<1>5. MutexInv
  <2>1. todo[DataPlaneThread] = <<>>
    BY <1>1 DEF Threads
  <2>2. Len(<<>>) \notin 1..4
    OBVIOUS
  <2>3. QED
    BY <1>1, <2>1, <2>2 DEF MutexInv
<1>6. StreamInv /\ LastInv
  BY <1>1, <1>2 DEF StreamInv, LastInv
<1>7. VisibleInv /\ CleanInv
  BY <1>3 DEF VisibleInv, CleanInv
<1>8. OrderInv /\ ReceivedInv
  BY <1>1, <1>2 DEF OrderInv, TextToCome, ReceivedInv, ReceivedInOrder
<1>9. QED
  BY <1>4, <1>5, <1>6, <1>7, <1>8 DEF IInv

\* A step that at most ends or kills the callback.
LEMMA StutterInv ==
    ASSUME IInv,
           UNCHANGED <<todo, cout_mtx, stream, flushed, read, received, begun, overlap>>
    PROVE  IInv'
<1>1. /\ BegunInv /\ TodoInv /\ MutexInv /\ StreamInv /\ LastInv /\ VisibleInv /\ CleanInv
      /\ OrderInv /\ ReceivedInv
      /\ UNCHANGED <<todo, cout_mtx, stream, flushed, read, received, begun, overlap>>
  BY DEF IInv
<1>2. BegunInv' /\ MutexInv' /\ StreamInv' /\ ReceivedInv'
  BY <1>1 DEF BegunInv, MutexInv, StreamInv, ReceivedInv, ReceivedInOrder
<1>3. TodoInv' /\ LastInv' /\ OrderInv'
  BY <1>1 DEF TodoInv, LastInv, OrderInv, Busy, Current, TextToCome, Payload
<1>4. VisibleInv'
  BY <1>1 DEF VisibleInv, LeftOf, Busy, Current, Positions, Notifications
<1>5. CleanInv'
  <2> SUFFICES ASSUME NEW m \in Notifications, m.id \notin overlap
               PROVE  Clean(m)'
    BY <1>1 DEF CleanInv, Notifications
  <2>1. /\ LeftOf(m)' = LeftOf(m) /\ Positions(m)' = Positions(m)
        /\ \A p : StartsLine(p)' <=> StartsLine(p)
        /\ \A u : Busy(u)' <=> Busy(u)
    BY <1>1 DEF LeftOf, Positions, StartsLine, Busy, Current
  <2>2. \A p : OwnLine(m, p) => OwnLine(m, p)'
    BY <1>1, <2>1 DEF OwnLine, Received
  <2>3. QED
    BY <1>1, <2>1, <2>2 DEF CleanInv, Clean
<1>6. QED
  BY <1>2, <1>3, <1>4, <1>5 DEF IInv

LEMMA NextInv == IInv /\ [Next]_vars => IInv'
<1> SUFFICES ASSUME IInv, [Next]_vars PROVE IInv'
  OBVIOUS
<1>1. CASE Notify \/ \E t \in Reactors : ReactorLog(t) \/ ReactorRespond(t)
  BY <1>1, BeginsInv
<1>2. ASSUME NEW t \in Threads, Step(t) PROVE IInv'
  BY <1>2, LockInv, PutInv DEF Step
<1>3. CASE ReadLine
  BY <1>3, ReadLineInv
<1>4. CASE CallbackEnds \/ AgentExits \/ UNCHANGED vars
  BY <1>4, StutterInv DEF CallbackEnds, AgentExits, vars
<1>5. QED
  BY <1>1, <1>2, <1>3, <1>4 DEF Next

\* The inductive invariant holds in every state.
THEOREM Invariant == Spec => []IInv
<1>1. QED
  BY InitInv, NextInv, PTL DEF Spec

\* A callback is that of the message received last, a notification.
PumpInv ==
    /\ received \in Seq(Msg)
    /\ pump \in {"reading", "callback", "dead"}
    /\ pump = "callback" =>
          received # <<>> /\ received[Len(received)].kind = "notification"

\* Only a read takes up a message, and only its callback or the end follows.
LEMMA PumpStep == ASSUME PumpInv, IInv', [Next]_vars PROVE PumpInv'
<1>1. CASE ReadLine
  <2>1. received' \in Seq(Msg)
    BY DEF IInv, ReceivedInv
  <2>2. CASE received' = received /\ pump' = pump
    BY <2>2 DEF PumpInv
  <2>3. ASSUME NEW m \in ParsedLine(LineEnd), received' = Append(received, m),
               pump' \in AfterMessage(m)
        PROVE  PumpInv'
    <3>1. pump' \in {"reading", "callback"} /\ (pump' = "callback" => m.kind = "notification")
      BY <2>3 DEF AfterMessage
    <3>2. received' # <<>> /\ received'[Len(received')] = m
      <4>1. received \in Seq(Msg) /\ Len(received) \in Nat
        BY LenProperties DEF PumpInv
      <4>2. Len(received') = Len(received) + 1 /\ received'[Len(received) + 1] = m
        BY <2>3, <4>1, AppendProperties
      <4>3. QED
        BY <4>1, <4>2
    <3>3. QED
      BY <2>1, <3>1, <3>2 DEF PumpInv
  <2>4. QED
    BY <1>1, <2>2, <2>3 DEF ReadLine
<1>2. CASE CallbackEnds \/ AgentExits
  BY <1>2 DEF PumpInv, CallbackEnds, AgentExits
<1>3. CASE UNCHANGED <<pump, received>>
  BY <1>3 DEF PumpInv
<1>4. QED
  BY <1>1, <1>2, <1>3 DEF Next, Notify, ReactorLog, ReactorRespond, Begin, Step, Lock, Unlock,
     Put, Flush, vars

\* The type invariant: threads do what the statements say, and what is read
\* was flushed, what was flushed was written, and a callback is that of the alert
\* read last.
THEOREM TypeCorrect == Spec => []TypeOK
<1>1. ASSUME IInv, PumpInv PROVE TypeOK
  <2>1. ASSUME NEW t \in Threads, NEW i \in DOMAIN todo[t]
        PROVE  todo[t][i].op \in {"lock", "put", "flush", "unlock"}
    <3>1. todo[t] \in Seq(Ins)
      BY <1>1 DEF IInv, TodoInv
    <3>2. todo[t][i] \in Ins
      BY <2>1, <3>1, LenProperties, ElementOfSeq
    <3>3. QED
      BY <3>2 DEF Ins
  <2>2. QED
    BY <1>1, <2>1 DEF IInv, MutexInv, StreamInv, TypeOK, PumpInv
<1>2. Init => PumpInv
  BY EmptySeq DEF Init, PumpInv
<1>3. IInv /\ PumpInv /\ [Next]_vars => IInv' /\ PumpInv'
  BY NextInv, PumpStep
<1>4. QED
  BY <1>1, <1>2, <1>3, InitInv, PTL DEF Spec

\* A notification the pump has read past is lost only if the statement of
\* another thread overlapped with it.
THEOREM LossNeedsCrossing == Spec => []LostOnlyByCrossing
<1>1. ASSUME IInv PROVE LostOnlyByCrossing
  <2> SUFFICES ASSUME NEW m \in Notifications, m.id \notin overlap,
                      \A i \in Positions(m) : i <= read, Positions(m) # {},
                      \A i \in Positions(m) : ~ Busy(DataPlaneThread)
               PROVE  m \in Received
    BY DEF LostOnlyByCrossing
  <2>1. LeftOf(m) = 0
    BY DEF LeftOf
  <2>2. PICK p \in DOMAIN stream : OwnLine(m, p)
    BY <1>1, <2>1 DEF IInv, CleanInv, Clean
  <2>3. QED
    BY <2>2 DEF OwnLine
<1>2. QED
  BY <1>1, Invariant, PTL

\* While the mutex is free, a notification that is written is in the pipe.
THEOREM WrittenIsVisible == Spec => []DoneIsVisible
<1>1. ASSUME IInv PROVE DoneIsVisible
  <2> SUFFICES ASSUME cout_mtx = Nobody, NEW m \in Notifications,
                      \A t \in Threads : \A i \in DOMAIN todo[t] :
                         todo[t][i].op = "put" => todo[t][i].msg # m,
                      NEW i \in Positions(m)
               PROVE  i <= flushed
    BY DEF DoneIsVisible
  <2> DEFINE s == todo[DataPlaneThread]
  <2>1. BegunInv /\ TodoInv /\ MutexInv /\ VisibleInv /\ DataPlaneThread \in Threads
    BY <1>1 DEF IInv, Threads
  <2>2. DataPlaneThread # Nobody
    BY DEF DataPlaneThread, Nobody
  <2>3. LeftOf(m) = 0
    <3> SUFFICES ASSUME Busy(DataPlaneThread), Current(DataPlaneThread) = m PROVE FALSE
      BY DEF LeftOf
    <3>1. Len(s) \in Nat \ {0} /\ Len(s) <= Longest(m) /\ m \in Msg /\ m.kind = "notification"
          /\ IsRest(s, m)
      BY <2>1, AtCurrent, NotificationIs DEF TodoInv
    <3>2. Len(s) \notin 1..4
      BY <2>1, <2>2 DEF MutexInv
    <3>3. DOMAIN s = 1..Len(s)
      BY <2>1, LenProperties DEF TodoInv
    <3>4. \A n \in Nat \ {0} : n \notin 1..4 => n - 3 \in 1..n /\ n - (n - 3) = 3
      OBVIOUS
    <3>5. Len(s) - 3 \in DOMAIN s /\ s[Len(s) - 3] = Left(m, 3)
      <4>1. Len(s) - 3 \in 1..Len(s) /\ Len(s) - (Len(s) - 3) = 3
        BY <3>1, <3>2, <3>4
      <4>2. QED
        BY <3>1, <3>3, <4>1 DEF IsRest
    <3>6. Left(m, 3).op = "put" /\ Left(m, 3).msg = m
      BY <3>1 DEF Left, NotifyLeft, Text
    <3>7. QED
      BY <2>1, <3>5, <3>6
  <2>4. QED
    BY <2>1, <2>3 DEF VisibleInv
<1>2. QED
  BY <1>1, Invariant, PTL

\* The pump receives the messages of each thread in the order they were begun,
\* each at most once.
THEOREM OrderKept == Spec => []ReceivedInOrder
<1>1. IInv => ReceivedInOrder
  BY DEF IInv, ReceivedInv
<1>2. QED
  BY <1>1, Invariant, PTL
=============================================================================
