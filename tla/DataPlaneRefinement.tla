-------------------------- MODULE DataPlaneRefinement --------------------------
(***************************************************************************)
(* The data plane implements Segmenter, for every set of frames and every  *)
(* parameter, and what follows of the frames: none is lost, none is        *)
(* delivered twice, all stay in order.                                     *)
(***************************************************************************)
EXTENDS DataPlaneProofs

\* What waits in the flow of a key, as Segmenter sees it.
Held(k) == [pkts |-> Lookup(active_flows, k).buffer, size |-> Lookup(active_flows, k).size]

\* An absent flow and one in the table, as Segmenter sees them.
LEMMA HeldCases ==
    ASSUME NEW k
    PROVE  /\ k \in DOMAIN active_flows =>
                 Held(k) = [pkts |-> active_flows[k].buffer, size |-> active_flows[k].size]
           /\ k \notin DOMAIN active_flows => Held(k) = Segments!Nothing
BY DEF Held, Lookup, Segments!Nothing

LEMMA HeldCasesNext ==
    ASSUME NEW k
    PROVE  /\ k \in DOMAIN active_flows' =>
                 Held(k)' = [pkts |-> active_flows'[k].buffer, size |-> active_flows'[k].size]
           /\ k \notin DOMAIN active_flows' => Held(k)' = Segments!Nothing
BY DEF Held, Lookup, Segments!Nothing

\* A flow that is still incomplete goes back into the table; no other changes.
LEMMA BufferKeepsOthers ==
    ASSUME TypeOK, BuffersBelowReady, FramesOfTheirKey, NEW f \in Frames, Callback(f),
           Buffer(f, Appended(Lookup(active_flows, FlowKey(f)), Len(captured) + 1, f.len, now))
    PROVE  LET key == FlowKey(f)
               grown == [pkts |-> Append(Held(key).pkts, Len(captured) + 1),
                         size |-> Held(key).size + f.len]
           IN  /\ grown.size < READY
               /\ \A k : Held(k)' = IF k = key THEN grown ELSE Held(k)
<1> DEFINE key == FlowKey(f)
           old == Lookup(active_flows, key)
           state == Appended(old, Len(captured) + 1, f.len, now)
           grown == [pkts |-> Append(Held(key).pkts, Len(captured) + 1),
                     size |-> Held(key).size + f.len]
<1>1. /\ state \in FlowState
      /\ state.buffer = Append(old.buffer, Len(captured) + 1)
      /\ state.size = old.size + f.len
  BY GrownFlow
<1>2. grown = [pkts |-> state.buffer, size |-> state.size]
  BY <1>1 DEF Held
<1>3. ~ Ready(state) /\ active_flows' = TableAfter(active_flows, key, state)
  BY DEF Buffer
<1>4. active_flows' = [k \in DOMAIN active_flows \cup {key} |->
                          IF k = key THEN state ELSE active_flows[k]]
  BY <1>3 DEF TableAfter
<1>5. state.size < READY
  BY <1>1, <1>3, FlowTrackerAssumption DEF Ready, FlowState
<1> HIDE DEF state
<1>6. ASSUME NEW k PROVE Held(k)' = IF k = key THEN grown ELSE Held(k)
  <2>1. CASE k = key
    BY <2>1, <1>2, <1>4, HeldCasesNext
  <2>2. CASE k # key /\ k \in DOMAIN active_flows
    BY <2>2, <1>4, HeldCases, HeldCasesNext
  <2>3. CASE k # key /\ k \notin DOMAIN active_flows
    BY <2>3, <1>4, HeldCases, HeldCasesNext
  <2>4. QED
    BY <2>1, <2>2, <2>3
<1>7. QED
  BY <1>2, <1>5, <1>6

\* A complete flow leaves the table, and with it whole stale flows.
LEMMA DeliverRemovesFlows ==
    ASSUME TypeOK, BuffersBelowReady, FramesOfTheirKey, NEW f \in Frames, Callback(f),
           Deliver(f, Appended(Lookup(active_flows, FlowKey(f)), Len(captured) + 1, f.len, now))
    PROVE  LET key == FlowKey(f)
               grown == [pkts |-> Append(Held(key).pkts, Len(captured) + 1),
                         size |-> Held(key).size + f.len]
           IN  /\ grown.size >= READY
               /\ \E score \in Score :
                     payloads' = Append(payloads, [pkts |-> grown.pkts, size |-> grown.size,
                                                   score |-> score])
               /\ \E idle \in SUBSET (Keys \ {key}) :
                     /\ \A k : Held(k)' = IF k \in idle \cup {key} THEN Segments!Nothing
                                          ELSE Held(k)
                     /\ evicted' = evicted \cup UNION {Range(Held(k).pkts) : k \in idle}
<1> DEFINE key == FlowKey(f)
           old == Lookup(active_flows, key)
           state == Appended(old, Len(captured) + 1, f.len, now)
           grown == [pkts |-> Append(Held(key).pkts, Len(captured) + 1),
                     size |-> Held(key).size + f.len]
           table == TableAfter(active_flows, key, state)
           stale == StaleKeys(table, TIMEOUT, now)
<1>1. /\ state \in FlowState
      /\ state.buffer = Append(old.buffer, Len(captured) + 1)
      /\ state.size = old.size + f.len
  BY GrownFlow
<1>2. grown = [pkts |-> state.buffer, size |-> state.size]
  BY <1>1 DEF Held
<1>3. Ready(state) /\ CountAndCleanup(table)
  BY DEF Deliver
<1>4. \E score \in Score :
         payloads' = Append(payloads, [pkts |-> state.buffer, size |-> state.size,
                                       score |-> score])
  <2>1. captured' = Append(captured, [frame |-> f, at |-> now])
    BY DEF Callback
  <2>2. QED
    BY <1>1, <2>1, DeliveredPayload
<1>5. /\ DOMAIN table = DOMAIN active_flows \ {key}
      /\ \A k \in DOMAIN table : table[k] = active_flows[k]
  BY <1>3 DEF TableAfter, Restrict
<1>6. stale \subseteq DOMAIN table
  BY DEF StaleKeys
<1>7. PICK idle \in SUBSET DOMAIN table :
         /\ DOMAIN active_flows' = DOMAIN table \ idle
         /\ \A k \in DOMAIN active_flows' : active_flows'[k] = table[k]
         /\ evicted' = evicted \cup UNION {Range(table[k].buffer) : k \in idle}
  <2>1. CASE pkt_count' % CLEANUP_EVERY = 0
    <3>1. /\ active_flows' = Restrict(table, DOMAIN table \ stale)
          /\ evicted' = evicted \cup UNION {Range(table[k].buffer) : k \in stale}
      BY <1>3, <2>1 DEF CountAndCleanup, CleanupStale
    <3>2. QED
      BY <1>6, <3>1 DEF Restrict
  <2>2. CASE pkt_count' % CLEANUP_EVERY # 0
    <3>1. active_flows' = table /\ evicted' = evicted
      BY <1>3, <2>2 DEF CountAndCleanup
    <3>2. evicted' = evicted \cup UNION {Range(table[k].buffer) : k \in {}}
      BY <3>1
    <3>3. QED
      BY <3>1, <3>2
  <2>3. QED
    BY <2>1, <2>2
<1>8. idle \in SUBSET (Keys \ {key})
  BY <1>5, <1>7 DEF TypeOK
<1>9. \A k \in idle : Range(table[k].buffer) = Range(Held(k).pkts)
  BY <1>5, <1>7, HeldCases
<1>10. evicted' = evicted \cup UNION {Range(Held(k).pkts) : k \in idle}
  BY <1>7, <1>9
<1> HIDE DEF state, table
<1>11. ASSUME NEW k
       PROVE  Held(k)' = IF k \in idle \cup {key} THEN Segments!Nothing ELSE Held(k)
  <2>1. CASE k \in DOMAIN active_flows'
    BY <2>1, <1>5, <1>7, HeldCases, HeldCasesNext
  <2>2. CASE k \notin DOMAIN active_flows'
    BY <2>2, <1>5, <1>7, HeldCases, HeldCasesNext
  <2>3. QED
    BY <2>1, <2>2
<1>12. grown.size >= READY
  BY <1>2, <1>3 DEF Ready
<1>13. QED
  BY <1>2, <1>4, <1>8, <1>10, <1>11, <1>12

\* The windows handed over, as Segmenter sees them.
Windows == [i \in DOMAIN payloads |-> payloads[i].pkts]

\* One call of the callback is one step of Segmenter.
LEMMA CallbackArrives ==
    ASSUME TypeOK, BuffersBelowReady, FramesOfTheirKey, NEW f \in Frames, Callback(f)
    PROVE  Segments!Arrive(FlowKey(f), f.len)
<1> DEFINE key == FlowKey(f)
           state == Appended(Lookup(active_flows, key), Len(captured) + 1, f.len, now)
           grown == [pkts |-> Append(Held(key).pkts, Len(captured) + 1),
                     size |-> Held(key).size + f.len]
           pending == [k \in Keys |-> Held(k)]
<1>1. key \in Keys
  BY DEF Keys
<1>2. Len(captured') = Len(captured) + 1
  BY CapturedGrows
<1>3. pending[key] = Held(key)
  BY <1>1
<1>4. Segments!Grown(key, f.len) = grown
  BY <1>1 DEF Segments!Grown, Held
<1>5. CASE Buffer(f, state)
  <2>1. /\ grown.size < READY
        /\ \A k : Held(k)' = IF k = key THEN grown ELSE Held(k)
    BY <1>5, BufferKeepsOthers
  <2>2. payloads' = payloads /\ evicted' = evicted
    BY <1>5 DEF Buffer
  <2>3. [k \in Keys |-> Held(k)'] = [pending EXCEPT ![key] = grown]
    BY <2>1, <1>1
  <2>4. Segments!Wait(key, f.len)
    BY <2>1, <2>2, <2>3, <1>4 DEF Segments!Wait, Held
  <2>5. QED
    BY <1>2, <2>4 DEF Segments!Arrive
<1>6. CASE Deliver(f, state)
  <2>1. /\ grown.size >= READY
        /\ \E score \in Score :
              payloads' = Append(payloads, [pkts |-> grown.pkts, size |-> grown.size,
                                            score |-> score])
        /\ \E idle \in SUBSET (Keys \ {key}) :
              /\ \A k : Held(k)' = IF k \in idle \cup {key} THEN Segments!Nothing ELSE Held(k)
              /\ evicted' = evicted \cup UNION {Range(Held(k).pkts) : k \in idle}
    BY <1>6, DeliverRemovesFlows
  <2>2. PICK idle \in SUBSET (Keys \ {key}) :
           /\ \A k : Held(k)' = IF k \in idle \cup {key} THEN Segments!Nothing ELSE Held(k)
           /\ evicted' = evicted \cup UNION {Range(Held(k).pkts) : k \in idle}
    BY <2>1
  <2>3. PICK score \in Score :
           payloads' = Append(payloads, [pkts |-> grown.pkts, size |-> grown.size,
                                         score |-> score])
    BY <2>1
  <2> HIDE DEF grown
  <2>4. Windows' = Append(Windows, grown.pkts)
    BY <2>3 DEF Windows, TypeOK
  <2>5. [k \in Keys |-> Held(k)'] =
           [q \in Keys |-> IF q \in idle \cup {key} THEN Segments!Nothing ELSE pending[q]]
    BY <2>2
  <2>6. \A q \in idle : pending[q] = Held(q)
    BY <2>2
  <2>7. evicted' = evicted \cup UNION {Range(pending[q].pkts) : q \in idle}
    BY <2>2, <2>6
  <2>8. Segments!Cut(key, f.len, idle)
    <3>1. grown.pkts = Segments!Grown(key, f.len).pkts /\ Segments!Grown(key, f.len).size >= READY
      BY <2>1, <1>4 DEF grown
    <3>2. UNION {Segments!Range(pending[q].pkts) : q \in idle}
             = UNION {Range(pending[q].pkts) : q \in idle}
      BY DEF Segments!Range, Range
    <3>3. QED
      BY <2>4, <2>5, <2>7, <3>1, <3>2 DEF Segments!Cut, Held, Windows
  <2>9. QED
    BY <1>2, <2>8 DEF Segments!Arrive
<1>7. QED
  BY <1>5, <1>6 DEF Callback

\* The tracker implements Segmenter in every execution, for all frames and
\* parameters.
THEOREM DataPlaneRefinesSegmenter == Spec => CutsShortestWindows
<1>1. Init => Segments!Init
  <2> SUFFICES ASSUME Init PROVE Segments!Init
    OBVIOUS
  <2>1. captured = <<>> /\ payloads = <<>> /\ evicted = {} /\ DOMAIN active_flows = {}
    BY DEF Init, EmptyTable
  <2>2. \A k \in Keys : Held(k) = Segments!Nothing
    BY <2>1, HeldCases
  <2>3. QED
    BY <2>1, <2>2 DEF Segments!Init, Held
<1>2. TypeOK /\ BuffersBelowReady /\ FramesOfTheirKey /\ [Next]_vars
      => [Segments!Next]_(Segments!vars)
  <2> SUFFICES ASSUME TypeOK, BuffersBelowReady, FramesOfTheirKey, [Next]_vars
               PROVE  [Segments!Next]_(Segments!vars)
    OBVIOUS
  <2>1. ASSUME NEW f \in Frames, Callback(f) PROVE Segments!Next
    <3>1. FlowKey(f) \in Keys /\ f.len \in {g.len : g \in Frames}
      BY DEF Keys
    <3>2. Segments!Arrive(FlowKey(f), f.len)
      BY <2>1, CallbackArrives
    <3>3. QED
      BY <3>1, <3>2 DEF Segments!Next
  <2>2. CASE UNCHANGED <<active_flows, captured, payloads, evicted>>
    <3>1. \A k \in Keys : Held(k)' = Held(k)
      BY <2>2 DEF Held, Lookup
    <3>2. QED
      BY <2>2, <3>1 DEF Segments!vars, Held
  <2>3. QED
    BY <2>1, <2>2 DEF Next, Start, Tick, vars, history
<1>3. Spec => [](TypeOK /\ BuffersBelowReady /\ FramesOfTheirKey)
  BY DataPlaneInvariant, PTL DEF IInv
<1>4. QED
  BY <1>1, <1>2, <1>3, PTL DEF Spec, CutsShortestWindows, Segments!Spec

-----------------------------------------------------------------------------
\* The frames that wait in the flow of a key.
Waiting(k) == Range(Held(k).pkts)

\* A frame waits in the flow of its own key and in no other.
LEMMA WaitingFrames ==
    ASSUME TypeOK, FramesOfTheirKey
    PROVE  /\ \A k : \A n \in Waiting(k) : n \in DOMAIN captured /\ Key(n) = k
           /\ \A n : InBuffer(n) <=> n \in Waiting(Key(n))
<1>1. \A k : k \notin DOMAIN active_flows => Waiting(k) = {}
  BY HeldCases DEF Waiting, Range, Segments!Nothing
<1>2. \A k : k \in DOMAIN active_flows => Waiting(k) = Range(active_flows[k].buffer)
  BY HeldCases DEF Waiting
<1>3. \A k \in DOMAIN active_flows : \A n \in Range(active_flows[k].buffer) :
         n \in DOMAIN captured /\ Key(n) = k
  BY DEF FramesOfTheirKey, OneKey, Range
<1>4. QED
  BY <1>1, <1>2, <1>3 DEF InBuffer

LEMMA InBufferNext ==
    \A k, n : Key(n)' = k => (InBuffer(n)' <=> n \in Waiting(k)')
<1>1. \A k : k \notin DOMAIN active_flows' => Waiting(k)' = {}
  BY HeldCasesNext DEF Waiting, Range, Segments!Nothing
<1>2. \A k : k \in DOMAIN active_flows' => Waiting(k)' = Range(active_flows'[k].buffer)
  BY HeldCasesNext DEF Waiting
<1>3. \A n : InBuffer(n)' <=> /\ Key(n)' \in DOMAIN active_flows'
                            /\ n \in Range(active_flows'[Key(n)'].buffer)
  BY DEF InBuffer
<1>4. QED
  BY <1>1, <1>2, <1>3

\* Where the frames are after one call of the callback: the new one waits with
\* its flow, or the flow has become a window and others were given up.
LEMMA CallbackMovesFrames ==
    ASSUME TypeOK, BuffersBelowReady, FramesOfTheirKey, NEW f \in Frames, Callback(f)
    PROVE  LET key == FlowKey(f)
               pkt == Len(captured) + 1
           IN  \/ /\ \A k : Waiting(k)' = IF k = key THEN Waiting(k) \cup {pkt} ELSE Waiting(k)
                  /\ \A n : InPayload(n)' <=> InPayload(n)
                  /\ evicted' = evicted
               \/ \E idle \in SUBSET (Keys \ {key}) :
                     /\ \A k : Waiting(k)' = IF k \in idle \cup {key} THEN {} ELSE Waiting(k)
                     /\ \A n : InPayload(n)' <=>
                                  (InPayload(n) \/ n \in Waiting(key) \cup {pkt})
                     /\ evicted' = evicted \cup UNION {Waiting(k) : k \in idle}
<1> DEFINE key == FlowKey(f)
           pkt == Len(captured) + 1
           state == Appended(Lookup(active_flows, key), pkt, f.len, now)
           grown == [pkts |-> Append(Held(key).pkts, pkt), size |-> Held(key).size + f.len]
<1>1. Range(grown.pkts) = Waiting(key) \cup {pkt}
  <2>1. Held(key).pkts \in Seq(Nat \ {0}) /\ pkt \in Nat \ {0}
    BY GrownFlow DEF Held, FlowState, TypeOK
  <2>2. \A s \in Seq(Nat \ {0}) : Range(Append(s, pkt)) = Range(s) \cup {pkt}
    <3> TAKE s \in Seq(Nat \ {0})
    <3>1. <<pkt>> \in Seq(Nat \ {0}) /\ Append(s, pkt) = s \o <<pkt>> /\ Range(<<pkt>>) = {pkt}
      BY <2>1 DEF Range
    <3>2. \A t \in Seq(Nat \ {0}) : Range(s \o t) = Range(s) \cup Range(t)
      BY RangeConcat
    <3>3. QED
      BY <3>1, <3>2
  <2>3. QED
    BY <2>1, <2>2 DEF Waiting
<1>2. CASE Buffer(f, state)
  <2>1. \A k : Held(k)' = IF k = key THEN grown ELSE Held(k)
    BY <1>2, BufferKeepsOthers
  <2>2. \A k : Waiting(k)' = Range(Held(k)'.pkts)
    BY DEF Waiting
  <2> HIDE DEF grown
  <2>3. \A k : Waiting(k)' = IF k = key THEN Waiting(k) \cup {pkt} ELSE Waiting(k)
    BY <2>1, <2>2, <1>1, Zenon DEF Waiting
  <2>4. payloads' = payloads /\ evicted' = evicted
    BY <1>2 DEF Buffer
  <2>5. \A n : InPayload(n)' <=> InPayload(n)
    BY <2>4 DEF InPayload
  <2>6. QED
    BY <2>3, <2>4, <2>5
<1>3. CASE Deliver(f, state)
  <2>1. /\ \E score \in Score :
              payloads' = Append(payloads, [pkts |-> grown.pkts, size |-> grown.size,
                                            score |-> score])
        /\ \E idle \in SUBSET (Keys \ {key}) :
              /\ \A k : Held(k)' = IF k \in idle \cup {key} THEN Segments!Nothing ELSE Held(k)
              /\ evicted' = evicted \cup UNION {Range(Held(k).pkts) : k \in idle}
    BY <1>3, DeliverRemovesFlows
  <2>2. PICK idle \in SUBSET (Keys \ {key}) :
           /\ \A k : Held(k)' = IF k \in idle \cup {key} THEN Segments!Nothing ELSE Held(k)
           /\ evicted' = evicted \cup UNION {Range(Held(k).pkts) : k \in idle}
    BY <2>1
  <2>3. PICK score \in Score :
           payloads' = Append(payloads, [pkts |-> grown.pkts, size |-> grown.size,
                                         score |-> score])
    BY <2>1
  <2> HIDE DEF grown
  <2>4. Range(Segments!Nothing.pkts) = {}
    BY DEF Segments!Nothing, Range
  <2>5. \A k : Waiting(k)' = Range(Held(k)'.pkts)
    BY DEF Waiting
  <2>6. \A k : Waiting(k)' = IF k \in idle \cup {key} THEN {} ELSE Waiting(k)
    BY <2>2, <2>4, <2>5, Zenon DEF Waiting
  <2>7. /\ DOMAIN payloads' = DOMAIN payloads \cup {Len(payloads) + 1}
        /\ \A i \in DOMAIN payloads : payloads'[i] = payloads[i]
        /\ payloads'[Len(payloads) + 1].pkts = grown.pkts
    <3>1. payloads \in Seq([pkts : Seq(Nat \ {0}), size : Nat, score : Score])
      BY DEF TypeOK
    <3>2. QED
      BY <2>3, <3>1
  <2>8. ASSUME NEW n
        PROVE  InPayload(n)' <=> (InPayload(n) \/ n \in Waiting(key) \cup {pkt})
    <3>1. InPayload(n)' <=> \E i \in DOMAIN payloads' : n \in Range(payloads'[i].pkts)
      BY DEF InPayload
    <3>2. InPayload(n) <=> \E i \in DOMAIN payloads : n \in Range(payloads[i].pkts)
      BY DEF InPayload
    <3>3. InPayload(n)' <=> (InPayload(n) \/ n \in Range(grown.pkts))
      BY <3>1, <3>2, <2>7, Zenon
    <3>4. QED
      BY <3>3, <1>1
  <2>9. evicted' = evicted \cup UNION {Waiting(k) : k \in idle}
    BY <2>2 DEF Waiting
  <2>10. QED
    BY <2>6, <2>8, <2>9
<1>4. QED
  BY <1>2, <1>3 DEF Callback

\* In every execution, for all frames and parameters, each captured frame is
\* in its flow, in one payload or given up, and never in two of these places.
THEOREM NoFrameLost == Spec => []Conservation
<1> DEFINE CInv == Conservation /\ evicted \subseteq DOMAIN captured
<1>1. Init => CInv
  BY DEF Init, Conservation
<1>2. TypeOK /\ BuffersBelowReady /\ FramesOfTheirKey /\ CInv /\ [Next]_vars => CInv'
  <2> SUFFICES ASSUME TypeOK, BuffersBelowReady, FramesOfTheirKey, CInv, [Next]_vars
               PROVE  CInv'
    OBVIOUS
  <2>1. ASSUME NEW f \in Frames, Callback(f) PROVE CInv'
    <3> DEFINE key == FlowKey(f)
    <3>0. PICK pkt : pkt = Len(captured) + 1
      OBVIOUS
    <3>1. /\ DOMAIN captured' = DOMAIN captured \cup {pkt}
          /\ pkt \notin DOMAIN captured
          /\ Key(pkt)' = key
          /\ \A n \in DOMAIN captured : Key(n)' = Key(n)
      <4>1. captured \in Seq([frame : Frames, at : Nat])
        BY DEF TypeOK
      <4>2. pkt \notin DOMAIN captured
        BY <4>1, <3>0
      <4>3. \A n : Key(n)' = FlowKey(captured'[n].frame) /\ Key(n) = FlowKey(captured[n].frame)
        BY DEF Key
      <4>4. QED
        BY <2>1, <3>0, <4>2, <4>3, CapturedGrows
    <3>2. /\ \A k : \A n \in Waiting(k) : n \in DOMAIN captured /\ Key(n) = k
          /\ \A n : InBuffer(n) <=> n \in Waiting(Key(n))
      BY WaitingFrames
    <3>3. \A n : InPayload(n) => n \in DOMAIN captured
      BY DEF InPayload, FramesOfTheirKey, Range
    <3>4. \A k, n : Key(n)' = k => (InBuffer(n)' <=> n \in Waiting(k)')
      BY InBufferNext
    <3>6. \A n \in DOMAIN captured :
             /\ InBuffer(n) \/ InPayload(n) \/ n \in evicted
             /\ ~ (InBuffer(n) /\ (InPayload(n) \/ n \in evicted))
             /\ ~ (InPayload(n) /\ n \in evicted)
      BY DEF Conservation
    <3>7. CASE /\ \A k : Waiting(k)' = IF k = key THEN Waiting(k) \cup {pkt} ELSE Waiting(k)
               /\ \A n : InPayload(n)' <=> InPayload(n)
               /\ evicted' = evicted
      <4>1. ASSUME NEW n \in DOMAIN captured'
            PROVE  InBuffer(n)' <=> (InBuffer(n) /\ n # pkt) \/ n = pkt
        <5>1. PICK k : Key(n)' = k
          OBVIOUS
        <5>2. Waiting(k)' = IF k = key THEN Waiting(k) \cup {pkt} ELSE Waiting(k)
          BY <3>7
        <5>3. n # pkt => (InBuffer(n) <=> n \in Waiting(k))
          BY <5>1, <3>1, <3>2
        <5>4. QED
          BY <5>1, <5>2, <5>3, <3>1, <3>2, <3>4
      <4>2. QED
        BY <4>1, <3>1, <3>3, <3>6, <3>7 DEF Conservation
    <3>8. ASSUME NEW idle \in SUBSET (Keys \ {key}),
                 \A k : Waiting(k)' = IF k \in idle \cup {key} THEN {} ELSE Waiting(k),
                 \A n : InPayload(n)' <=> (InPayload(n) \/ n \in Waiting(key) \cup {pkt}),
                 evicted' = evicted \cup UNION {Waiting(k) : k \in idle}
          PROVE  CInv'
      <4>1. ASSUME NEW n \in DOMAIN captured'
            PROVE  InBuffer(n)' <=> /\ Key(n)' \notin idle \cup {key}
                                    /\ n \in Waiting(Key(n)')
        <5>1. PICK k : Key(n)' = k
          OBVIOUS
        <5>2. Waiting(k)' = IF k \in idle \cup {key} THEN {} ELSE Waiting(k)
          BY <3>8
        <5>3. QED
          BY <5>1, <5>2, <3>4
      <4>2. \A n : n \in evicted' <=> n \in evicted \/ \E k \in idle : n \in Waiting(k)
        BY <3>8
      <4>3. ASSUME NEW n \in DOMAIN captured
            PROVE  /\ InBuffer(n)' <=> InBuffer(n) /\ Key(n) \notin idle \cup {key}
                   /\ InPayload(n)' <=> InPayload(n) \/ (InBuffer(n) /\ Key(n) = key)
                   /\ n \in evicted' <=> n \in evicted \/ (InBuffer(n) /\ Key(n) \in idle)
        BY <4>1, <4>2, <3>1, <3>2, <3>8
      <4>4. InPayload(pkt)' /\ ~ InBuffer(pkt)' /\ pkt \notin evicted'
        BY <4>1, <4>2, <3>1, <3>2, <3>8
      <4>5. Conservation'
        <5>1. \A n \in DOMAIN captured' :
                 /\ InBuffer(n)' \/ InPayload(n)' \/ n \in evicted'
                 /\ ~ (InBuffer(n)' /\ (InPayload(n)' \/ n \in evicted'))
                 /\ ~ (InPayload(n)' /\ n \in evicted')
          BY <4>3, <4>4, <3>1, <3>6
        <5>2. QED
          BY <5>1 DEF Conservation
      <4>6. evicted' \subseteq DOMAIN captured'
        BY <4>2, <3>1, <3>2
      <4>7. QED
        BY <4>5, <4>6
    <3>9. QED
      BY <2>1, <3>0, <3>7, <3>8, CallbackMovesFrames
  <2>2. CASE UNCHANGED <<active_flows, captured, payloads, evicted>>
    BY <2>2 DEF Conservation, InBuffer, InPayload, Key
  <2>3. QED
    BY <2>1, <2>2 DEF Next, Start, Tick, vars, history
<1>3. QED
  BY <1>1, <1>2, DataPlaneInvariant, PTL DEF Spec, IInv
-----------------------------------------------------------------------------
\* A newer frame at the end keeps a sequence ascending and after another one.
LEMMA AppendKeepsOrder ==
    ASSUME NEW s \in Seq(Nat), NEW p \in Nat, \A i \in DOMAIN s : s[i] < p
    PROVE  /\ Append(s, p) # <<>>
           /\ Ascending(s) => Ascending(Append(s, p))
           /\ \A t : (After(s, t) /\ \A j \in DOMAIN t : t[j] < p) => After(Append(s, p), t)
<1>1. /\ DOMAIN Append(s, p) = DOMAIN s \cup {Len(s) + 1}
      /\ \A i \in DOMAIN s : Append(s, p)[i] = s[i] /\ i < Len(s) + 1 /\ i \in Nat
      /\ Append(s, p)[Len(s) + 1] = p
      /\ Len(s) + 1 \in Nat
      /\ Append(s, p) # <<>>
  OBVIOUS
<1>2. Ascending(s) => Ascending(Append(s, p))
  BY <1>1 DEF Ascending
<1>3. ASSUME NEW t, After(s, t), \A j \in DOMAIN t : t[j] < p
      PROVE  After(Append(s, p), t)
  BY <1>1, <1>3 DEF After
<1>4. QED
  BY <1>1, <1>2, <1>3

\* The order of frames, told by what waits: the inductive form of
\* ReassemblyInOrder.
OrderInv ==
    /\ \A k : Ascending(Held(k).pkts)
    /\ \A k : \A i \in DOMAIN payloads :
          Key(payloads[i].pkts[1]) = k => After(Held(k).pkts, payloads[i].pkts)
    /\ \A i \in DOMAIN payloads :
          /\ Ascending(payloads[i].pkts)
          /\ \E k \in Keys : OneKey(payloads[i].pkts, k)
          /\ \A j \in 1..(i-1) :
                Key(payloads[j].pkts[1]) = Key(payloads[i].pkts[1])
                    => After(payloads[i].pkts, payloads[j].pkts)

LEMMA OrderInvImplies ==
    ASSUME TypeOK, FramesOfTheirKey, PayloadJustComplete, OrderInv
    PROVE  ReassemblyInOrder
<1>1. ASSUME NEW k \in DOMAIN active_flows
      PROVE  /\ Ascending(active_flows[k].buffer)
             /\ OneKey(active_flows[k].buffer, k)
             /\ \A i \in DOMAIN payloads :
                   OneKey(payloads[i].pkts, k) => After(active_flows[k].buffer, payloads[i].pkts)
  <2>1. Held(k).pkts = active_flows[k].buffer
    BY HeldCases
  <2>2. ASSUME NEW i \in DOMAIN payloads, OneKey(payloads[i].pkts, k)
        PROVE  After(active_flows[k].buffer, payloads[i].pkts)
    <3>1. 1 \in DOMAIN payloads[i].pkts
      BY DEF PayloadJustComplete, TypeOK
    <3>2. Key(payloads[i].pkts[1]) = k
      BY <2>2, <3>1 DEF OneKey
    <3>3. QED
      BY <2>1, <3>2 DEF OrderInv
  <2>3. QED
    BY <2>1, <2>2 DEF OrderInv, FramesOfTheirKey
<1>2. QED
  BY <1>1 DEF ReassemblyInOrder, OrderInv

\* The callback keeps the order: the new frame is the newest of its flow.
LEMMA CallbackKeepsOrder ==
    ASSUME IInv, OrderInv, NEW f \in Frames, Callback(f)
    PROVE  OrderInv'
<1> USE DEF IInv
<1> DEFINE key == FlowKey(f)
           state == Appended(Lookup(active_flows, key), Len(captured) + 1, f.len, now)
<1>1. PICK pkt \in Nat : pkt = Len(captured) + 1
  BY DEF TypeOK
<1>2. PICK grown : grown = [pkts |-> Append(Held(key).pkts, pkt), size |-> Held(key).size + f.len]
  OBVIOUS
<1>3. /\ DOMAIN captured' = DOMAIN captured \cup {pkt}
      /\ \A n \in DOMAIN captured : n \in Nat /\ n < pkt /\ Key(n)' = Key(n)
      /\ Key(pkt)' = key
  <2>1. \A n \in DOMAIN captured : n \in Nat /\ n < pkt
    BY <1>1 DEF TypeOK
  <2>2. \A n : Key(n)' = FlowKey(captured'[n].frame) /\ Key(n) = FlowKey(captured[n].frame)
    BY DEF Key
  <2>3. QED
    BY <1>1, <2>1, <2>2, CapturedGrows
<1>4. \A k : \A i \in DOMAIN Held(k).pkts :
         Held(k).pkts[i] \in DOMAIN captured /\ Key(Held(k).pkts[i]) = k
  BY WaitingFrames DEF Waiting, Range
<1>5. \A i \in DOMAIN payloads :
         /\ payloads[i].pkts \in Seq(Nat) /\ 1 \in DOMAIN payloads[i].pkts
         /\ \A j \in DOMAIN payloads[i].pkts : payloads[i].pkts[j] \in DOMAIN captured
  <2> TAKE i \in DOMAIN payloads
  <2>1. payloads \in Seq([pkts : Seq(Nat \ {0}), size : Nat, score : Score])
    BY DEF TypeOK
  <2>2. payloads[i].pkts # <<>>
    BY DEF PayloadJustComplete
  <2>3. \A j \in DOMAIN payloads[i].pkts : payloads[i].pkts[j] \in DOMAIN captured
    BY DEF FramesOfTheirKey
  <2> HIDE DEF IInv, state
  <2>4. payloads[i].pkts \in Seq(Nat \ {0})
    <3> DEFINE P == [pkts : Seq(Nat \ {0}), size : Nat, score : Score]
    <3>1. payloads \in Seq(P)
      BY <2>1
    <3> HIDE DEF P
    <3>2. payloads[i] \in P
      BY <3>1
    <3>3. QED
      BY <3>2 DEF P
  <2>5. QED
    BY <2>2, <2>3, <2>4
<1>6. Held(key).pkts \in Seq(Nat)
  BY GrownFlow DEF Held, FlowState
<1>7. /\ grown.pkts # <<>> /\ Ascending(grown.pkts)
      /\ \A i \in DOMAIN payloads :
            Key(payloads[i].pkts[1]) = key => After(grown.pkts, payloads[i].pkts)
  <2>1. \A i \in DOMAIN Held(key).pkts : Held(key).pkts[i] < pkt
    BY <1>3, <1>4
  <2>2. \A i \in DOMAIN payloads : \A j \in DOMAIN payloads[i].pkts : payloads[i].pkts[j] < pkt
    BY <1>3, <1>5
  <2>3. /\ Append(Held(key).pkts, pkt) # <<>>
        /\ Ascending(Append(Held(key).pkts, pkt))
    BY <1>6, <2>1, AppendKeepsOrder DEF OrderInv
  <2>4. ASSUME NEW i \in DOMAIN payloads, Key(payloads[i].pkts[1]) = key
        PROVE  After(Append(Held(key).pkts, pkt), payloads[i].pkts)
    BY <1>6, <2>1, <2>2, <2>4, AppendKeepsOrder DEF OrderInv
  <2>5. QED
    BY <1>2, <2>3, <2>4
<1>8. /\ \A i \in DOMAIN grown.pkts :
            grown.pkts[i] \in DOMAIN captured' /\ Key(grown.pkts[i])' = key
      /\ 1 \in DOMAIN grown.pkts
  <2>1. /\ DOMAIN grown.pkts = DOMAIN Held(key).pkts \cup {Len(Held(key).pkts) + 1}
        /\ \A i \in DOMAIN Held(key).pkts : grown.pkts[i] = Held(key).pkts[i]
        /\ grown.pkts[Len(Held(key).pkts) + 1] = pkt
        /\ 1 \in DOMAIN grown.pkts
    BY <1>1, <1>2, <1>6
  <2>2. QED
    BY <2>1, <1>3, <1>4
<1>9. \A n \in DOMAIN captured : captured'[n] = captured[n]
  BY CapturedGrows
<1> DEFINE InOrder(i) ==
              /\ Ascending(payloads[i].pkts)
              /\ \E k \in Keys : OneKey(payloads[i].pkts, k)
              /\ \A j \in 1..(i-1) :
                    Key(payloads[j].pkts[1]) = Key(payloads[i].pkts[1])
                        => After(payloads[i].pkts, payloads[j].pkts)
<1>10. ASSUME NEW i \in DOMAIN payloads,
             \A j \in DOMAIN payloads : j \in DOMAIN payloads' /\ payloads'[j] = payloads[j]
      PROVE  InOrder(i)'
  <2>1. \A j \in 1..(i-1) : j \in DOMAIN payloads
    BY DEF TypeOK
  <2>2. Ascending(payloads[i].pkts)'
    BY <1>10 DEF OrderInv, Ascending
  <2>3. PICK k \in Keys : OneKey(payloads[i].pkts, k)
    BY DEF OrderInv
  <2>4. OneKey(payloads[i].pkts, k)'
    BY <1>10, <2>3, <1>3, <1>9 DEF OneKey, Key
  <2>5. ASSUME NEW j \in 1..(i-1), (Key(payloads[j].pkts[1]) = Key(payloads[i].pkts[1]))'
        PROVE  After(payloads[i].pkts, payloads[j].pkts)'
    <3>1. Key(payloads[j].pkts[1]) = Key(payloads[i].pkts[1])
      BY <1>10, <2>1, <2>5, <1>5, <1>9 DEF Key
    <3>2. After(payloads[i].pkts, payloads[j].pkts)
      BY <3>1 DEF OrderInv
    <3>3. QED
      BY <1>10, <2>1, <3>2 DEF After
  <2>6. QED
    BY <2>2, <2>4, <2>5
<1>11. CASE Buffer(f, state)
  <2>1. \A k : Held(k)' = IF k = key THEN grown ELSE Held(k)
    BY <1>1, <1>2, <1>11, BufferKeepsOthers
  <2>2. payloads' = payloads
    BY <1>11 DEF Buffer
  <2>3. ASSUME NEW k PROVE Ascending(Held(k).pkts)'
    BY <2>1, <1>7 DEF OrderInv, Ascending
  <2>4. ASSUME NEW k, NEW i \in DOMAIN payloads', Key(payloads[i].pkts[1])' = k
        PROVE  After(Held(k).pkts, payloads[i].pkts)'
    <3>1. i \in DOMAIN payloads /\ Key(payloads[i].pkts[1]) = k
      BY <2>2, <2>4, <1>5, <1>9 DEF Key
    <3>2. After(Held(k).pkts, payloads[i].pkts)
      BY <3>1 DEF OrderInv
    <3>3. QED
      BY <2>1, <2>2, <3>1, <3>2, <1>7 DEF After
  <2>5. ASSUME NEW i \in DOMAIN payloads' PROVE InOrder(i)'
    BY <2>2, <1>10
  <2>6. QED
    BY <2>3, <2>4, <2>5 DEF OrderInv
<1>12. CASE Deliver(f, state)
  <2>1. /\ \E score \in Score :
              payloads' = Append(payloads, [pkts |-> grown.pkts, size |-> grown.size,
                                            score |-> score])
        /\ \E idle \in SUBSET (Keys \ {key}) :
              /\ \A k : Held(k)' = IF k \in idle \cup {key} THEN Segments!Nothing ELSE Held(k)
              /\ evicted' = evicted \cup UNION {Range(Held(k).pkts) : k \in idle}
    BY <1>1, <1>2, <1>12, DeliverRemovesFlows
  <2>2. PICK idle \in SUBSET (Keys \ {key}) :
           \A k : Held(k)' = IF k \in idle \cup {key} THEN Segments!Nothing ELSE Held(k)
    BY <2>1
  <2>3. PICK new : new = Len(payloads) + 1
    OBVIOUS
  <2>4. /\ DOMAIN payloads' = DOMAIN payloads \cup {new}
        /\ \A i \in DOMAIN payloads : payloads'[i] = payloads[i]
        /\ payloads'[new].pkts = grown.pkts
        /\ new \in Nat /\ DOMAIN payloads = 1..(new - 1)
    <3>1. payloads \in Seq([pkts : Seq(Nat \ {0}), size : Nat, score : Score])
      BY DEF TypeOK
    <3>2. QED
      BY <2>1, <2>3, <3>1
  <2>5. Segments!Nothing.pkts = <<>>
    BY DEF Segments!Nothing
  <2>6. ASSUME NEW k PROVE Ascending(Held(k).pkts)'
    BY <2>2, <2>5 DEF OrderInv, Ascending
  <2>7. ASSUME NEW k, NEW i \in DOMAIN payloads', Key(payloads[i].pkts[1])' = k
        PROVE  After(Held(k).pkts, payloads[i].pkts)'
    <3>1. CASE i \in DOMAIN payloads
      <4>1. Key(payloads[i].pkts[1]) = k
        BY <2>4, <2>7, <3>1, <1>5, <1>9 DEF Key
      <4>2. After(Held(k).pkts, payloads[i].pkts)
        BY <3>1, <4>1 DEF OrderInv
      <4>3. QED
        BY <2>2, <2>4, <2>5, <3>1, <4>2 DEF After
    <3>2. CASE i = new
      <4>1. k = key
        BY <2>4, <2>7, <3>2, <1>8 DEF Key
      <4>2. QED
        BY <2>2, <2>5, <4>1 DEF After
    <3>3. QED
      BY <2>4, <3>1, <3>2
  <2>8. ASSUME NEW i \in DOMAIN payloads' PROVE InOrder(i)'
    <3>1. CASE i \in DOMAIN payloads
      BY <2>4, <3>1, <1>10
    <3>2. CASE i = new
      <4>1. \A j \in 1..(i-1) : j \in DOMAIN payloads
        BY <2>4, <3>2
      <4>2. key \in Keys
        BY DEF Keys
      <4>3. Ascending(payloads[i].pkts)' /\ OneKey(payloads[i].pkts, key)'
        BY <2>4, <3>2, <1>7, <1>8 DEF Ascending, OneKey, Key
      <4>4. ASSUME NEW j \in 1..(i-1), (Key(payloads[j].pkts[1]) = Key(payloads[i].pkts[1]))'
            PROVE  After(payloads[i].pkts, payloads[j].pkts)'
        <5>1. Key(payloads[j].pkts[1]) = key
          BY <2>4, <3>2, <4>1, <4>4, <1>5, <1>8, <1>9 DEF Key
        <5>2. After(grown.pkts, payloads[j].pkts)
          BY <4>1, <5>1, <1>7
        <5>3. QED
          BY <2>4, <3>2, <4>1, <5>2 DEF After
      <4>5. QED
        BY <4>2, <4>3, <4>4
    <3>3. QED
      BY <2>4, <3>1, <3>2
  <2>9. QED
    BY <2>6, <2>7, <2>8 DEF OrderInv
<1>13. QED
  BY <1>11, <1>12 DEF Callback

\* In every execution, for all frames and parameters, reassembly keeps the
\* order of capture within a flow and between its windows.
THEOREM OrderKept == Spec => []ReassemblyInOrder
<1>1. Init => OrderInv
  <2> SUFFICES ASSUME Init PROVE OrderInv
    OBVIOUS
  <2>1. payloads = <<>> /\ DOMAIN active_flows = {}
    BY DEF Init, EmptyTable
  <2>2. \A k : Held(k).pkts = <<>>
    BY <2>1, HeldCases DEF Segments!Nothing
  <2>3. QED
    BY <2>1, <2>2 DEF OrderInv, Ascending
<1>2. IInv /\ OrderInv /\ [Next]_vars => OrderInv'
  <2> SUFFICES ASSUME IInv, OrderInv, [Next]_vars PROVE OrderInv'
    OBVIOUS
  <2>1. ASSUME NEW f \in Frames, Callback(f) PROVE OrderInv'
    BY <2>1, CallbackKeepsOrder
  <2>2. CASE UNCHANGED <<active_flows, captured, payloads>>
    BY <2>2 DEF OrderInv, Held, Lookup, Ascending, After, OneKey, Key
  <2>3. QED
    BY <2>1, <2>2 DEF Next, Start, Tick, vars, history
<1>3. IInv /\ OrderInv => ReassemblyInOrder
  BY OrderInvImplies DEF IInv
<1>4. QED
  BY <1>1, <1>2, <1>3, DataPlaneInvariant, PTL DEF Spec
-----------------------------------------------------------------------------
\* Without a model a payload with a signature has raised an alert; there is no
\* payload before the model was tried.
SignatureInv ==
    /\ sniffer = "starting" => payloads = <<>>
    /\ (~ model_loaded /\ Threshold < HeuristicHit) =>
          \A i \in DOMAIN payloads :
              (\E n \in Range(payloads[i].pkts) : captured[n].frame.sig)
                  => \E a \in Range(notifications) : a.payload = i

\* Without a model a payload whose frames hold a signature scores a hit.
LEMMA SignatureScores ==
    ASSUME TypeOK, BuffersBelowReady, FramesOfTheirKey, NEW f \in Frames, Callback(f),
           ~ model_loaded, Threshold < HeuristicHit,
           Deliver(f, Appended(Lookup(active_flows, FlowKey(f)), Len(captured) + 1, f.len, now))
    PROVE  LET state == Appended(Lookup(active_flows, FlowKey(f)), Len(captured) + 1, f.len, now)
           IN  \E score \in Score :
                  /\ payloads' = Append(payloads, [pkts |-> state.buffer, size |-> state.size,
                                                   score |-> score])
                  /\ notifications' = notifications \o Notified(f, score)
                  /\ (\E n \in Range(state.buffer) : captured'[n].frame.sig)
                        => score = HeuristicHit
<1> DEFINE state == Appended(Lookup(active_flows, FlowKey(f)), Len(captured) + 1, f.len, now)
           marks == [i \in DOMAIN state.buffer |-> captured'[state.buffer[i]].frame.sig]
<1>1. PICK result \in ModelResults(model_loaded) :
         LET payload == Payload(state, result, captured') IN
         /\ payloads' = Append(payloads, payload)
         /\ notifications' = notifications \o Notified(f, payload.score)
  BY DEF Deliver
<1>2. result = NoScore
  BY <1>1 DEF ModelResults
<1>3. Payload(state, result, captured') =
         [pkts |-> state.buffer, size |-> state.size, score |-> Heuristic(marks)]
  BY <1>2 DEF Payload, Infer, NoScore
<1>4. (\E n \in Range(state.buffer) : captured'[n].frame.sig) => Heuristic(marks) = HeuristicHit
  BY DEF Heuristic, Range
<1>5. Heuristic(marks) \in Score
  BY DEF Heuristic, Score
<1>6. /\ payloads' = Append(payloads, [pkts |-> state.buffer, size |-> state.size,
                                       score |-> Heuristic(marks)])
      /\ notifications' = notifications \o Notified(f, Heuristic(marks))
  <2> HIDE DEF state, marks
  <2>1. payloads' = Append(payloads, Payload(state, result, captured'))
    BY <1>1
  <2>2. notifications' = notifications \o Notified(f, Payload(state, result, captured').score)
    BY <1>1
  <2>3. Payload(state, result, captured').score = Heuristic(marks)
    BY <1>3
  <2>4. QED
    BY <1>3, <2>1, <2>2, <2>3
<1> HIDE DEF marks
<1>7. \E score \in Score :
          /\ payloads' = Append(payloads, [pkts |-> state.buffer, size |-> state.size,
                                           score |-> score])
          /\ notifications' = notifications \o Notified(f, score)
          /\ (\E n \in Range(state.buffer) : captured'[n].frame.sig) => score = HeuristicHit
  <2> HIDE DEF state
  <2>1. QED
    BY <1>4, <1>5, <1>6
<1>8. QED
  BY <1>7

\* Without a model, for all frames and parameters, a frame with a signature that
\* went into a payload has raised an alert that names its sender.
THEOREM SignaturesRaiseAlerts == Spec => []SignatureAlerted
<1>1. Init => SignatureInv
  BY DEF Init, SignatureInv
<1>2. IInv /\ SignatureInv /\ [Next]_vars => SignatureInv'
  <2> SUFFICES ASSUME IInv, SignatureInv, [Next]_vars PROVE SignatureInv'
    OBVIOUS
  <2>1. CASE Start
    BY <2>1 DEF Start, history, SignatureInv
  <2>2. ASSUME NEW f \in Frames, Callback(f) PROVE SignatureInv'
    <3> DEFINE state == Appended(Lookup(active_flows, FlowKey(f)), Len(captured) + 1, f.len, now)
    <3>1. sniffer' = sniffer /\ sniffer # "starting" /\ model_loaded' = model_loaded
      BY <2>2 DEF Callback
    <3> SUFFICES ASSUME ~ model_loaded, Threshold < HeuristicHit, NEW i \in DOMAIN payloads',
                        NEW n \in Range(payloads'[i].pkts), captured'[n].frame.sig
                 PROVE  \E a \in Range(notifications') : a.payload = i
      BY <3>1 DEF SignatureInv
    <3>2. \A j \in DOMAIN payloads : \A m \in Range(payloads[j].pkts) : captured'[m] = captured[m]
      BY <2>2, CapturedGrows DEF IInv, FramesOfTheirKey, Range
    <3>3. ASSUME i \in DOMAIN payloads, payloads'[i] = payloads[i]
          PROVE  \E a \in Range(notifications) : a.payload = i
      BY <3>2, <3>3 DEF SignatureInv
    <3>4. CASE Buffer(f, state)
      <4>1. payloads' = payloads /\ notifications' = notifications
        BY <3>4, BufferKeepsHistory
      <4>2. QED
        BY <3>3, <4>1
    <3>5. CASE Deliver(f, state)
      <4>1. PICK score \in Score :
               /\ payloads' = Append(payloads, [pkts |-> state.buffer, size |-> state.size,
                                                score |-> score])
               /\ notifications' = notifications \o Notified(f, score)
               /\ (\E m \in Range(state.buffer) : captured'[m].frame.sig) => score = HeuristicHit
        BY <2>2, <3>5, SignatureScores DEF IInv
      <4> HIDE DEF state
      <4>2. /\ payloads \in Seq([pkts : Seq(Nat \ {0}), size : Nat, score : Score])
            /\ notifications \in Seq(Notification) /\ Notified(f, score) \in Seq(Notification)
        BY NotifiedType DEF IInv, TypeOK
      <4>3. Range(notifications') = Range(notifications) \cup Range(Notified(f, score))
        BY <4>1, <4>2, RangeConcat
      <4>4. CASE i \in DOMAIN payloads
        <5>1. payloads'[i] = payloads[i]
          BY <4>1, <4>2, <4>4
        <5>2. QED
          BY <3>3, <4>3, <4>4, <5>1
      <4>5. CASE i \notin DOMAIN payloads
        <5>1. i = Len(payloads) + 1 /\ payloads'[i].pkts = state.buffer
          BY <4>1, <4>2, <4>5
        <5>2. score = HeuristicHit
          BY <4>1, <5>1
        <5>3. Notified(f, score) = <<[src_ip |-> f.src_ip, dst_port |-> f.dst_port,
                                      confidence |-> score, payload |-> Len(payloads) + 1]>>
          BY <5>2 DEF Notified
        <5>4. [src_ip |-> f.src_ip, dst_port |-> f.dst_port, confidence |-> score,
               payload |-> Len(payloads) + 1] \in Range(Notified(f, score))
          BY <5>3 DEF Range
        <5>5. QED
          BY <4>3, <5>1, <5>4
      <4>6. QED
        BY <4>4, <4>5
    <3>6. QED
      BY <2>2, <3>4, <3>5 DEF Callback
  <2>3. CASE UNCHANGED <<sniffer, model_loaded, captured, payloads, notifications>>
    BY <2>3 DEF SignatureInv
  <2>4. QED
    BY <2>1, <2>2, <2>3 DEF Next, Tick, vars, history
<1>3. IInv /\ SignatureInv => SignatureAlerted
  <2> SUFFICES ASSUME IInv, SignatureInv, ~ model_loaded, Threshold < HeuristicHit,
                      NEW n \in DOMAIN captured, captured[n].frame.sig, InPayload(n)
               PROVE  \E a \in Range(notifications) :
                         /\ a.src_ip = captured[n].frame.src_ip
                         /\ n \in Range(payloads[a.payload].pkts)
    BY DEF SignatureAlerted
  <2>1. PICK i \in DOMAIN payloads : n \in Range(payloads[i].pkts)
    BY DEF InPayload
  <2>2. PICK a \in Range(notifications) : a.payload = i
    BY <2>1 DEF SignatureInv
  <2>3. QED
    BY <2>1, <2>2 DEF IInv, AlertNamesItsFrames
<1>4. QED
  BY <1>1, <1>2, <1>3, DataPlaneInvariant, PTL DEF Spec
=============================================================================
