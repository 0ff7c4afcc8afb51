--------------------------- MODULE DataPlaneProofs ---------------------------
(***************************************************************************)
(* What holds of the data plane for every set of frames, every window and  *)
(* every cadence: its state is well typed, the flow table is bounded, an   *)
(* alert names the host whose frames raised it, and a cleanup evicts       *)
(* exactly the stale flows.                                                *)
(***************************************************************************)
EXTENDS DataPlane, TLAPS

\* The elements of a concatenation.
LEMMA RangeConcat ==
    ASSUME NEW S, NEW s \in Seq(S), NEW t \in Seq(S)
    PROVE  Range(s \o t) = Range(s) \cup Range(t)
<1>1. \A i \in DOMAIN s : i \in DOMAIN (s \o t) /\ (s \o t)[i] = s[i]
  OBVIOUS
<1>2. \A i \in DOMAIN t : Len(s) + i \in DOMAIN (s \o t) /\ (s \o t)[Len(s) + i] = t[i]
  OBVIOUS
<1>3. \A i \in DOMAIN (s \o t) :
         \/ i \in DOMAIN s /\ (s \o t)[i] = s[i]
         \/ i - Len(s) \in DOMAIN t /\ (s \o t)[i] = t[i - Len(s)]
  OBVIOUS
<1>4. ASSUME NEW x \in Range(s \o t) PROVE x \in Range(s) \cup Range(t)
  <2>1. PICK i \in DOMAIN (s \o t) : x = (s \o t)[i]
    BY <1>4 DEF Range
  <2>2. QED
    BY <2>1, <1>3, Zenon DEF Range
<1>5. Range(s) \subseteq Range(s \o t)
  BY <1>1, Zenon DEF Range
<1>6. Range(t) \subseteq Range(s \o t)
  BY <1>2, Zenon DEF Range
<1>7. QED
  BY <1>4, <1>5, <1>6

\* A frame appended to a flow gives a flow; the size grows by its length.
LEMMA AppendedType ==
    ASSUME NEW state \in FlowState, NEW pkt \in Nat \ {0}, NEW len \in Nat, NEW t \in Nat
    PROVE  Appended(state, pkt, len, t) \in FlowState
BY DEF Appended, FlowState

\* The state operator[] yields for a key, new or not, is a flow.
LEMMA LookupType ==
    ASSUME NEW flows, \A k \in DOMAIN flows : flows[k] \in FlowState, NEW key
    PROVE  Lookup(flows, key) \in FlowState
<1>1. [buffer |-> <<>>, size |-> 0, last_seen |-> 0] \in FlowState
  BY DEF FlowState
<1>2. QED
  BY <1>1 DEF Lookup

\* process_packet stores or erases the entry of one key and leaves the others.
LEMMA TableAfterEntries ==
    ASSUME NEW flows, NEW key, NEW state
    PROVE  /\ DOMAIN TableAfter(flows, key, state) \subseteq DOMAIN flows \cup {key}
           /\ \A k \in DOMAIN TableAfter(flows, key, state) :
                 \/ /\ k \in DOMAIN flows
                    /\ TableAfter(flows, key, state)[k] = flows[k]
                 \/ /\ k = key /\ ~ Ready(state)
                    /\ TableAfter(flows, key, state)[k] = state
BY DEF TableAfter, Restrict

\* cleanup_stale removes entries and changes none.
LEMMA CleanupEntries ==
    ASSUME NEW flows, NEW timeout, NEW t
    PROVE  /\ DOMAIN CleanupStale(flows, timeout, t) \subseteq DOMAIN flows
           /\ \A k \in DOMAIN CleanupStale(flows, timeout, t) :
                 CleanupStale(flows, timeout, t)[k] = flows[k]
BY DEF CleanupStale, Restrict

\* The entries a callback leaves in the table: an entry is an old one, or the
\* flow of the captured frame, and then it is incomplete.
LEMMA CallbackEntries ==
    ASSUME NEW f \in Frames, Callback(f)
    PROVE  LET key == FlowKey(f)
               state == Appended(Lookup(active_flows, key), Len(captured) + 1, f.len, now)
           IN  /\ DOMAIN active_flows' \subseteq DOMAIN active_flows \cup {key}
               /\ \A k \in DOMAIN active_flows' :
                     \/ k \in DOMAIN active_flows /\ active_flows'[k] = active_flows[k]
                     \/ k = key /\ ~ Ready(state) /\ active_flows'[k] = state
<1> DEFINE key == FlowKey(f)
           state == Appended(Lookup(active_flows, key), Len(captured) + 1, f.len, now)
           table == TableAfter(active_flows, key, state)
<1>1. active_flows' = table \/ active_flows' = CleanupStale(table, TIMEOUT, now)
  BY DEF Callback, Buffer, Deliver, CountAndCleanup
<1>2. /\ DOMAIN active_flows' \subseteq DOMAIN table
      /\ \A k \in DOMAIN active_flows' : active_flows'[k] = table[k]
  BY <1>1, CleanupEntries
<1>3. QED
  BY <1>2, TableAfterEntries

\* infer always yields a score: the heuristic stands in for the model.
LEMMA InferType ==
    ASSUME NEW result \in ModelScores \cup {NoScore}, NEW marks
    PROVE  Infer(result, marks) \in Score
BY ModelScoresAssumption DEF Infer, Score, Heuristic, HeuristicHit, HeuristicMiss, NoScore

\* At most one well-typed notification is written per payload.
LEMMA NotifiedType ==
    ASSUME NEW f \in Frames, NEW score \in Score, Len(payloads) \in Nat
    PROVE  Notified(f, score) \in Seq(Notification)
<1>1. Len(payloads) + 1 \in Nat \ {0}
  OBVIOUS
<1>2. [src_ip |-> f.src_ip, dst_port |-> f.dst_port, confidence |-> score,
       payload |-> Len(payloads) + 1] \in Notification
  BY <1>1 DEF Notification
<1>3. QED
  BY <1>2 DEF Notified

\* The state of the data plane thread is well typed in every execution.
THEOREM TypeCorrect == Spec => []TypeOK
<1>1. Init => TypeOK
  <2>1. DOMAIN EmptyTable = {}
    BY DEF EmptyTable
  <2>2. Init => active_flows = EmptyTable
    BY DEF Init
  <2>3. ASSUME Init PROVE TypeOK
    <3>1. /\ DOMAIN active_flows \subseteq Keys
          /\ \A k \in DOMAIN active_flows : active_flows[k] \in FlowState
      BY <2>1, <2>2, <2>3
    <3>2. captured \in Seq([frame : Frames, at : Nat])
      BY <2>3 DEF Init
    <3>3. payloads \in Seq([pkts : Seq(Nat \ {0}), size : Nat, score : Score])
      BY <2>3 DEF Init
    <3>4. notifications \in Seq(Notification)
      BY <2>3 DEF Init
    <3>5. QED
      BY <2>3, <3>1, <3>2, <3>3, <3>4 DEF Init, TypeOK
  <2>4. QED
    BY <2>3
<1>2. TypeOK /\ [Next]_vars => TypeOK'
  <2> SUFFICES ASSUME TypeOK, [Next]_vars PROVE TypeOK'
    OBVIOUS
  <2> USE DEF TypeOK
  <2>1. CASE Start
    BY <2>1 DEF Start, history
  <2>2. ASSUME NEW f \in Frames, Callback(f) PROVE TypeOK'
    <3> DEFINE key == FlowKey(f)
               pkt == Len(captured) + 1
               state == Appended(Lookup(active_flows, key), pkt, f.len, now)
    <3>1. f.len \in Nat /\ pkt \in Nat \ {0} /\ now \in Nat
      BY DataPlaneAssumption
    <3>2. state \in FlowState
      BY <3>1, LookupType, AppendedType
    <3>3. /\ DOMAIN active_flows' \subseteq Keys
          /\ \A k \in DOMAIN active_flows' : active_flows'[k] \in FlowState
      BY <2>2, <3>2, CallbackEntries DEF Keys
    <3>4. /\ captured' \in Seq([frame : Frames, at : Nat])
          /\ Len(captured') = pkt
          /\ UNCHANGED <<sniffer, model_loaded, now>>
      BY <2>2 DEF Callback
    <3>5. CASE Buffer(f, state)
      BY <3>3, <3>4, <3>5 DEF Buffer
    <3>6. CASE Deliver(f, state)
      <4>1. PICK result \in ModelResults(model_loaded) :
               LET payload == Payload(state, result, captured') IN
               /\ payloads' = Append(payloads, payload)
               /\ notifications' = notifications \o Notified(f, payload.score)
        BY <3>6 DEF Deliver
      <4> DEFINE payload == Payload(state, result, captured')
      <4>2. payload \in [pkts : Seq(Nat \ {0}), size : Nat, score : Score]
        BY <3>2, InferType DEF Payload, FlowState, ModelResults
      <4>3. payloads' \in Seq([pkts : Seq(Nat \ {0}), size : Nat, score : Score])
        BY <4>1, <4>2
      <4>4. Notified(f, payload.score) \in Seq(Notification)
        BY <4>2, NotifiedType
      <4>5. notifications' \in Seq(Notification)
        BY <4>1, <4>4
      <4>6. pkt_count' \in Nat /\ cleaned_at' \in Nat
        BY <3>6, <3>4 DEF Deliver, CountAndCleanup
      <4>7. evicted' \subseteq Nat \ {0}
        <5> DEFINE table == TableAfter(active_flows, key, state)
        <5>1. \A k \in DOMAIN table : table[k] \in FlowState
          BY <3>2, TableAfterEntries
        <5>2. \A k \in DOMAIN table : Range(table[k].buffer) \subseteq Nat \ {0}
          BY <5>1 DEF FlowState, Range
        <5>3. evicted' \subseteq evicted \cup
                 UNION {Range(table[k].buffer) : k \in StaleKeys(table, TIMEOUT, now)}
          BY <3>6 DEF Deliver, CountAndCleanup
        <5>4. QED
          BY <5>2, <5>3 DEF StaleKeys
      <4>8. QED
        BY <3>3, <3>4, <4>3, <4>5, <4>6, <4>7
    <3>7. QED
      BY <2>2, <3>5, <3>6 DEF Callback
  <2>3. CASE Tick
    BY <2>3 DEF Tick, history
  <2>4. CASE UNCHANGED vars
    BY <2>4 DEF vars
  <2>5. QED
    BY <2>1, <2>2, <2>3, <2>4 DEF Next
<1>3. QED
  BY <1>1, <1>2, PTL DEF Spec

\* A capture keeps the number and the key of every earlier frame.
LEMMA CapturedGrows ==
    ASSUME TypeOK, NEW f \in Frames, Callback(f)
    PROVE  /\ Len(captured') = Len(captured) + 1
           /\ DOMAIN captured' = DOMAIN captured \cup {Len(captured) + 1}
           /\ captured'[Len(captured) + 1].frame = f
           /\ \A n \in DOMAIN captured : captured'[n] = captured[n]
BY DEF TypeOK, Callback

\* The flow of the captured frame, before the callback decides what to do
\* with it: the stored bytes of its key and the new frame at the end.
LEMMA GrownFlow ==
    ASSUME TypeOK, BuffersBelowReady, FramesOfTheirKey, NEW f \in Frames, Callback(f)
    PROVE  LET old == Lookup(active_flows, FlowKey(f))
               pkt == Len(captured) + 1
               state == Appended(old, pkt, f.len, now)
           IN  /\ state \in FlowState
               /\ old \in FlowState /\ old.size < READY
               /\ state.buffer = Append(old.buffer, pkt)
               /\ state.size = old.size + f.len
               /\ MIN_FRAME * Len(state.buffer) <= state.size
               /\ \A i \in DOMAIN state.buffer :
                     /\ state.buffer[i] \in DOMAIN captured'
                     /\ FlowKey(captured'[state.buffer[i]].frame) = FlowKey(f)
<1> DEFINE key == FlowKey(f)
           old == Lookup(active_flows, key)
           pkt == Len(captured) + 1
           state == Appended(old, pkt, f.len, now)
<1>1. /\ old \in FlowState
      /\ old.size < READY
      /\ MIN_FRAME * Len(old.buffer) <= old.size
      /\ \A i \in DOMAIN old.buffer :
            old.buffer[i] \in DOMAIN captured /\ FlowKey(captured[old.buffer[i]].frame) = key
  <2>1. CASE key \in DOMAIN active_flows
    BY <2>1 DEF Lookup, TypeOK, BuffersBelowReady, FramesOfTheirKey, OneKey, Key
  <2>2. CASE key \notin DOMAIN active_flows
    <3>1. old = [buffer |-> <<>>, size |-> 0, last_seen |-> 0]
      BY <2>2 DEF Lookup
    <3>2. old.buffer = <<>> /\ old.size = 0 /\ old \in FlowState
      BY <3>1 DEF FlowState
    <3>3. QED
      BY <3>2, FlowTrackerAssumption, DataPlaneAssumption
  <2>3. QED
    BY <2>1, <2>2
<1>2. f.len \in MIN_FRAME..SNAPLEN /\ pkt \in Nat \ {0} /\ now \in Nat
  BY DataPlaneAssumption DEF TypeOK
<1>3. state \in FlowState
  BY <1>1, <1>2, AppendedType, DataPlaneAssumption
<1>4. /\ state.buffer = Append(old.buffer, pkt)
      /\ state.size = old.size + f.len
  BY <1>1, FlowTrackerAssumption DEF Appended, FlowState
<1>5. MIN_FRAME * Len(state.buffer) <= state.size
  <2>1. Len(old.buffer) \in Nat /\ Len(state.buffer) = Len(old.buffer) + 1
    BY <1>1, <1>4 DEF FlowState
  <2>2. MIN_FRAME * (Len(old.buffer) + 1) = MIN_FRAME * Len(old.buffer) + MIN_FRAME
    BY <2>1, DataPlaneAssumption
  <2>3. MIN_FRAME * Len(old.buffer) \in Nat /\ old.size \in Nat
    BY <1>1, <2>1, DataPlaneAssumption DEF FlowState
  <2>4. MIN_FRAME <= f.len /\ f.len \in Nat /\ MIN_FRAME \in Nat
    BY <1>2, DataPlaneAssumption
  <2> HIDE DEF state, old
  <2>5. MIN_FRAME * Len(state.buffer) = MIN_FRAME * Len(old.buffer) + MIN_FRAME
    BY <2>1, <2>2
  <2>6. MIN_FRAME * Len(old.buffer) + MIN_FRAME <= old.size + f.len
    BY <1>1, <2>3, <2>4
  <2>7. QED
    BY <1>4, <2>5, <2>6
<1>6. ASSUME NEW i \in DOMAIN state.buffer
      PROVE  /\ state.buffer[i] \in DOMAIN captured'
             /\ FlowKey(captured'[state.buffer[i]].frame) = key
  <2>1. CASE i \in DOMAIN old.buffer
    <3>1. state.buffer[i] = old.buffer[i]
      BY <1>1, <1>4, <2>1 DEF FlowState
    <3>2. QED
      BY <1>1, <2>1, <3>1, CapturedGrows
  <2>2. CASE i \notin DOMAIN old.buffer
    <3>1. state.buffer[i] = pkt
      BY <1>1, <1>4, <2>2 DEF FlowState
    <3>2. QED
      BY <3>1, CapturedGrows
  <2>3. QED
    BY <2>1, <2>2
<1>7. QED
  BY <1>1, <1>3, <1>4, <1>5, <1>6

\* A frame that completes no payload leaves payloads and alerts as they are.
LEMMA BufferKeepsHistory ==
    ASSUME NEW f, NEW state, Buffer(f, state)
    PROVE  UNCHANGED <<payloads, notifications>>
BY DEF Buffer

\* The payload that a completed flow becomes, and the alert it may raise.
LEMMA DeliveredPayload ==
    ASSUME TypeOK, NEW f \in Frames, NEW state \in FlowState, Deliver(f, state),
           captured' = Append(captured, [frame |-> f, at |-> now])
    PROVE  \E score \in Score :
              /\ payloads' = Append(payloads, [pkts  |-> state.buffer,
                                               size  |-> state.size,
                                               score |-> score])
              /\ notifications' = notifications \o Notified(f, score)
<1>1. PICK result \in ModelResults(model_loaded) :
         LET payload == Payload(state, result, captured') IN
         /\ payloads' = Append(payloads, payload)
         /\ notifications' = notifications \o Notified(f, payload.score)
  BY DEF Deliver
<1>2. Payload(state, result, captured').score \in Score
  BY InferType DEF Payload, ModelResults
<1>3. QED
  BY <1>1, <1>2 DEF Payload

\* The inductive invariant: what each conjunct needs of the others.
IInv == TypeOK /\ BuffersBelowReady /\ FramesOfTheirKey /\ PayloadJustComplete
            /\ AlertNamesItsFrames

\* The callback preserves the bound on the buffers and the keys of their frames.
LEMMA CallbackKeepsBuffers ==
    ASSUME IInv, NEW f \in Frames, Callback(f)
    PROVE  BuffersBelowReady' /\ FramesOfTheirKey'
<1> USE DEF IInv
<1> DEFINE key == FlowKey(f)
           old == Lookup(active_flows, key)
           pkt == Len(captured) + 1
           state == Appended(old, pkt, f.len, now)
<1>1. /\ state \in FlowState /\ old \in FlowState
      /\ state.buffer = Append(old.buffer, pkt)
      /\ MIN_FRAME * Len(state.buffer) <= state.size
      /\ \A i \in DOMAIN state.buffer :
            /\ state.buffer[i] \in DOMAIN captured'
            /\ FlowKey(captured'[state.buffer[i]].frame) = key
  BY GrownFlow
<1>2. \A k \in DOMAIN active_flows' :
         \/ k \in DOMAIN active_flows /\ active_flows'[k] = active_flows[k]
         \/ k = key /\ ~ Ready(state) /\ active_flows'[k] = state
  BY CallbackEntries
<1>3. state.buffer # <<>>
  BY <1>1 DEF FlowState
<1>4. BuffersBelowReady'
  <2> SUFFICES ASSUME NEW k \in DOMAIN active_flows'
               PROVE  /\ active_flows'[k].size < READY
                      /\ active_flows'[k].buffer # <<>>
                      /\ MIN_FRAME * Len(active_flows'[k].buffer) <= active_flows'[k].size
    BY DEF BuffersBelowReady
  <2>1. CASE k \in DOMAIN active_flows /\ active_flows'[k] = active_flows[k]
    BY <2>1 DEF BuffersBelowReady
  <2>2. CASE k = key /\ ~ Ready(state) /\ active_flows'[k] = state
    <3> HIDE DEF state
    <3>1. state.size < READY
      BY <1>1, <2>2, FlowTrackerAssumption DEF Ready, FlowState
    <3>2. QED
      BY <1>1, <1>3, <2>2, <3>1
  <2>3. QED
    BY <1>2, <2>1, <2>2
<1>5. \A k \in DOMAIN active_flows' : OneKey(active_flows[k].buffer, k)'
  <2> SUFFICES ASSUME NEW k \in DOMAIN active_flows', NEW i \in DOMAIN active_flows'[k].buffer
               PROVE  /\ active_flows'[k].buffer[i] \in DOMAIN captured'
                      /\ FlowKey(captured'[active_flows'[k].buffer[i]].frame) = k
    BY DEF OneKey, Key
  <2>1. CASE k \in DOMAIN active_flows /\ active_flows'[k] = active_flows[k]
    BY <2>1, CapturedGrows DEF FramesOfTheirKey, OneKey, Key
  <2>2. CASE k = key /\ active_flows'[k] = state
    BY <1>1, <2>2
  <2>3. QED
    BY <1>2, <2>1, <2>2
<1>6. ASSUME NEW i \in DOMAIN payloads', NEW j \in DOMAIN payloads'[i].pkts
      PROVE  payloads'[i].pkts[j] \in DOMAIN captured'
  <2>1. CASE Buffer(f, state)
    <3>1. payloads' = payloads
      BY <2>1, BufferKeepsHistory
    <3>2. QED
      BY <3>1, <1>6, CapturedGrows DEF FramesOfTheirKey
  <2>2. CASE Deliver(f, state)
    <3>1. captured' = Append(captured, [frame |-> f, at |-> now])
      BY DEF Callback
    <3>2. PICK score \in Score :
             payloads' = Append(payloads, [pkts |-> state.buffer, size |-> state.size,
                                           score |-> score])
      BY <1>1, <2>2, <3>1, DeliveredPayload
    <3>3. CASE i \in DOMAIN payloads
      <4>1. payloads'[i] = payloads[i]
        BY <3>2, <3>3 DEF TypeOK
      <4>2. QED
        BY <3>3, <4>1, <1>6, CapturedGrows DEF FramesOfTheirKey
    <3>4. CASE i \notin DOMAIN payloads
      <4>1. payloads'[i].pkts = state.buffer
        BY <3>2, <3>4, <1>6 DEF TypeOK
      <4>2. QED
        BY <4>1, <1>1, <1>6
    <3>5. QED
      BY <3>3, <3>4
  <2>3. QED
    BY <2>1, <2>2 DEF Callback
<1>7. QED
  BY <1>4, <1>5, <1>6 DEF FramesOfTheirKey

\* The callback keeps every payload just complete and every alert backed by
\* frames of the host it names.
LEMMA CallbackKeepsAlerts ==
    ASSUME IInv, NEW f \in Frames, Callback(f)
    PROVE  PayloadJustComplete' /\ AlertNamesItsFrames'
<1> USE DEF IInv
<1> DEFINE key == FlowKey(f)
           old == Lookup(active_flows, key)
           pkt == Len(captured) + 1
           state == Appended(old, pkt, f.len, now)
<1>1. /\ state \in FlowState /\ old \in FlowState /\ old.size < READY
      /\ state.buffer = Append(old.buffer, pkt)
      /\ state.size = old.size + f.len
      /\ \A i \in DOMAIN state.buffer :
            /\ state.buffer[i] \in DOMAIN captured'
            /\ FlowKey(captured'[state.buffer[i]].frame) = key
  BY GrownFlow
<1>2. \A i \in DOMAIN payloads : \A j \in DOMAIN payloads[i].pkts :
         captured'[payloads[i].pkts[j]] = captured[payloads[i].pkts[j]]
  BY CapturedGrows DEF FramesOfTheirKey
<1>3. \A i \in DOMAIN payloads : payloads[i].pkts # <<>> =>
         Len(payloads[i].pkts) \in DOMAIN payloads[i].pkts
  BY DEF TypeOK
<1>4. CASE Buffer(f, state)
  <2>1. payloads' = payloads /\ notifications' = notifications
    BY <1>4, BufferKeepsHistory
  <2>2. PayloadJustComplete'
    BY <2>1, <1>2, <1>3 DEF PayloadJustComplete
  <2>3. AlertNamesItsFrames'
    BY <2>1, <1>2 DEF AlertNamesItsFrames, Range
  <2>4. QED
    BY <2>2, <2>3
<1>5. CASE Deliver(f, state)
  <2>1. captured' = Append(captured, [frame |-> f, at |-> now])
    BY DEF Callback
  <2>2. PICK score \in Score :
           /\ payloads' = Append(payloads, [pkts |-> state.buffer, size |-> state.size,
                                            score |-> score])
           /\ notifications' = notifications \o Notified(f, score)
    BY <1>1, <1>5, <2>1, DeliveredPayload
  <2> DEFINE new == Len(payloads) + 1
  <2>3. /\ DOMAIN payloads' = DOMAIN payloads \cup {new}
        /\ \A i \in DOMAIN payloads : payloads'[i] = payloads[i]
        /\ payloads'[new] = [pkts |-> state.buffer, size |-> state.size, score |-> score]
    <3>1. payloads \in Seq([pkts : Seq(Nat \ {0}), size : Nat, score : Score])
      BY DEF TypeOK
    <3> HIDE DEF state, IInv
    <3>2. QED
      BY <2>2, <3>1
  <2>4. Ready(state)
    BY <1>5 DEF Deliver
  <2>5. PayloadJustComplete'
    <3> SUFFICES ASSUME NEW i \in DOMAIN payloads'
                 PROVE  LET p == payloads'[i] IN
                        /\ p.pkts # <<>>
                        /\ p.size >= READY
                        /\ p.size - captured'[p.pkts[Len(p.pkts)]].frame.len < READY
      BY DEF PayloadJustComplete
    <3>1. CASE i \in DOMAIN payloads
      BY <3>1, <2>3, <1>2, <1>3 DEF PayloadJustComplete
    <3>2. CASE i = new
      <4>1. /\ state.buffer # <<>>
            /\ state.buffer[Len(state.buffer)] = pkt
        <5>1. old.buffer \in Seq(Nat \ {0}) /\ state.buffer = Append(old.buffer, pkt)
          BY <1>1 DEF FlowState
        <5> HIDE DEF state, old, pkt
        <5>2. QED
          BY <5>1
      <4>2. captured'[pkt].frame = f
        BY CapturedGrows
      <4>4. state.size >= READY
        BY <2>4 DEF Ready
      <4> HIDE DEF state, old, pkt, IInv
      <4>3. /\ old.size \in Nat /\ state.size \in Nat /\ f.len \in Nat /\ READY \in Nat
        <5>1. f.len \in Nat /\ READY \in Nat
          BY DataPlaneAssumption, FlowTrackerAssumption
        <5>2. old.size \in Nat /\ state.size \in Nat
          BY <1>1 DEF FlowState
        <5>3. QED
          BY <5>1, <5>2
      <4>5. state.size - f.len < READY
        BY <1>1, <4>3
      <4>6. QED
        BY <2>3, <3>2, <4>1, <4>2, <4>4, <4>5
    <3>3. QED
      BY <2>3, <3>1, <3>2
  <2>6. AlertNamesItsFrames'
    <3>1. ASSUME NEW a \in Range(notifications)
          PROVE  /\ a.payload \in DOMAIN payloads'
                 /\ payloads'[a.payload].score = a.confidence
                 /\ a.confidence > Threshold
                 /\ \A n \in Range(payloads'[a.payload].pkts) :
                       /\ captured'[n].frame.src_ip = a.src_ip
                       /\ captured'[n].frame.dst_port = a.dst_port
      BY <2>3, <1>2 DEF AlertNamesItsFrames, Range
    <3>2. ASSUME NEW a \in Range(Notified(f, score))
          PROVE  /\ a.payload \in DOMAIN payloads'
                 /\ payloads'[a.payload].score = a.confidence
                 /\ a.confidence > Threshold
                 /\ \A n \in Range(payloads'[a.payload].pkts) :
                       /\ captured'[n].frame.src_ip = a.src_ip
                       /\ captured'[n].frame.dst_port = a.dst_port
      <4>1. /\ a = [src_ip |-> f.src_ip, dst_port |-> f.dst_port, confidence |-> score,
                    payload |-> new]
            /\ score > Threshold
        BY <3>2 DEF Notified, Range
      <4>2. payloads'[a.payload].pkts = state.buffer
        BY <2>3, <4>1
      <4>3. \A i \in DOMAIN state.buffer :
               /\ captured'[state.buffer[i]].frame.src_ip = f.src_ip
               /\ captured'[state.buffer[i]].frame.dst_port = f.dst_port
        BY <1>1 DEF FlowKey
      <4> HIDE DEF state
      <4>4. QED
        BY <2>3, <4>1, <4>2, <4>3 DEF Range
    <3>3. Range(notifications') = Range(notifications) \cup Range(Notified(f, score))
      <4>1. notifications \in Seq(Notification) /\ Notified(f, score) \in Seq(Notification)
        BY NotifiedType DEF TypeOK
      <4>2. QED
        BY <2>2, <4>1, RangeConcat
    <3>4. QED
      BY <3>1, <3>2, <3>3 DEF AlertNamesItsFrames
  <2>7. QED
    BY <2>5, <2>6
<1>6. QED
  BY <1>4, <1>5 DEF Callback

\* The inductive invariant holds in every execution.
LEMMA DataPlaneInvariant == Spec => []IInv
<1>1. Init => BuffersBelowReady /\ FramesOfTheirKey /\ PayloadJustComplete /\ AlertNamesItsFrames
  <2> SUFFICES ASSUME Init
               PROVE  BuffersBelowReady /\ FramesOfTheirKey /\ PayloadJustComplete
                         /\ AlertNamesItsFrames
    OBVIOUS
  <2>1. DOMAIN active_flows = {} /\ DOMAIN payloads = {} /\ Range(notifications) = {}
    BY DEF Init, EmptyTable, Range
  <2>2. QED
    BY <2>1 DEF BuffersBelowReady, FramesOfTheirKey, PayloadJustComplete, AlertNamesItsFrames
<1>2. TypeOK /\ TypeOK' /\ BuffersBelowReady /\ FramesOfTheirKey /\ PayloadJustComplete
         /\ AlertNamesItsFrames /\ [Next]_vars
      => BuffersBelowReady' /\ FramesOfTheirKey' /\ PayloadJustComplete' /\ AlertNamesItsFrames'
  <2> SUFFICES ASSUME IInv, [Next]_vars
               PROVE  BuffersBelowReady' /\ FramesOfTheirKey' /\ PayloadJustComplete'
                         /\ AlertNamesItsFrames'
    BY DEF IInv
  <2>1. ASSUME NEW f \in Frames, Callback(f)
        PROVE  BuffersBelowReady' /\ FramesOfTheirKey' /\ PayloadJustComplete'
                  /\ AlertNamesItsFrames'
    BY <2>1, CallbackKeepsBuffers, CallbackKeepsAlerts
  <2>2. CASE UNCHANGED <<active_flows, captured, payloads, notifications>>
    BY <2>2 DEF IInv, BuffersBelowReady, FramesOfTheirKey, PayloadJustComplete,
                AlertNamesItsFrames, OneKey, Key
  <2>3. QED
    BY <2>1, <2>2 DEF Next, Start, Tick, vars, history
<1>3. QED
  BY <1>1, <1>2, TypeCorrect, PTL DEF Spec, IInv

\* For all frames and parameters a stored flow stays below the window and
\* bounded in frames.
THEOREM TableBounded == Spec => []BuffersBelowReady
BY DataPlaneInvariant, PTL DEF IInv

\* For all frames and parameters a payload is handed over the moment it is
\* complete.
THEOREM PayloadsJustComplete == Spec => []PayloadJustComplete
BY DataPlaneInvariant, PTL DEF IInv

\* For all frames and parameters an alert names the host and the port of all
\* the frames it was raised on.
THEOREM DataPlaneSafety == Spec => []AlertNamesItsFrames
BY DataPlaneInvariant, PTL DEF IInv

\* The windows of the tracker fill the input of the network, for all frames, if
\* the two constants of the code, in two files, are the same.
THEOREM WindowsFillTheInput ==
    ASSUME READY = MAX_LEN
    PROVE  Spec => []WindowFillsInput
<1>1. IInv => WindowFillsInput
  <2> SUFFICES ASSUME IInv, NEW i \in DOMAIN payloads
               PROVE  LET p == payloads[i]
                          input == Tokenize(p.size)
                      IN  /\ input.ids[MAX_LEN - 1] = SEP /\ input.mask[MAX_LEN - 1] = 1
                          /\ input.ids[MAX_LEN - 2] = ByteToken(MAX_LEN - 3)
                          /\ p.size - (MAX_LEN - 2) <= captured[p.pkts[Len(p.pkts)]].frame.len + 1
    BY DEF WindowFillsInput
  <2> DEFINE size == payloads[i].size
             pkts == payloads[i].pkts
             len == captured[pkts[Len(pkts)]].frame.len
  <2>1. size \in Nat /\ len \in Nat /\ size >= READY /\ size - len < READY
    <3>1. payloads[i] \in [pkts : Seq(Nat \ {0}), size : Nat, score : Score]
      <4> DEFINE Payloads == [pkts : Seq(Nat \ {0}), size : Nat, score : Score]
      <4>1. payloads \in Seq(Payloads)
        BY DEF IInv, TypeOK
      <4> HIDE DEF Payloads
      <4>2. payloads[i] \in Payloads
        BY <4>1
      <4>3. QED
        BY <4>2 DEF Payloads
    <3>2. pkts # <<>> /\ size >= READY /\ size - len < READY
      BY DEF IInv, PayloadJustComplete
    <3>3. Len(pkts) \in DOMAIN pkts
      BY <3>1, <3>2
    <3>4. pkts[Len(pkts)] \in DOMAIN captured
      BY <3>3 DEF IInv, FramesOfTheirKey
    <3>5. captured[pkts[Len(pkts)]].frame \in Frames
      <4> DEFINE Captures == [frame : Frames, at : Nat]
                 n == pkts[Len(pkts)]
      <4>1. captured \in Seq(Captures) /\ n \in DOMAIN captured
        BY <3>4 DEF IInv, TypeOK
      <4> HIDE DEF Captures, n
      <4>2. captured[n] \in Captures
        BY <4>1
      <4>3. captured[n].frame \in Frames
        BY <4>2 DEF Captures
      <4>4. QED
        BY <4>3 DEF n
    <3>6. len \in Nat
      BY <3>5, DataPlaneAssumption
    <3>7. QED
      BY <3>1, <3>2, <3>6
  <2>2. MAX_LEN \in Nat /\ MAX_LEN > 2
    BY MaxLenAssumption
  <2>3. Fill(size) = MAX_LEN - 2
    BY <2>1, <2>2 DEF Fill
  <2>4. /\ Tokenize(size).ids[MAX_LEN - 1] = SEP /\ Tokenize(size).mask[MAX_LEN - 1] = 1
        /\ Tokenize(size).ids[MAX_LEN - 2] = ByteToken(MAX_LEN - 3)
    BY <2>2, <2>3 DEF Tokenize
  <2>5. size - (MAX_LEN - 2) <= len + 1
    BY <2>1, <2>2
  <2>6. QED
    BY <2>4, <2>5
<1>2. QED
  BY <1>1, DataPlaneInvariant, PTL
-----------------------------------------------------------------------------
(* The cleanup and the clock.                                              *)

\* A stored flow carries the time of its newest frame, which is its last one,
\* and no frame of its key is younger.
StampInv ==
    /\ \A n \in DOMAIN captured : captured[n].at <= now
    /\ \A k \in DOMAIN active_flows :
          /\ \A n \in DOMAIN captured : Key(n) = k => captured[n].at <= active_flows[k].last_seen
          /\ \E m \in Range(active_flows[k].buffer) :
                /\ captured[m].at = active_flows[k].last_seen
                /\ \A n \in Range(active_flows[k].buffer) : n <= m

\* What is known of the times of the captured frames and of the table.
LEMMA TimesAreNumbers ==
    ASSUME TypeOK
    PROVE  /\ now \in Nat /\ \A n \in DOMAIN captured : n \in Nat /\ captured[n].at \in Nat
           /\ \A k \in DOMAIN active_flows : active_flows[k].last_seen \in Nat
<1> DEFINE Captures == [frame : Frames, at : Nat]
<1>1. captured \in Seq(Captures)
  BY DEF TypeOK
<1> HIDE DEF Captures
<1>2. \A n \in DOMAIN captured : n \in Nat /\ captured[n] \in Captures
  BY <1>1
<1>3. \A n \in DOMAIN captured : n \in Nat /\ captured[n].at \in Nat
  BY <1>2 DEF Captures
<1>4. QED
  BY <1>3 DEF TypeOK, FlowState

\* A frame becomes the newest of all, and gives its flow its time.
LEMMA CallbackKeepsStamps ==
    ASSUME IInv, StampInv, NEW f \in Frames, Callback(f)
    PROVE  StampInv'
<1> DEFINE key == FlowKey(f)
           old == Lookup(active_flows, key)
           pkt == Len(captured) + 1
           state == Appended(old, pkt, f.len, now)
<1>1. /\ state \in FlowState /\ old \in FlowState
      /\ state.buffer = Append(old.buffer, pkt)
      /\ \A i \in DOMAIN state.buffer : state.buffer[i] \in DOMAIN captured'
  BY GrownFlow DEF IInv
<1>2. state.last_seen = now
  BY <1>1 DEF Appended, FlowState
<1>3. \A k \in DOMAIN active_flows' :
         \/ k \in DOMAIN active_flows /\ active_flows'[k] = active_flows[k]
         \/ k = key /\ ~ Ready(state) /\ active_flows'[k] = state
  BY CallbackEntries
<1>4. /\ DOMAIN captured' = DOMAIN captured \cup {pkt} /\ pkt \notin DOMAIN captured
      /\ captured'[pkt].frame = f /\ captured'[pkt].at = now /\ now' = now
      /\ \A n \in DOMAIN captured : captured'[n] = captured[n] /\ n <= pkt
  BY DEF IInv, TypeOK, Callback
<1>5. /\ now \in Nat /\ pkt \in Nat
      /\ \A n \in DOMAIN captured : n \in Nat /\ captured[n].at \in Nat
      /\ \A k \in DOMAIN active_flows : active_flows[k].last_seen \in Nat
  BY TimesAreNumbers DEF IInv, TypeOK
<1>6. pkt \in Range(state.buffer)
  BY <1>1 DEF Range, FlowState
<1> DEFINE stamp == state.last_seen
<1>7. \A n \in Range(state.buffer) : n <= pkt
  BY <1>1, <1>4, <1>5 DEF Range
<1>8. key \in DOMAIN active_flows' => active_flows'[key] = state
  <2> SUFFICES ASSUME key \in DOMAIN active_flows' PROVE active_flows'[key] = state
    OBVIOUS
  <2> DEFINE table == TableAfter(active_flows, key, state)
  <2>1. active_flows' = table \/ active_flows' = CleanupStale(table, TIMEOUT, now)
    BY DEF Callback, Buffer, Deliver, CountAndCleanup
  <2>2. key \in DOMAIN table /\ active_flows'[key] = table[key]
    BY <2>1, CleanupEntries
  <2> HIDE DEF state, key
  <2>3. QED
    BY <2>2 DEF TableAfter, Restrict
<1> HIDE DEF state, pkt, key, old
<1>9. ASSUME NEW n \in DOMAIN captured' PROVE captured'[n].at <= now
  BY <1>4, <1>5 DEF StampInv
<1>10. ASSUME NEW k \in DOMAIN active_flows'
       PROVE  /\ \A n \in DOMAIN captured' :
                    FlowKey(captured'[n].frame) = k => captured'[n].at <= active_flows'[k].last_seen
              /\ \E m \in Range(active_flows'[k].buffer) :
                    /\ captured'[m].at = active_flows'[k].last_seen
                    /\ \A n \in Range(active_flows'[k].buffer) : n <= m
  <2>1. CASE k = key
    <3>1. active_flows'[k] = state
      BY <1>8, <2>1
    <3>2. \A n \in DOMAIN captured' : captured'[n].at <= active_flows'[k].last_seen
      BY <1>2, <1>9, <3>1
    <3>3. QED
      BY <1>2, <1>4, <1>6, <1>7, <3>1, <3>2
  <2>2. CASE k # key
    <3>1. k \in DOMAIN active_flows /\ active_flows'[k] = active_flows[k]
      BY <1>3, <2>2
    <3>2. FlowKey(captured'[pkt].frame) # k
      BY <1>4, <2>2 DEF key
    <3>3. \A n \in DOMAIN captured' :
             FlowKey(captured'[n].frame) = k => captured'[n].at <= active_flows'[k].last_seen
      BY <1>4, <3>1, <3>2 DEF StampInv, Key
    <3>4. PICK m \in Range(active_flows[k].buffer) :
             /\ captured[m].at = active_flows[k].last_seen
             /\ \A n \in Range(active_flows[k].buffer) : n <= m
      BY <3>1 DEF StampInv
    <3>5. m \in DOMAIN captured
      BY <3>1, <3>4 DEF IInv, FramesOfTheirKey, OneKey, Range
    <3>6. QED
      BY <1>4, <3>1, <3>3, <3>4, <3>5
  <2>3. QED
    BY <2>1, <2>2
<1>11. QED
  BY <1>4, <1>9, <1>10 DEF StampInv, Key

LEMMA StampInvariant == Spec => []StampInv
<1>1. Init => StampInv
  BY DEF Init, StampInv, EmptyTable
<1>2. IInv /\ StampInv /\ [Next]_vars => StampInv'
  <2> SUFFICES ASSUME IInv, StampInv, [Next]_vars PROVE StampInv'
    OBVIOUS
  <2>1. ASSUME NEW f \in Frames, Callback(f) PROVE StampInv'
    BY <2>1, CallbackKeepsStamps
  <2>2. CASE UNCHANGED <<active_flows, captured>> /\ now' \in {now, now + 1}
    <3>1. \A n \in DOMAIN captured : captured[n].at <= now'
      BY <2>2, TimesAreNumbers DEF IInv, StampInv
    <3>2. QED
      BY <2>2, <3>1 DEF StampInv, Key
  <2>3. QED
    BY <2>1, <2>2 DEF Next, Start, Tick, vars, history
<1>3. QED
  BY <1>1, <1>2, DataPlaneInvariant, PTL DEF Spec

\* A step that runs the cleanup leaves only flows with a young frame, and what
\* it discards is of flows without one.
LEMMA CleanupStep ==
    ASSUME IInv, StampInv, NEW f \in Frames, Callback(f)
    PROVE  /\ \A n \in evicted' \ evicted : ~ YoungerFrame(n)
           /\ (cleaned_at' # cleaned_at) =>
                 \A k \in DOMAIN active_flows' :
                     \A n \in Range(active_flows'[k].buffer) : YoungerFrame(n)'
<1> DEFINE key == FlowKey(f)
           state == Appended(Lookup(active_flows, key), Len(captured) + 1, f.len, now)
           table == TableAfter(active_flows, key, state)
<1>1. CASE UNCHANGED <<evicted, cleaned_at>>
  BY <1>1
<1>2. CASE ~ UNCHANGED <<evicted, cleaned_at>>
  <2>1. /\ Ready(state)
        /\ active_flows' = CleanupStale(table, TIMEOUT, now)
        /\ evicted' = evicted \cup UNION {Range(table[k].buffer) : k \in StaleKeys(table, TIMEOUT, now)}
    BY <1>2 DEF Callback, Buffer, Deliver, CountAndCleanup
  <2>2. \A k \in DOMAIN table : k \in DOMAIN active_flows /\ table[k] = active_flows[k]
    BY <2>1, TableAfterEntries
  <2> HIDE DEF state, table, key
  <2>3. ASSUME NEW n \in evicted' \ evicted PROVE ~ YoungerFrame(n)
    <3>1. PICK k \in StaleKeys(table, TIMEOUT, now) : n \in Range(table[k].buffer)
      BY <2>1
    <3>2. /\ k \in DOMAIN active_flows /\ n \in Range(active_flows[k].buffer)
          /\ now - active_flows[k].last_seen > TIMEOUT
      BY <2>2, <3>1 DEF StaleKeys, Stale
    <3>3. Key(n) = k
      BY <3>2 DEF IInv, FramesOfTheirKey, OneKey, Range
    <3>4. ASSUME NEW m \in DOMAIN captured, Key(m) = k PROVE now - captured[m].at > TIMEOUT
      <4>1. captured[m].at <= active_flows[k].last_seen
        BY <3>2, <3>4 DEF StampInv
      <4>2. now \in Nat /\ captured[m].at \in Nat /\ active_flows[k].last_seen \in Nat
        BY <3>2, TimesAreNumbers DEF IInv
      <4>3. QED
        BY <3>2, <4>1, <4>2, DataPlaneAssumption
    <3>5. QED
      BY <3>3, <3>4 DEF YoungerFrame, Newest
  <2>4. ASSUME NEW k \in DOMAIN active_flows', NEW n \in Range(active_flows'[k].buffer)
        PROVE  YoungerFrame(n)'
    <3>1. /\ k \in DOMAIN active_flows /\ active_flows'[k] = active_flows[k]
          /\ ~ (now - active_flows[k].last_seen > TIMEOUT)
      BY <2>1, <2>2 DEF CleanupStale, StaleKeys, Stale, Restrict
    <3>2. PICK m \in Range(active_flows[k].buffer) :
             /\ captured[m].at = active_flows[k].last_seen
             /\ \A i \in Range(active_flows[k].buffer) : i <= m
      BY <3>1 DEF StampInv
    <3>3. /\ m \in DOMAIN captured /\ Key(m) = k
          /\ n \in DOMAIN captured /\ Key(n) = k /\ n <= m
      BY <3>1, <3>2 DEF IInv, FramesOfTheirKey, OneKey, Range
    <3>4. /\ m \in DOMAIN captured' /\ captured'[m] = captured[m] /\ captured'[n] = captured[n]
          /\ now' = now
      BY <3>3, CapturedGrows DEF IInv, Callback
    <3>5. m >= n
      BY <3>3, TimesAreNumbers DEF IInv
    <3>6. FlowKey(captured'[m].frame) = FlowKey(captured'[n].frame) /\ ~ (now' - captured'[m].at > TIMEOUT)
      BY <3>1, <3>2, <3>3, <3>4 DEF Key
    <3>7. QED
      BY <3>4, <3>5, <3>6 DEF YoungerFrame, Newest, Key
  <2>5. QED
    BY <2>3, <2>4
<1>3. QED
  BY <1>1, <1>2

\* For all frames and parameters the cleanup discards a frame only if its flow
\* has had none for more than TIMEOUT, and leaves no such flow behind.
THEOREM CleanupIsExact == Spec => EvictsExactlyStale
<1>1. ASSUME IInv, StampInv, [Next]_vars
      PROVE  [ /\ \A n \in evicted' \ evicted : ~ YoungerFrame(n)
               /\ (cleaned_at' # cleaned_at) =>
                     \A k \in DOMAIN active_flows' :
                         \A n \in Range(active_flows'[k].buffer) : YoungerFrame(n)' ]_vars
  <2>1. ASSUME NEW f \in Frames, Callback(f)
        PROVE  /\ \A n \in evicted' \ evicted : ~ YoungerFrame(n)
               /\ (cleaned_at' # cleaned_at) =>
                     \A k \in DOMAIN active_flows' :
                         \A n \in Range(active_flows'[k].buffer) : YoungerFrame(n)'
    BY <1>1, <2>1, CleanupStep
  <2>2. CASE UNCHANGED <<evicted, cleaned_at>>
    BY <2>2
  <2>3. QED
    BY <1>1, <2>1, <2>2 DEF Next, Start, Tick, vars, history
<1>2. QED
  BY <1>1, DataPlaneInvariant, StampInvariant, PTL DEF Spec, EvictsExactlyStale
=============================================================================
