------------------------------ MODULE DataPlane ------------------------------
(***************************************************************************)
(* The data plane thread of src/main.cpp: it loads the model, opens the    *)
(* capture, and runs the packet callback once per captured TCP frame:      *)
(* FlowTracker, then the engine, then the notification, then the periodic  *)
(* cleanup. The callback is one action: nothing else touches this state,   *)
(* and a second that passes during the call is a Tick before it.           *)
(***************************************************************************)
EXTENDS FlowTracker, OnnxEngine

CONSTANTS
    Frames,        \* the TCP frames that may be captured
    MIN_FRAME,     \* shortest frame the sniffer accepts: 54 bytes of headers
    SNAPLEN,       \* longest capture, 65535 in the code
    Threshold,     \* AEGIS_THRESHOLD as a percentage, 95 by default
    CLEANUP_EVERY, \* the 1000 of "++pkt_count % 1000"
    TIMEOUT,       \* the 60 of "cleanup_stale(60)"
    MaxFrames,     \* bound: frames captured
    MaxTime        \* bound: seconds that pass

ASSUME DataPlaneAssumption ==
    /\ MIN_FRAME \in Nat \ {0} /\ SNAPLEN \in Nat
    /\ \A f \in Frames : f.len \in MIN_FRAME..SNAPLEN /\ f.sig \in BOOLEAN
    /\ Threshold \in Nat
    /\ CLEANUP_EVERY \in Nat \ {0}
    /\ TIMEOUT \in Nat
    /\ MaxFrames \in Nat /\ MaxTime \in Nat

VARIABLES
    sniffer,        \* "starting", "capturing", or "sleeping" after a failed open
    model_loaded,   \* ONNXEngine::model_loaded_
    active_flows,   \* FlowTracker::active_flows_
    pkt_count,      \* the callback's counter
    notifications,  \* the threat notifications written, oldest first
    now,            \* steady_clock, in seconds
    captured,       \* history: the frames the callback was given
    payloads,       \* history: the payloads given to infer, with their scores
    evicted,        \* history: the frames that cleanup_stale discarded
    cleaned_at      \* history: frames captured when cleanup_stale last ran

vars == <<sniffer, model_loaded, active_flows, pkt_count, notifications, now,
          captured, payloads, evicted, cleaned_at>>
history == <<captured, payloads, evicted, cleaned_at>>

Init ==
    /\ sniffer = "starting"
    /\ model_loaded = FALSE
    /\ active_flows = EmptyTable
    /\ pkt_count = 0
    /\ notifications = <<>>
    /\ now = 0
    /\ captured = <<>> /\ payloads = <<>> /\ evicted = {} /\ cleaned_at = 0

\* The thread constructs the engine, whose model may fail to load, and opens
\* the device, which may fail; then the thread sleeps forever.
Start ==
    /\ sniffer = "starting"
    /\ model_loaded' \in BOOLEAN
    /\ sniffer' \in {"capturing", "sleeping"}
    /\ UNCHANGED <<active_flows, pkt_count, notifications, now, history>>

\* The payload a buffer becomes, with the outcome of its inference.
Payload(state, result, frames) ==
    [pkts  |-> state.buffer,
     size  |-> state.size,
     score |-> Infer(result, [i \in DOMAIN state.buffer |-> frames[state.buffer[i]].frame.sig])]

\* Seeded fault for Notified: the alert names the other end of the connection.
NotifiedSwapped(frame, score) ==
    IF score > Threshold
    THEN <<[src_ip |-> frame.dst_ip, dst_port |-> frame.src_port, confidence |-> score,
            payload |-> Len(payloads) + 1]>>
    ELSE <<>>

\* The notification, if any; "payload" is history: the payload it was raised on.
Notified(frame, score) ==
    IF score > Threshold
    THEN <<[src_ip |-> frame.src_ip, dst_port |-> frame.dst_port, confidence |-> score,
            payload |-> Len(payloads) + 1]>>
    ELSE <<>>

\* process_packet left the flow incomplete: the callback returns at once,
\* before it counts the packet.
Buffer(frame, state) ==
    /\ ~ Ready(state)
    /\ active_flows' = TableAfter(active_flows, FlowKey(frame), state)
    /\ UNCHANGED <<pkt_count, notifications, payloads, evicted, cleaned_at>>

\* The counter and the cleanup it triggers, on the table without the ready flow.
CountAndCleanup(flows) ==
    /\ pkt_count' = pkt_count + 1
    /\ IF pkt_count' % CLEANUP_EVERY = 0
       THEN /\ active_flows' = CleanupStale(flows, TIMEOUT, now)
            /\ evicted' = evicted \cup
                   UNION {Range(flows[k].buffer) : k \in StaleKeys(flows, TIMEOUT, now)}
            /\ cleaned_at' = Len(captured')
       ELSE /\ active_flows' = flows
            /\ UNCHANGED <<evicted, cleaned_at>>

\* process_packet completed the flow: infer, notify, count, clean up.
Deliver(frame, state) ==
    /\ Ready(state)
    /\ \E result \in ModelResults(model_loaded) :
          LET payload == Payload(state, result, captured') IN
          /\ payloads' = Append(payloads, payload)
          /\ notifications' = notifications \o Notified(frame, payload.score)
    /\ CountAndCleanup(TableAfter(active_flows, FlowKey(frame), state))

\* pcap_loop hands one frame to the callback.
Callback(frame) ==
    LET pkt   == Len(captured) + 1
        state == Appended(Lookup(active_flows, FlowKey(frame)), pkt, frame.len, now)
    IN  /\ sniffer = "capturing"
        /\ Len(captured) < MaxFrames
        /\ captured' = Append(captured, [frame |-> frame, at |-> now])
        /\ Buffer(frame, state) \/ Deliver(frame, state)
        /\ UNCHANGED <<sniffer, model_loaded, now>>

Tick ==
    /\ now < MaxTime
    /\ now' = now + 1
    /\ UNCHANGED <<sniffer, model_loaded, active_flows, pkt_count, notifications, history>>

Next == Start \/ (\E f \in Frames : Callback(f)) \/ Tick

Spec == Init /\ [][Next]_vars
-----------------------------------------------------------------------------
Key(n) == FlowKey(captured[n].frame)
OneKey(s, k) == \A i \in DOMAIN s : s[i] \in DOMAIN captured /\ Key(s[i]) = k
Keys == {FlowKey(f) : f \in Frames}

Notification == [src_ip : {f.src_ip : f \in Frames}, dst_port : {f.dst_port : f \in Frames},
                 confidence : Score, payload : Nat \ {0}]

\* The type invariant of the data plane thread's state and its history.
TypeOK ==
    /\ sniffer \in {"starting", "capturing", "sleeping"}
    /\ model_loaded \in BOOLEAN
    /\ DOMAIN active_flows \subseteq Keys
    /\ \A k \in DOMAIN active_flows : active_flows[k] \in FlowState
    /\ pkt_count \in Nat
    /\ now \in Nat
    /\ captured \in Seq([frame : Frames, at : Nat])
    /\ payloads \in Seq([pkts : Seq(Nat \ {0}), size : Nat, score : Score])
    /\ notifications \in Seq(Notification)
    /\ evicted \subseteq Nat \ {0}
    /\ cleaned_at \in Nat

\* A stored flow is never complete and never empty, so the table holds fewer
\* than READY bytes and, as a frame has MIN_FRAME bytes, fewer than
\* READY / MIN_FRAME frames per key: what bounds its memory between cleanups.
BuffersBelowReady ==
    \A k \in DOMAIN active_flows :
        /\ active_flows[k].size < READY
        /\ active_flows[k].buffer # <<>>
        /\ MIN_FRAME * Len(active_flows[k].buffer) <= active_flows[k].size

\* The inductive core of the properties below: a buffer holds captured frames
\* of its own key, a payload captured frames.
FramesOfTheirKey ==
    /\ \A k \in DOMAIN active_flows : OneKey(active_flows[k].buffer, k)
    /\ \A i \in DOMAIN payloads :
          \A j \in DOMAIN payloads[i].pkts : payloads[i].pkts[j] \in DOMAIN captured

\* A payload leaves the tracker the moment it is complete: it has READY bytes
\* and would not have had them without its last frame.
PayloadJustComplete ==
    \A i \in DOMAIN payloads :
        LET p == payloads[i] IN
        /\ p.pkts # <<>>
        /\ p.size >= READY
        /\ p.size - captured[p.pkts[Len(p.pkts)]].frame.len < READY

\* process_packet and cleanup_stale neither lose nor duplicate a frame: each
\* captured frame is in the buffer of its own flow, in one payload, or it was
\* discarded as stale.
InBuffer(n) ==
    /\ Key(n) \in DOMAIN active_flows
    /\ n \in Range(active_flows[Key(n)].buffer)
InPayload(n) == \E i \in DOMAIN payloads : n \in Range(payloads[i].pkts)
Conservation ==
    \A n \in DOMAIN captured :
        /\ InBuffer(n) \/ InPayload(n) \/ n \in evicted
        /\ ~ (InBuffer(n) /\ (InPayload(n) \/ n \in evicted))
        /\ ~ (InPayload(n) /\ n \in evicted)

\* Reassembly keeps the order of capture: within a buffer or a payload frames
\* ascend, they belong to one key, and no later frame of that key was put into
\* an earlier payload.
Ascending(s) == \A i, j \in DOMAIN s : i < j => s[i] < s[j]
After(s, t) == \A i \in DOMAIN s, j \in DOMAIN t : t[j] < s[i]
ReassemblyInOrder ==
    /\ \A k \in DOMAIN active_flows :
          /\ Ascending(active_flows[k].buffer)
          /\ OneKey(active_flows[k].buffer, k)
          /\ \A i \in DOMAIN payloads :
                OneKey(payloads[i].pkts, k) => After(active_flows[k].buffer, payloads[i].pkts)
    /\ \A i \in DOMAIN payloads :
          /\ Ascending(payloads[i].pkts)
          /\ \E k \in Keys : OneKey(payloads[i].pkts, k)
          /\ \A j \in 1..(i-1) :
                Key(payloads[j].pkts[1]) = Key(payloads[i].pkts[1])
                    => After(payloads[i].pkts, payloads[j].pkts)

\* The tracker implements Segmenter: whatever the table, the size limit, the
\* clock and the cleanup do, each flow is cut in order of arrival into the
\* shortest complete windows, and only whole flows are ever given up.
Segments == INSTANCE Segmenter WITH
    Lengths   <- {f.len : f \in Frames},
    arrived   <- Len(captured),
    pending   <- [k \in Keys |-> [pkts |-> Lookup(active_flows, k).buffer,
                                  size |-> Lookup(active_flows, k).size]],
    windows   <- [i \in DOMAIN payloads |-> payloads[i].pkts],
    discarded <- evicted
CutsShortestWindows == Segments!Spec

\* Every alert is backed by a payload that scored above the threshold and all
\* of whose frames, not only the last, came from the named host for the named
\* port: the commander never blocks a host for another host's bytes.
AlertNamesItsFrames ==
    \A a \in Range(notifications) :
        /\ a.payload \in DOMAIN payloads
        /\ payloads[a.payload].score = a.confidence
        /\ a.confidence > Threshold
        /\ \A n \in Range(payloads[a.payload].pkts) :
              /\ captured[n].frame.src_ip = a.src_ip
              /\ captured[n].frame.dst_port = a.dst_port

\* Without a model the probe still detects: whenever a frame with a signature
\* went into a payload, an alert for its sender has been raised.
SignatureAlerted ==
    (~ model_loaded /\ Threshold < HeuristicHit) =>
        \A n \in DOMAIN captured :
            (captured[n].frame.sig /\ InPayload(n)) =>
                \E a \in Range(notifications) :
                    /\ a.src_ip = captured[n].frame.src_ip
                    /\ n \in Range(payloads[a.payload].pkts)

\* The tracker's window and the network's input, set in two files, fit: every
\* payload fills the input up to the separator, and what is cut off is of the
\* last frame, except for at most one byte.
WindowFillsInput ==
    \A i \in DOMAIN payloads :
        LET p     == payloads[i]
            input == Tokenize(p.size)
        IN  /\ input.ids[MAX_LEN - 1] = SEP /\ input.mask[MAX_LEN - 1] = 1
            /\ input.ids[MAX_LEN - 2] = ByteToken(MAX_LEN - 3)
            /\ p.size - (MAX_LEN - 2) <= captured[p.pkts[Len(p.pkts)]].frame.len + 1

\* The cleanup throws away exactly the flows whose newest frame is more than
\* TIMEOUT old: a frame is discarded only if no frame of its flow is younger,
\* and when a cleanup has run every flow left has a younger frame.
Newest(k) == {n \in DOMAIN captured : Key(n) = k}
YoungerFrame(n) ==
    \E m \in Newest(Key(n)) : m >= n /\ ~ (now - captured[m].at > TIMEOUT)
EvictsExactlyStale ==
    [][ /\ \A n \in evicted' \ evicted : ~ YoungerFrame(n)
        /\ (cleaned_at' # cleaned_at) =>
              \A k \in DOMAIN active_flows' :
                  \A n \in Range(active_flows'[k].buffer) : YoungerFrame(n)' ]_vars

\* What a comment (main.cpp:99) and the docs say of the cleanup: it runs every
\* CLEANUP_EVERY packets. The code counts completed payloads only.
CleanupEveryPackets == Len(captured) - cleaned_at < CLEANUP_EVERY
=============================================================================
