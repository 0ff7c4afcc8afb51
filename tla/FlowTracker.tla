----------------------------- MODULE FlowTracker -----------------------------
(***************************************************************************)
(* The flow table of the data plane (src/capture/flow_tracker.{hpp,cpp}):  *)
(* frames of one FlowKey are appended to a buffer until it holds a whole   *)
(* inference window, then the buffer is handed over and the entry erased.  *)
(* The table is a function whose domain is the set of active keys.         *)
(* A frame is named by its capture number; a buffer is the sequence of     *)
(* the frames whose bytes it holds, with its size in bytes beside it.      *)
(***************************************************************************)
EXTENDS Integers, Sequences, Functions

CONSTANTS
    READY,            \* bytes that complete a payload: 512 in the code
    MAX_FLOW_BUFFER   \* a longer buffer takes no more bytes: 4096 in the code

ASSUME FlowTrackerAssumption ==
    /\ READY \in Nat \ {0}
    /\ MAX_FLOW_BUFFER \in Nat
    /\ READY <= MAX_FLOW_BUFFER

\* FlowKey as the capture callback fills it: the destination address and the
\* source port keep the zero of "FlowKey key{}", the protocol is always TCP.
FlowKey(frame) ==
    [src_ip   |-> frame.src_ip,
     dst_ip   |-> 0,
     src_port |-> 0,
     dst_port |-> frame.dst_port,
     protocol |-> 6]

\* FlowState: what the table keeps per key.
FlowState == [buffer : Seq(Nat \ {0}), size : Nat, last_seen : Nat]

EmptyTable == [key \in {} |-> [buffer |-> <<>>, size |-> 0, last_seen |-> 0]]

\* Seeded fault for Lookup: every frame starts a new flow state.
LookupFresh(flows, key) == [buffer |-> <<>>, size |-> 0, last_seen |-> 0]

\* active_flows_[key]: operator[] creates an empty state for a new key.
Lookup(flows, key) ==
    IF key \in DOMAIN flows
    THEN flows[key]
    ELSE [buffer |-> <<>>, size |-> 0, last_seen |-> 0]

\* Seeded faults for Appended: the newest frame goes in front of the buffer;
\* the flow keeps the time of its first frame.
AppendedInFront(state, pkt, len, t) ==
    [buffer |-> <<pkt>> \o state.buffer, size |-> state.size + len, last_seen |-> t]
AppendedAtFirstTime(state, pkt, len, t) ==
    [buffer |-> Append(state.buffer, pkt), size |-> state.size + len,
     last_seen |-> IF state.size = 0 THEN t ELSE state.last_seen]

\* The state of a flow after frame pkt of len bytes, seen at time t.
Appended(state, pkt, len, t) ==
    IF state.size < MAX_FLOW_BUFFER
    THEN [buffer    |-> Append(state.buffer, pkt),
          size      |-> state.size + len,
          last_seen |-> t]
    ELSE [state EXCEPT !.last_seen = t]

\* Seeded fault for Ready: a window of exactly READY bytes is not complete.
ReadyAbove(state) == state.size > READY

Ready(state) == state.size >= READY

\* Seeded fault for TableAfter: a flow that was handed over is not erased.
TableAfterNoErase(flows, key, state) ==
    [k \in DOMAIN flows \cup {key} |-> IF k = key THEN state ELSE flows[k]]

\* process_packet: the table once the flow of key has become state. A ready
\* flow is moved out and erased, any other one is stored.
TableAfter(flows, key, state) ==
    IF Ready(state)
    THEN Restrict(flows, DOMAIN flows \ {key})
    ELSE [k \in DOMAIN flows \cup {key} |-> IF k = key THEN state ELSE flows[k]]

\* Seeded fault for Stale: the comparison is not strict.
StaleEarly(state, timeout, t) == t - state.last_seen >= timeout

\* cleanup_stale: strictly longer than the timeout without a frame.
Stale(state, timeout, t) == t - state.last_seen > timeout

StaleKeys(flows, timeout, t) ==
    {k \in DOMAIN flows : Stale(flows[k], timeout, t)}

\* Seeded fault for CleanupStale: a stale flow loses its size and keeps its bytes.
CleanupStaleSizes(flows, timeout, t) ==
    [k \in DOMAIN flows |->
        IF Stale(flows[k], timeout, t) THEN [flows[k] EXCEPT !.size = 0] ELSE flows[k]]

CleanupStale(flows, timeout, t) ==
    Restrict(flows, DOMAIN flows \ StaleKeys(flows, timeout, t))
=============================================================================
