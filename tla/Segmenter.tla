------------------------------ MODULE Segmenter ------------------------------
(***************************************************************************)
(* What the flow tracker promises, without its table, its size limit and   *)
(* its clock: the frames of each flow, in the order of their arrival, are  *)
(* cut into the shortest windows of at least READY bytes. While a window   *)
(* is handed over other flows may be given up, each of them as a whole.    *)
(* The frames are numbered in the order of their arrival.                  *)
(***************************************************************************)
EXTENDS Naturals, Sequences, Functions

CONSTANTS
    Keys,     \* the flows
    Lengths,  \* the lengths a frame may have
    READY     \* bytes that complete a window

VARIABLES
    arrived,   \* how many frames have arrived
    pending,   \* per flow, the frames that wait for their window, and their bytes
    windows,   \* the windows handed over, oldest first
    discarded  \* the frames given up

vars == <<arrived, pending, windows, discarded>>

Nothing == [pkts |-> <<>>, size |-> 0]

Init ==
    /\ arrived = 0
    /\ pending = [k \in Keys |-> Nothing]
    /\ windows = <<>>
    /\ discarded = {}

\* What waits in flow k with one more frame of len bytes.
Grown(k, len) ==
    [pkts |-> Append(pending[k].pkts, arrived + 1), size |-> pending[k].size + len]

Wait(k, len) ==
    /\ Grown(k, len).size < READY
    /\ pending' = [pending EXCEPT ![k] = Grown(k, len)]
    /\ UNCHANGED <<windows, discarded>>

Cut(k, len, idle) ==
    /\ Grown(k, len).size >= READY
    /\ windows' = Append(windows, Grown(k, len).pkts)
    /\ pending' = [q \in Keys |-> IF q \in idle \cup {k} THEN Nothing ELSE pending[q]]
    /\ discarded' = discarded \cup UNION {Range(pending[q].pkts) : q \in idle}

Arrive(k, len) ==
    /\ arrived' = arrived + 1
    /\ Wait(k, len) \/ (\E idle \in SUBSET (Keys \ {k}) : Cut(k, len, idle))

Next == \E k \in Keys, len \in Lengths : Arrive(k, len)

Spec == Init /\ [][Next]_vars
=============================================================================
