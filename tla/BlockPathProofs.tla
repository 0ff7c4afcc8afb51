--------------------------- MODULE BlockPathProofs ---------------------------
(***************************************************************************)
(* Proofs about BlockPath, for every set of probes and hosts and all       *)
(* parameters: its types, what a loader that says it is loaded may be      *)
(* trusted with, and what a reported block is worth.                       *)
(***************************************************************************)
EXTENDS BlockPath, TLAPS

\* Load has attached its filter and has not succeeded yet.
Attached(p) == at[p] \in {"find map", "unlink stale", "pin", "undo"}

\* Object o was never pinned, so no tool has seen its blacklist.
Fresh(o) ==
    /\ pin # o
    /\ \A q \in Probes : tool[q].fd # o
    /\ \A a \in answers : a.list # o
    /\ \A ip \in IPs : blacklist[o][ip] = Absent

\* Load works on an object of this probe that was never pinned.
Young(p) ==
    at[p] \notin {"idle", "unlink"} => obj[p] # None /\ owner[obj[p]] = p /\ Fresh(obj[p])

\* Where probe p is, and what it owns in the kernel.
Phase(p) ==
    /\ at[p] = "attach" => xdp # obj[p]
    /\ Attached(p) => xdp = obj[p] /\ ~ loaded[p]
    /\ at[p] = "unlink" => loaded[p]
    /\ (xdp # None /\ owner[xdp] = p) =>
          Attached(p) \/ (loaded[p] /\ at[p] # "unlink") \/ xdp \in undetached
    /\ (pin # None /\ owner[pin] = p) => loaded[p] \/ pin \in unremoved

\* The blacklist of an object that is still to be loaded is empty.
LaterEmpty == \A o \in Objects : o > objects => \A ip \in IPs : blacklist[o][ip] = Absent

\* Object o is the one attached, or an unload has detached it.
Served(o) == o # None => o = xdp \/ o \in retired

ServedInv ==
    /\ Served(pin)
    /\ \A p \in Probes : Served(tool[p].fd)

OwnerInv == (\A p \in Probes : Young(p) /\ Phase(p)) /\ LaterEmpty /\ LoadedEnforces

IInv == TypeOK /\ OwnerInv /\ ServedInv /\ ReportedBlock

LEMMA InitHolds == Init => IInv
  BY BlockPathAssumption DEF Init, IInv, TypeOK, OwnerInv, ServedInv, ReportedBlock, Young, Phase, LaterEmpty,
     LoadedEnforces, Served, Attached, None, Absent, Objects, NoCall, Steps

\* The parts of TypeOK, each with the variables it speaks of.
KernelType ==
    /\ libbpf \in BOOLEAN
    /\ xdp \in {None} \cup 1..objects /\ pin \in {None} \cup 1..objects
    /\ rules \subseteq IPs /\ objects \in 0..MaxObjects
ListType == blacklist \in [Objects -> [IPs -> 0..COUNTER]]
LoaderType ==
    /\ at \in [Probes -> Steps] /\ obj \in [Probes -> {None} \cup 1..objects]
    /\ loaded \in [Probes -> BOOLEAN] /\ ifindex \in [Probes -> BOOLEAN]
    /\ owner \in [Objects -> {Nobody} \cup Probes]
ToolType ==
    /\ tool \in [Probes -> [at : {"idle", "update", "iptables"}, ip : IPs \cup {Nobody},
                            fd : {None} \cup 1..objects]]
    /\ \A p \in Probes : /\ tool[p].at # "idle" => tool[p].ip \in IPs
                         /\ tool[p].at = "update" => tool[p].fd # None
AnswerType ==
    /\ answers \subseteq [ip : IPs, list : {None} \cup 1..objects] /\ calls \in Nat
    /\ retired \subseteq 1..objects /\ crossed \subseteq 1..objects
    /\ undetached \subseteq 1..objects /\ unremoved \subseteq 1..objects

LEMMA CountInRange == \A n \in Nat : n % COUNTER \in 0..COUNTER
  BY BlockPathAssumption

LEMMA TypeStep == TypeOK /\ [Next]_vars => TypeOK'
<1> SUFFICES ASSUME KernelType, ListType, LoaderType, ToolType, AnswerType, [Next]_vars
             PROVE  (KernelType /\ ListType /\ LoaderType /\ ToolType /\ AnswerType)'
  BY DEF TypeOK, KernelType, ListType, LoaderType, ToolType, AnswerType
<1> USE BlockPathAssumption DEF Steps, None, Objects, Goto
<1>1. ASSUME NEW frame \in Frames, Arrive(frame)
      PROVE  (KernelType /\ ListType /\ LoaderType /\ ToolType /\ AnswerType)'
  <2>1. /\ xdp \in Objects /\ frame.src \in IPs
        /\ blacklist[xdp][frame.src] \in 0..COUNTER
    BY <1>1 DEF Arrive, KernelType, ListType, Frames
  <2>2. (blacklist[xdp][frame.src] + 1) % COUNTER \in 0..COUNTER
    BY <2>1, CountInRange
  <2>3. ListType'
    BY <1>1, <2>1, <2>2 DEF Arrive, ListType
  <2>4. QED
    BY <1>1, <2>3 DEF Arrive, loader, calling, left, KernelType, LoaderType, ToolType, AnswerType
<1>2. ASSUME NEW p \in Probes, LoadObject(p)
      PROVE  (KernelType /\ ListType /\ LoaderType /\ ToolType /\ AnswerType)'
  <2>1. /\ objects' = objects + 1 /\ objects + 1 \in Objects
        /\ \A n \in 1..objects : n \in 1..objects'
    BY <1>2 DEF LoadObject, KernelType
  <2>2. KernelType' /\ ListType'
    BY <1>2, <2>1 DEF LoadObject, kernel, KernelType, ListType
  <2>3. LoaderType'
    <3>1. obj' \in [Probes -> {None} \cup 1..objects']
      <4> DEFINE Old == {None} \cup 1..objects
                 New == {None} \cup 1..objects'
      <4>1. objects + 1 \in New /\ Old \subseteq New
        BY <2>1 DEF KernelType
      <4>2. obj \in [Probes -> Old] /\ obj' = [obj EXCEPT ![p] = objects + 1]
        BY <1>2 DEF LoadObject, LoaderType
      <4> HIDE DEF Old, New
      <4>3. obj' \in [Probes -> New]
        BY <4>1, <4>2
      <4>4. QED
        BY <4>3 DEF New
    <3>2. at' \in [Probes -> Steps]
      BY <1>2 DEF LoadObject, LoaderType
    <3>3. owner' \in [Objects -> {Nobody} \cup Probes]
      <4> HIDE DEF Objects
      <4>1. QED
        BY <1>2, <2>1 DEF LoadObject, LoaderType
    <3>4. QED
      BY <1>2, <3>1, <3>2, <3>3 DEF LoadObject, LoaderType
  <2>4. ToolType'
    BY <1>2, <2>1 DEF LoadObject, calling, ToolType
  <2>5. AnswerType'
    BY <1>2, <2>1 DEF LoadObject, calling, left, AnswerType
  <2>6. QED
    BY <2>2, <2>3, <2>4, <2>5
<1>3. ASSUME NEW p \in Probes,
             \/ NotOpened(p) \/ Attach(p) \/ FindMap(p) \/ UnlinkStale(p) \/ PinMap(p)
             \/ Undo(p)
      PROVE  (KernelType /\ ListType /\ LoaderType /\ ToolType /\ AnswerType)'
  <2>1. KernelType'
    <3>1. obj[p] \in {None} \cup 1..objects
      BY DEF LoaderType
    <3>2. /\ UNCHANGED <<libbpf, rules, objects>>
          /\ xdp' \in {xdp, obj[p], None} /\ pin' \in {pin, obj[p], None}
      BY <1>3 DEF NotOpened, Attach, FindMap, UnlinkStale, PinMap, Undo, UnlinkPin, BpfXdpDetach, kernel
    <3>3. QED
      BY <3>1, <3>2 DEF KernelType
  <2>2. LoaderType'
    BY <1>3 DEF NotOpened, Attach, FindMap, UnlinkStale, PinMap, Undo, LoaderType
  <2>3. ListType' /\ ToolType'
    BY <1>3 DEF NotOpened, Attach, FindMap, UnlinkStale, PinMap, Undo, kernel, calling, ListType,
       ToolType
  <2>4. AnswerType'
    <3>1. /\ UNCHANGED <<objects, answers, calls, retired, crossed>>
          /\ undetached' \subseteq undetached \cup ({xdp} \ {None})
          /\ unremoved' \subseteq unremoved \cup ({pin} \ {None})
      BY <1>3 DEF NotOpened, Attach, FindMap, UnlinkStale, PinMap, Undo, UnlinkPin, BpfXdpDetach,
         kernel, calling, left
    <3>2. QED
      BY <3>1 DEF KernelType, AnswerType
  <2>5. QED
    BY <2>1, <2>2, <2>3, <2>4
<1>4. ASSUME NEW p \in Probes, Detach(p) \/ Unlink(p) \/ UnloadNothing(p) \/ CloseObject(p)
      PROVE  (KernelType /\ ListType /\ LoaderType /\ ToolType /\ AnswerType)'
  <2>1. KernelType' /\ ListType' /\ ToolType'
    BY <1>4 DEF Detach, Unlink, UnloadNothing, CloseObject, BpfXdpDetach, UnlinkPin, kernel, calling,
       KernelType, ListType, ToolType
  <2>2. LoaderType'
    BY <1>4 DEF Detach, Unlink, UnloadNothing, CloseObject, LoaderType
  <2>3. AnswerType'
    <3>1. /\ UNCHANGED <<objects, answers, calls>>
          /\ retired' \subseteq retired \cup ({xdp} \ {None})
          /\ crossed' \subseteq crossed \cup ({pin} \ {None})
          /\ undetached' \subseteq undetached \cup ({xdp} \ {None})
          /\ unremoved' \subseteq unremoved \cup ({pin} \ {None})
      BY <1>4 DEF Detach, Unlink, UnloadNothing, CloseObject, BpfXdpDetach, UnlinkPin, kernel,
         calling, left
    <3>2. QED
      BY <3>1 DEF KernelType, AnswerType
  <2>4. QED
    BY <2>1, <2>2, <2>3
<1>5. ASSUME NEW p \in Probes, NEW ip \in IPs, OpenPin(p, ip)
      PROVE  (KernelType /\ ListType /\ LoaderType /\ ToolType /\ AnswerType)'
  <2>1. ToolType'
    BY <1>5 DEF OpenPin, kernel, loader, KernelType, ToolType
  <2>2. QED
    BY <1>5, <2>1 DEF OpenPin, kernel, loader, left, KernelType, ListType, LoaderType, AnswerType
<1>6. ASSUME NEW p \in Probes, Update(p) \/ Iptables(p)
      PROVE  (KernelType /\ ListType /\ LoaderType /\ ToolType /\ AnswerType)'
  <2>1. /\ tool[p].ip \in IPs
        /\ tool[p].at = "update" => tool[p].fd \in Objects /\ tool[p].fd \in 1..objects
    BY <1>6 DEF Update, RawBpfMapUpdate, Iptables, IptablesBlock, ToolType, KernelType
  <2>2. ToolType'
    BY <1>6, <2>1 DEF Update, RawBpfMapUpdate, Iptables, IptablesBlock, Answer, NoCall, ToolType
  <2>3. KernelType' /\ LoaderType'
    BY <1>6, <2>1 DEF Update, RawBpfMapUpdate, Iptables, IptablesBlock, loader, KernelType, LoaderType
  <2>4. ListType'
    <3>1. CASE UNCHANGED blacklist
      BY <3>1 DEF ListType
    <3>2. CASE Update(p) /\ blacklist' = [blacklist EXCEPT ![tool[p].fd][tool[p].ip] = 1]
      <4>1. tool[p].fd \in Objects
        BY <2>1, <3>2 DEF Update
      <4>2. 1 \in 0..COUNTER
        OBVIOUS
      <4>3. QED
        BY <2>1, <3>2, <4>1, <4>2 DEF ListType
    <3>3. QED
      BY <1>6, <3>1, <3>2 DEF Update, RawBpfMapUpdate, Iptables, IptablesBlock
  <2>5. AnswerType'
    BY <1>6, <2>1 DEF Update, RawBpfMapUpdate, Iptables, IptablesBlock, Answer, left,
       AnswerType
  <2>6. QED
    BY <2>2, <2>3, <2>4, <2>5
<1>7. ASSUME NEW p \in Probes, Crash(p)
      PROVE  (KernelType /\ ListType /\ LoaderType /\ ToolType /\ AnswerType)'
  <2>1. LoaderType'
    BY <1>7 DEF Crash, LoaderType
  <2>2. ToolType'
    BY <1>7 DEF Crash, NoCall, ToolType
  <2>3. QED
    BY <1>7, <2>1, <2>2 DEF Crash, kernel, left, KernelType, ListType, AnswerType
<1>8. CASE UNCHANGED vars
  BY <1>8 DEF vars, kernel, loader, calling, left, KernelType, ListType, LoaderType, ToolType, AnswerType
<1>9. QED
  BY <1>1, <1>2, <1>3, <1>4, <1>5, <1>6, <1>7, <1>8 DEF Next, Load, Unload, Block

\* One loader moves, the others stay where they are.
Moved(p, from, to) ==
    /\ at[p] = from /\ at'[p] = to
    /\ \A q \in Probes \ {p} : at'[q] = at[q]

LEMMA GotoMoves ==
    ASSUME TypeOK, NEW p \in Probes, NEW from, NEW to, Goto(p, from, to)
    PROVE  Moved(p, from, to)
  BY DEF TypeOK, Goto, Moved

\* What was left behind once is never forgotten.
LEMMA LeftGrows ==
    ASSUME [Next]_vars
    PROVE  undetached \subseteq undetached' /\ unremoved \subseteq unremoved'
<1>1. ASSUME NEW p \in Probes, Load(p) \/ Unload(p)
      PROVE  undetached \subseteq undetached' /\ unremoved \subseteq unremoved'
  BY <1>1 DEF Load, Unload, NotOpened, LoadObject, Attach, FindMap, UnlinkStale, PinMap, Undo, Detach,
     Unlink, UnloadNothing, CloseObject, BpfXdpDetach, UnlinkPin, left
<1>2. ASSUME NEW p \in Probes, Block(p) \/ Crash(p)
      PROVE  undetached \subseteq undetached' /\ unremoved \subseteq unremoved'
  BY <1>2 DEF Block, OpenPin, Update, Iptables, Crash, left
<1>3. QED
  BY <1>1, <1>2 DEF Next, Arrive, vars, left

\* Facts of the type invariant in the form the lemmas below use.
LEMMA Typed ==
    ASSUME TypeOK
    PROVE  /\ objects \in Nat /\ xdp \in Nat /\ xdp <= objects /\ pin \in Nat /\ pin <= objects
           /\ (xdp # None => xdp \in Objects) /\ (pin # None => pin \in Objects)
           /\ \A q \in Probes : /\ obj[q] \in Nat /\ obj[q] <= objects
                                /\ obj[q] # None => obj[q] \in Objects
                                /\ tool[q].fd \in Nat /\ tool[q].fd <= objects
                                /\ tool[q].fd # None => tool[q].fd \in Objects
           /\ \A a \in answers : a.list \in Nat /\ a.list <= objects /\ (a.list # None => a.list \in Objects)
<1> USE BlockPathAssumption DEF None, Objects
<1>1. objects \in Nat /\ objects <= MaxObjects
  BY DEF TypeOK
<1>2. \A o \in {None} \cup 1..objects : o \in Nat /\ o <= objects /\ (o # None => o \in Objects)
  BY <1>1
<1>3. xdp \in {None} \cup 1..objects /\ pin \in {None} \cup 1..objects
  BY DEF TypeOK
<1>4. ASSUME NEW q \in Probes
      PROVE  obj[q] \in {None} \cup 1..objects /\ tool[q].fd \in {None} \cup 1..objects
  BY DEF TypeOK
<1>5. ASSUME NEW a \in answers PROVE a.list \in {None} \cup 1..objects
  BY DEF TypeOK
<1>6. QED
  BY <1>1, <1>2, <1>3, <1>4, <1>5

LEMMA OwnerLoad ==
    ASSUME TypeOK, OwnerInv, NEW p \in Probes, LoadObject(p)
    PROVE  OwnerInv'
<1> DEFINE new == objects + 1
<1>1. Moved(p, "idle", "attach") \/ Moved(p, "idle", "idle")
  BY GotoMoves DEF LoadObject
<1>2. /\ new \in Objects /\ objects' = new
      /\ UNCHANGED <<xdp, pin, blacklist, loaded, tool, answers, crossed, undetached, unremoved>>
  BY BlockPathAssumption, Typed DEF LoadObject, kernel, calling, left, Objects
<1>3. obj'[p] = new /\ (\A q \in Probes \ {p} : obj'[q] = obj[q])
  BY DEF LoadObject, TypeOK
<1>4. owner'[new] = p /\ (\A o \in Objects \ {new} : owner'[o] = owner[o])
  BY <1>2 DEF LoadObject, TypeOK
<1>5. new # None /\ new # xdp /\ new # pin /\ (\A q \in Probes : new # obj[q] /\ new # tool[q].fd)
      /\ (\A a \in answers : a.list # new)
  BY Typed DEF None
<1>6. \A ip \in IPs : blacklist[new][ip] = Absent
  BY <1>2, Typed DEF OwnerInv, LaterEmpty
<1>7. ASSUME NEW q \in Probes PROVE Young(q)'
  BY <1>1, <1>2, <1>3, <1>4, <1>5, <1>6, Typed DEF OwnerInv, Young, Fresh, Moved
<1>8. ASSUME NEW q \in Probes PROVE Phase(q)'
  BY <1>1, <1>2, <1>3, <1>4, <1>5, Typed DEF OwnerInv, Phase, Attached, Moved
<1>9. LaterEmpty'
  BY <1>2, Typed DEF OwnerInv, LaterEmpty, Objects
<1>10. LoadedEnforces'
  BY <1>1, <1>2, <1>4, <1>5, Typed DEF OwnerInv, LoadedEnforces, Moved
<1>11. QED
  BY <1>7, <1>8, <1>9, <1>10 DEF OwnerInv

LEMMA OwnerNotOpened ==
    ASSUME TypeOK, OwnerInv, NEW p \in Probes, NotOpened(p)
    PROVE  OwnerInv'
<1>1. UNCHANGED <<xdp, pin, blacklist, at, obj, loaded, tool, objects, owner, answers, crossed,
                  undetached, unremoved>>
  BY DEF NotOpened, kernel, calling, left
<1>2. ASSUME NEW q \in Probes PROVE Young(q)' /\ Phase(q)'
  <2>1. Young(q)'
    BY <1>1 DEF OwnerInv, Young, Fresh
  <2>2. Phase(q)'
    BY <1>1 DEF OwnerInv, Phase, Attached
  <2>3. QED
    BY <2>1, <2>2
<1>3. LaterEmpty' /\ LoadedEnforces'
  BY <1>1 DEF OwnerInv, LaterEmpty, LoadedEnforces
<1>4. QED
  BY <1>2, <1>3 DEF OwnerInv

LEMMA OwnerAttach ==
    ASSUME TypeOK, OwnerInv, NEW p \in Probes, Attach(p)
    PROVE  OwnerInv'
<1>1. UNCHANGED <<pin, blacklist, obj, loaded, tool, answers, objects, owner, crossed, undetached,
                  unremoved>>
  BY DEF Attach, calling, left
<1>2. LaterEmpty' /\ \A o : Fresh(o)' = Fresh(o)
  BY <1>1 DEF OwnerInv, LaterEmpty, Fresh
<1>3. CASE Moved(p, "attach", "find map") /\ xdp = None /\ xdp' = obj[p]
  <2>1. obj[p] # None /\ owner[obj[p]] = p
    BY <1>3 DEF OwnerInv, Young, Moved
  <2>2. ASSUME NEW q \in Probes PROVE ~ (loaded[q] /\ at[q] # "unlink") /\ ~ Attached(q)
    BY <1>3 DEF OwnerInv, LoadedEnforces, Phase, Attached, Young
  <2>3. ASSUME NEW q \in Probes PROVE Young(q)' /\ Phase(q)'
    <3>1. Young(q)'
      BY <1>1, <1>2, <1>3, <2>1, <2>2 DEF OwnerInv, Young, Attached, Moved
    <3>2. Phase(q)'
      <4>1. CASE q = p
        BY <1>1, <1>3, <2>1, <2>2, <4>1 DEF OwnerInv, Phase, Attached, Moved
      <4>2. CASE q # p
        <5>1. at'[q] = at[q] /\ xdp' # None /\ owner'[xdp'] # q
          BY <1>1, <1>3, <2>1, <4>2 DEF Moved
        <5>2. at[q] = "attach" => obj[q] # obj[p]
          BY <2>1, <4>2 DEF OwnerInv, Young
        <5>3. ~ Attached(q)
          BY <2>2
        <5>4. QED
          BY <1>1, <1>3, <5>1, <5>2, <5>3 DEF OwnerInv, Phase, Attached
      <4>3. QED
        BY <4>1, <4>2
    <3>3. QED
      BY <3>1, <3>2
  <2>4. LoadedEnforces'
    BY <1>1, <1>3, <2>2 DEF LoadedEnforces, Moved
  <2>5. QED
    BY <1>2, <2>3, <2>4 DEF OwnerInv
<1>4. CASE Moved(p, "attach", "idle") /\ xdp' = xdp
  <2>1. ASSUME NEW q \in Probes PROVE Young(q)' /\ Phase(q)'
    <3>1. Young(q) /\ Phase(q) /\ (at'[q] = at[q] \/ (at[q] = "attach" /\ at'[q] = "idle"))
      BY <1>4 DEF OwnerInv, Moved
    <3>2. Young(q)'
      BY <1>1, <1>2, <3>1 DEF Young
    <3>3. Phase(q)'
      BY <1>1, <1>4, <3>1 DEF Phase, Attached
    <3>4. QED
      BY <3>2, <3>3
  <2>2. LoadedEnforces'
    <3>1. \A q \in Probes : at'[q] = at[q] \/ (at[q] = "attach" /\ at'[q] = "idle")
      BY <1>4 DEF Moved
    <3>2. QED
      BY <1>1, <1>4, <3>1 DEF OwnerInv, LoadedEnforces
  <2>3. QED
    BY <1>2, <2>1, <2>2 DEF OwnerInv
<1>5. QED
  BY <1>3, <1>4, GotoMoves DEF Attach

LEMMA OwnerPin ==
    ASSUME TypeOK, OwnerInv, NEW p \in Probes,
           FindMap(p) \/ UnlinkStale(p) \/ PinMap(p) \/ Undo(p)
    PROVE  OwnerInv'
<1>1. UNCHANGED <<blacklist, obj, tool, answers, objects, owner, crossed>>
  BY DEF FindMap, UnlinkStale, PinMap, Undo, kernel, calling
<1>0. undetached \subseteq undetached' /\ unremoved \subseteq unremoved'
  BY LeftGrows DEF Next, Load
<1>2. at[p] \in {"find map", "unlink stale", "pin", "undo"}
  BY DEF FindMap, UnlinkStale, PinMap, Undo, Goto
<1>3. /\ xdp = obj[p] /\ obj[p] # None /\ owner[obj[p]] = p /\ ~ loaded[p] /\ pin # obj[p]
  BY <1>2 DEF OwnerInv, Young, Phase, Attached, Fresh
<1>4. ASSUME NEW q \in Probes \ {p}
      PROVE  ~ (loaded[q] /\ at[q] # "unlink") /\ ~ Attached(q)
  BY <1>3 DEF OwnerInv, LoadedEnforces, Young, Phase, Attached
<1>5. CASE /\ at'[p] \in {"unlink stale", "pin", "undo"}
           /\ \A q \in Probes \ {p} : at'[q] = at[q]
           /\ UNCHANGED <<xdp, loaded>> /\ pin' \in {pin, None}
  <2>1. ASSUME NEW q \in Probes PROVE Young(q)'
    BY <1>1, <1>2, <1>5 DEF OwnerInv, Young, Fresh, None
  <2>2. ASSUME NEW q \in Probes PROVE Phase(q)'
    <3>1. Phase(q) /\ Phase(p)
      BY DEF OwnerInv
    <3>2. CASE q = p
      BY <1>0, <1>1, <1>2, <1>3, <1>5, <3>1, <3>2 DEF Phase, Attached, None
    <3>3. CASE q # p
      BY <1>0, <1>1, <1>5, <3>1, <3>3 DEF Phase, Attached, None
    <3>4. QED
      BY <3>2, <3>3
  <2>3. LoadedEnforces' /\ LaterEmpty'
    BY <1>1, <1>2, <1>3, <1>4, <1>5 DEF OwnerInv, LoadedEnforces, LaterEmpty
  <2>4. QED
    BY <2>1, <2>2, <2>3 DEF OwnerInv
<1>6. CASE PinMap(p) /\ Moved(p, "pin", "idle") /\ pin' = obj[p] /\ loaded' = [loaded EXCEPT ![p] = TRUE]
  <2>1. loaded'[p] = TRUE /\ (\A q \in Probes \ {p} : loaded'[q] = loaded[q]) /\ xdp' = xdp
    BY <1>6 DEF PinMap, TypeOK
  <2>2. ASSUME NEW q \in Probes PROVE Young(q)' /\ Phase(q)'
    <3>1. CASE q = p
      BY <1>0, <1>1, <1>3, <1>6, <2>1, <3>1 DEF Young, Phase, Attached, Moved
    <3>2. CASE q # p
      <4>1. q \in Probes \ {p} /\ at'[q] = at[q] /\ loaded'[q] = loaded[q]
        BY <1>6, <2>1, <3>2 DEF Moved
      <4>2. obj[q] # obj[p] \/ at[q] \in {"idle", "unlink"}
        BY <1>3, <3>2 DEF OwnerInv, Young
      <4>3. Young(q)'
        BY <1>1, <1>6, <4>1, <4>2 DEF OwnerInv, Young, Fresh
      <4>4. Phase(q)'
        BY <1>0, <1>1, <1>3, <1>6, <2>1, <3>2, <4>1 DEF OwnerInv, Phase, Attached
      <4>5. QED
        BY <4>3, <4>4
    <3>3. QED
      BY <3>1, <3>2
  <2>3. LoadedEnforces' /\ LaterEmpty'
    BY <1>1, <1>3, <1>4, <1>6, <2>1 DEF OwnerInv, LoadedEnforces, LaterEmpty, Moved, Attached
  <2>4. QED
    BY <2>2, <2>3 DEF OwnerInv
<1>7. CASE Undo(p)
  <2>1. /\ Moved(p, "undo", "idle") /\ UNCHANGED <<pin, loaded>>
        /\ xdp' = None \/ (xdp' = xdp /\ xdp \in undetached')
    BY <1>3, <1>7, GotoMoves DEF Undo, BpfXdpDetach
  <2>2. ASSUME NEW q \in Probes PROVE Young(q)' /\ Phase(q)'
    <3>1. Young(q)'
      BY <1>1, <2>1 DEF OwnerInv, Young, Fresh, Moved
    <3>2. Phase(q)'
      <4>1. CASE q = p
        BY <1>0, <1>1, <1>3, <2>1, <4>1 DEF OwnerInv, Phase, Attached, Moved, None
      <4>2. CASE q # p
        <5>1. at'[q] = at[q] /\ ~ Attached(q)
          BY <1>4, <2>1, <4>2 DEF Moved
        <5>2. at[q] = "attach" => obj[q] # None
          BY DEF OwnerInv, Young
        <5>3. QED
          BY <1>0, <1>1, <2>1, <5>1, <5>2 DEF OwnerInv, Phase, Attached, None
      <4>3. QED
        BY <4>1, <4>2
    <3>3. QED
      BY <3>1, <3>2
  <2>3. LoadedEnforces' /\ LaterEmpty'
    BY <1>1, <1>3, <1>4, <2>1 DEF OwnerInv, LoadedEnforces, LaterEmpty, Moved
  <2>4. QED
    BY <2>2, <2>3 DEF OwnerInv
<1>8. QED
  BY <1>5, <1>6, <1>7, GotoMoves DEF FindMap, UnlinkStale, UnlinkPin, PinMap, kernel, Moved

LEMMA OwnerUnload ==
    ASSUME TypeOK, OwnerInv, NEW p \in Probes, Detach(p) \/ Unlink(p) \/ UnloadNothing(p)
    PROVE  OwnerInv'
<1>1. UNCHANGED <<blacklist, obj, tool, answers, objects, owner>>
  BY DEF Detach, Unlink, UnloadNothing, kernel, calling
<1>0. undetached \subseteq undetached' /\ unremoved \subseteq unremoved'
  BY LeftGrows DEF Next, Unload
<1>2. LaterEmpty'
  BY <1>1 DEF OwnerInv, LaterEmpty
<1>3. CASE Detach(p)
  <2>1. Moved(p, "idle", "unlink") /\ loaded[p] /\ UNCHANGED <<pin, loaded, crossed>>
    BY <1>3, GotoMoves DEF Detach
  <2>2. xdp # None /\ owner[xdp] = p
    BY <2>1 DEF OwnerInv, LoadedEnforces, Moved
  <2>7. xdp' = None \/ (xdp' = xdp /\ xdp \in undetached')
    BY <1>3, <2>2 DEF Detach, BpfXdpDetach
  <2>3. ASSUME NEW q \in Probes \ {p}
        PROVE  ~ (loaded[q] /\ at[q] # "unlink") /\ ~ Attached(q)
    BY <2>2 DEF OwnerInv, LoadedEnforces, Young, Phase, Attached
  <2>4. ASSUME NEW q \in Probes PROVE Young(q)' /\ Phase(q)'
    <3>1. Young(q)'
      <4>1. CASE q = p
        BY <2>1, <4>1 DEF OwnerInv, Young, Phase, Moved
      <4>2. CASE q # p
        BY <1>1, <2>1, <4>2 DEF OwnerInv, Young, Fresh, Moved
      <4>3. QED
        BY <4>1, <4>2
    <3>2. Phase(q)'
      <4>1. CASE q = p
        BY <1>0, <1>1, <2>1, <2>2, <2>7, <4>1 DEF OwnerInv, Phase, Attached, Moved
      <4>2. CASE q # p
        <5>1. at'[q] = at[q] /\ ~ Attached(q)
          BY <2>1, <2>3, <4>2 DEF Moved
        <5>2. at[q] = "attach" => obj[q] # None
          BY DEF OwnerInv, Young
        <5>3. QED
          BY <1>0, <1>1, <2>1, <2>7, <5>1, <5>2 DEF OwnerInv, Phase, Attached, None
      <4>3. QED
        BY <4>1, <4>2
    <3>3. QED
      BY <3>1, <3>2
  <2>5. LoadedEnforces'
    BY <1>1, <2>1, <2>3 DEF LoadedEnforces, Moved
  <2>6. QED
    BY <1>2, <2>4, <2>5 DEF OwnerInv
<1>4. CASE Unlink(p)
  <2>1. /\ Moved(p, "unlink", "idle") /\ xdp' = xdp
        /\ crossed' = crossed \cup {o \in {pin} \ {None, pin'} : owner[o] # p}
        /\ pin' = None \/ (pin' = pin /\ (pin = None \/ pin \in unremoved'))
    BY <1>4, GotoMoves DEF Unlink, UnlinkPin
  <2>2. loaded'[p] = FALSE /\ (\A q \in Probes \ {p} : loaded'[q] = loaded[q])
    BY <1>4 DEF Unlink, TypeOK
  <2>3. ASSUME NEW q \in Probes PROVE Young(q)' /\ Phase(q)'
    <3>1. Young(q)'
      BY <1>1, <2>1 DEF OwnerInv, Young, Fresh, Moved
    <3>2. Phase(q)'
      BY <1>0, <1>1, <2>1, <2>2 DEF OwnerInv, Phase, Attached, Moved
    <3>3. QED
      BY <3>1, <3>2
  <2>4. LoadedEnforces'
    BY <1>1, <2>1, <2>2 DEF OwnerInv, LoadedEnforces, Moved
  <2>5. QED
    BY <1>2, <2>3, <2>4 DEF OwnerInv
<1>5. CASE UnloadNothing(p)
  <2>1. /\ UNCHANGED <<xdp, pin, at, crossed>> /\ at[p] = "idle" /\ loaded'[p] = FALSE
        /\ xdp \in undetached' \/ xdp = None
        /\ pin \in unremoved' \/ pin = None
        /\ \A q \in Probes \ {p} : loaded'[q] = loaded[q]
    BY <1>5 DEF UnloadNothing, kernel, TypeOK
  <2>2. ASSUME NEW q \in Probes PROVE Young(q)' /\ Phase(q)'
    <3>1. Young(q)'
      BY <1>1, <2>1 DEF OwnerInv, Young, Fresh
    <3>2. Phase(q)'
      BY <1>0, <1>1, <2>1 DEF OwnerInv, Phase, Attached
    <3>3. QED
      BY <3>1, <3>2
  <2>3. LoadedEnforces'
    BY <1>1, <2>1 DEF OwnerInv, LoadedEnforces
  <2>4. QED
    BY <1>2, <2>2, <2>3 DEF OwnerInv
<1>6. QED
  BY <1>3, <1>4, <1>5

LEMMA OwnerClose ==
    ASSUME TypeOK, OwnerInv, NEW p \in Probes, CloseObject(p)
    PROVE  OwnerInv'
<1>1. /\ UNCHANGED <<xdp, pin, blacklist, at, loaded, tool, answers, objects, owner, crossed,
                      undetached, unremoved>>
      /\ at[p] = "idle" /\ \A q \in Probes \ {p} : obj'[q] = obj[q]
  BY DEF CloseObject, kernel, calling, left, TypeOK
<1>2. ASSUME NEW q \in Probes PROVE Young(q)' /\ Phase(q)'
  <2>1. CASE q = p
    BY <1>1, <2>1 DEF OwnerInv, Young, Phase, Attached
  <2>2. CASE q # p
    <3>1. obj'[q] = obj[q]
      BY <1>1, <2>2
    <3>2. Young(q)'
      BY <1>1, <3>1 DEF OwnerInv, Young, Fresh
    <3>3. Phase(q)'
      BY <1>1, <3>1 DEF OwnerInv, Phase, Attached
    <3>4. QED
      BY <3>2, <3>3
  <2>3. QED
    BY <2>1, <2>2
<1>3. LaterEmpty' /\ LoadedEnforces'
  BY <1>1 DEF OwnerInv, LaterEmpty, LoadedEnforces
<1>4. QED
  BY <1>2, <1>3 DEF OwnerInv

\* A crash takes what the probe owned away from it; a frame and a call of the
\* tool move no loader.
LEMMA OwnerCrash ==
    ASSUME TypeOK, OwnerInv, NEW p \in Probes, Crash(p)
    PROVE  OwnerInv'
<1>1. /\ UNCHANGED <<xdp, pin, blacklist, answers, objects, crossed, undetached, unremoved>>
      /\ at'[p] = "idle" /\ obj'[p] = None /\ loaded'[p] = FALSE /\ tool'[p].fd = None
      /\ \A q \in Probes \ {p} : /\ at'[q] = at[q] /\ obj'[q] = obj[q] /\ loaded'[q] = loaded[q]
                                 /\ tool'[q] = tool[q]
  BY DEF Crash, kernel, left, TypeOK, NoCall
<1>2. \A o \in Objects : owner'[o] # p /\ \A q \in Probes \ {p} : owner'[o] = q <=> owner[o] = q
  BY BlockPathAssumption DEF Crash, TypeOK
<1>3. ASSUME NEW q \in Probes PROVE Young(q)'
  BY <1>1, <1>2, Typed DEF OwnerInv, Young, Fresh
<1>4. ASSUME NEW q \in Probes PROVE Phase(q)'
  <2>1. CASE q = p
    BY <1>1, <1>2, <2>1, Typed DEF Phase, Attached
  <2>2. CASE q # p
    <3>1. /\ at'[q] = at[q] /\ obj'[q] = obj[q] /\ loaded'[q] = loaded[q]
          /\ xdp # None => (owner'[xdp] = q <=> owner[xdp] = q)
          /\ pin # None => (owner'[pin] = q <=> owner[pin] = q)
      BY <1>1, <1>2, <2>2, Typed
    <3>2. QED
      BY <1>1, <3>1 DEF OwnerInv, Phase, Attached
  <2>3. QED
    BY <2>1, <2>2
<1>5. LoadedEnforces' /\ LaterEmpty'
  BY <1>1, <1>2, Typed DEF OwnerInv, LoadedEnforces, LaterEmpty
<1>6. QED
  BY <1>3, <1>4, <1>5 DEF OwnerInv

LEMMA OwnerArrive ==
    ASSUME TypeOK, OwnerInv, NEW frame \in Frames, Arrive(frame)
    PROVE  OwnerInv'
<1>1. UNCHANGED <<xdp, pin, at, obj, loaded, tool, answers, objects, owner, crossed, undetached,
                  unremoved>>
  BY DEF Arrive, loader, calling, left
<1>2. ASSUME NEW o \in Objects, NEW ip \in IPs, blacklist[o][ip] = Absent
      PROVE  blacklist'[o][ip] = Absent
  BY <1>2 DEF Arrive, XdpFirewall, TypeOK, Frames
<1>3. ASSUME NEW q \in Probes PROVE Young(q)'
  BY <1>1, <1>2, Typed DEF OwnerInv, Young, Fresh
<1>4. QED
  BY <1>1, <1>2, <1>3 DEF OwnerInv, Phase, Attached, LaterEmpty, LoadedEnforces

\* What the three steps of a call do to the calls and the answers.
LEMMA CallStep ==
    ASSUME TypeOK, NEW p \in Probes, Block(p)
    PROVE  /\ UNCHANGED <<xdp, pin, at, obj, loaded, objects, owner, retired, crossed, undetached,
                           unremoved>>
           /\ \A q \in Probes \ {p} : tool'[q] = tool[q]
           /\ tool'[p].fd \in {None, pin}
           /\ \/ UNCHANGED answers
              \/ Iptables(p) /\ answers' = answers \cup {[ip |-> tool[p].ip, list |-> None]}
              \/ Update(p) /\ answers' = answers \cup {[ip |-> tool[p].ip, list |-> tool[p].fd]}
<1> DEFINE Call == [at : {"idle", "update", "iptables"}, ip : IPs \cup {Nobody},
                    fd : {None} \cup 1..objects]
<1>1. tool \in [Probes -> Call]
  BY DEF TypeOK
<1> HIDE DEF Call
<1>2. CASE \E ip \in IPs : OpenPin(p, ip)
  BY <1>1, <1>2 DEF OpenPin, kernel, loader, left
<1>3. CASE Update(p)
  BY <1>1, <1>3 DEF Update, RawBpfMapUpdate, IptablesBlock, Answer, NoCall, loader, left
<1>4. CASE Iptables(p)
  BY <1>1, <1>4 DEF Iptables, IptablesBlock, Answer, NoCall, loader, left
<1>5. QED
  BY <1>2, <1>3, <1>4 DEF Block

\* An update adds an entry to one list and takes none away.
LEMMA UpdateStep ==
    ASSUME TypeOK, NEW p \in Probes, Update(p)
    PROVE  /\ tool[p].fd \in Objects /\ tool[p].fd # None /\ tool[p].ip \in IPs
           /\ UNCHANGED rules
           /\ \A o \in Objects \ {tool[p].fd} : blacklist'[o] = blacklist[o]
           /\ \A ip \in IPs \ {tool[p].ip} : blacklist'[tool[p].fd][ip] = blacklist[tool[p].fd][ip]
           /\ \/ UNCHANGED <<blacklist, answers>>
              \/ blacklist'[tool[p].fd][tool[p].ip] # Absent
<1>1. /\ tool[p].fd \in {None} \cup 1..objects /\ tool[p].fd # None /\ tool[p].ip \in IPs
      /\ UNCHANGED rules
  BY DEF Update, TypeOK
<1>2. tool[p].fd \in Objects
  BY <1>1, Typed
<1>3. blacklist \in [Objects -> [IPs -> 0..COUNTER]]
  BY DEF TypeOK
<1>4. \/ blacklist' = [blacklist EXCEPT ![tool[p].fd][tool[p].ip] = 1]
      \/ UNCHANGED <<blacklist, answers>>
  BY DEF Update, RawBpfMapUpdate
<1>5. 1 # Absent
  BY BlockPathAssumption DEF Absent
<1>6. QED
  BY <1>1, <1>2, <1>3, <1>4, <1>5

LEMMA OwnerBlock ==
    ASSUME TypeOK, OwnerInv, NEW p \in Probes, Block(p)
    PROVE  OwnerInv'
<1>1. UNCHANGED <<xdp, pin, at, obj, loaded, objects, owner, crossed, undetached, unremoved>>
  BY CallStep
<1>2. ASSUME NEW o \in Objects, o # pin, \A q \in Probes : tool[q].fd # o
      PROVE  /\ \A q \in Probes : tool'[q].fd # o
             /\ \A a \in answers' : a \in answers \/ a.list # o
             /\ blacklist'[o] = blacklist[o]
  <2>1. o # None
    BY DEF None, Objects
  <2>2. blacklist'[o] = blacklist[o]
    <3>1. CASE Update(p)
      BY <1>2, <3>1, UpdateStep
    <3>2. CASE UNCHANGED blacklist
      BY <3>2
    <3>3. QED
      BY <3>1, <3>2 DEF Block, OpenPin, Iptables, kernel
  <2>3. QED
    BY <1>2, <2>1, <2>2, CallStep
<1>3. \A o \in Objects : Fresh(o) => Fresh(o)'
  BY <1>1, <1>2 DEF Fresh
<1>4. ASSUME NEW q \in Probes PROVE Young(q)' /\ Phase(q)'
  <2>1. Young(q)'
    BY <1>1, <1>3, Typed DEF OwnerInv, Young
  <2>2. Phase(q)'
    BY <1>1 DEF OwnerInv, Phase, Attached
  <2>3. QED
    BY <2>1, <2>2
<1>5. ASSUME NEW o \in Objects, o > objects PROVE blacklist'[o] = blacklist[o]
  BY <1>2, <1>5, Typed
<1>6. LaterEmpty' /\ LoadedEnforces'
  BY <1>1, <1>5 DEF OwnerInv, LaterEmpty, LoadedEnforces
<1>7. QED
  BY <1>4, <1>6 DEF OwnerInv

LEMMA OwnerStep == TypeOK /\ OwnerInv /\ [Next]_vars => OwnerInv'
<1> SUFFICES ASSUME TypeOK, OwnerInv, [Next]_vars PROVE OwnerInv'
  OBVIOUS
<1>1. CASE UNCHANGED vars
  <2>1. UNCHANGED <<xdp, pin, blacklist, at, obj, loaded, tool, objects, owner, answers, crossed,
                    undetached, unremoved>>
    BY <1>1 DEF vars, kernel, loader, calling, left
  <2>2. ASSUME NEW p \in Probes PROVE Young(p)' /\ Phase(p)'
    <3>1. Young(p) /\ Phase(p)
      BY DEF OwnerInv
    <3>2. Young(p)'
      BY <2>1, <3>1 DEF Young, Fresh
    <3>3. Phase(p)'
      BY <2>1, <3>1 DEF Phase, Attached
    <3>4. QED
      BY <3>2, <3>3
  <2>3. LaterEmpty' /\ LoadedEnforces'
    BY <2>1 DEF OwnerInv, LaterEmpty, LoadedEnforces
  <2>4. QED
    BY <2>2, <2>3 DEF OwnerInv
<1>2. QED
  BY <1>1, OwnerNotOpened, OwnerLoad, OwnerAttach, OwnerPin, OwnerUnload, OwnerClose, OwnerCrash, OwnerArrive,
     OwnerBlock DEF Next, Load, Unload
-----------------------------------------------------------------------------
LEMMA ServedStep ==
    TypeOK /\ OwnerInv /\ ServedInv /\ ReportedBlock /\ [Next]_vars => ServedInv' /\ ReportedBlock'
<1> SUFFICES ASSUME TypeOK, OwnerInv, ServedInv, ReportedBlock, [Next]_vars
             PROVE  ServedInv' /\ ReportedBlock'
  OBVIOUS
<1>1. ASSUME NEW frame \in Frames, Arrive(frame) PROVE ServedInv' /\ ReportedBlock'
  <2>1. UNCHANGED <<xdp, pin, rules, tool, answers, retired>>
    BY <1>1 DEF Arrive, calling
  <2>2. ASSUME NEW o \in Objects, NEW ip \in IPs, blacklist[o][ip] # Absent
        PROVE  blacklist'[o][ip] # Absent
    BY <1>1, <2>2, BlockPathAssumption DEF Arrive, TypeOK, Absent, Frames
  <2>3. \A a \in answers : a.ip \in IPs
    BY DEF TypeOK
  <2>4. QED
    BY <2>1, <2>2, <2>3, Typed DEF ServedInv, Served, ReportedBlock, Objects, None
<1>2. ASSUME UNCHANGED <<blacklist, rules, answers>>,
             retired \subseteq retired',
             xdp # None => xdp' = xdp \/ xdp \in retired',
             pin' \in {pin, None} \/ pin' = xdp',
             \A q \in Probes : tool'[q].fd \in {tool[q].fd, None}
      PROVE  ServedInv' /\ ReportedBlock'
  BY <1>2 DEF ServedInv, Served, ReportedBlock
<1>3. ASSUME NEW p \in Probes, NotOpened(p) \/ LoadObject(p) PROVE ServedInv' /\ ReportedBlock'
  BY <1>2, <1>3 DEF NotOpened, LoadObject, kernel, calling
<1>4. ASSUME NEW p \in Probes, Attach(p) PROVE ServedInv' /\ ReportedBlock'
  BY <1>2, <1>4 DEF Attach, calling
<1>5. ASSUME NEW p \in Probes, FindMap(p) \/ UnlinkStale(p) PROVE ServedInv' /\ ReportedBlock'
  BY <1>2, <1>5 DEF FindMap, UnlinkStale, UnlinkPin, kernel, calling
<1>6. ASSUME NEW p \in Probes, PinMap(p) PROVE ServedInv' /\ ReportedBlock'
  <2>1. xdp = obj[p]
    BY <1>6 DEF PinMap, Goto, OwnerInv, Phase, Attached
  <2>2. QED
    BY <1>2, <1>6, <2>1 DEF PinMap, calling
<1>7. ASSUME NEW p \in Probes, Undo(p) PROVE ServedInv' /\ ReportedBlock'
  <2>1. xdp = obj[p] /\ Fresh(xdp)
    BY <1>7 DEF Undo, Goto, OwnerInv, Young, Phase, Attached
  <2>2. UNCHANGED <<pin, tool, answers, blacklist, rules, retired>> /\ xdp' \in {xdp, None}
    BY <1>7 DEF Undo, BpfXdpDetach, calling
  <2>3. QED
    BY <2>1, <2>2 DEF Fresh, ServedInv, Served, ReportedBlock
<1>8. ASSUME NEW p \in Probes, Unload(p) PROVE ServedInv' /\ ReportedBlock'
  BY <1>2, <1>8 DEF Unload, Detach, Unlink, UnloadNothing, CloseObject, BpfXdpDetach, UnlinkPin,
     kernel, calling
<1>9. ASSUME NEW p \in Probes, NEW ip \in IPs, OpenPin(p, ip) PROVE ServedInv' /\ ReportedBlock'
  <2>1. UNCHANGED <<xdp, pin, blacklist, rules, retired, answers>>
    BY <1>9 DEF OpenPin, kernel
  <2>2. \A q \in Probes : tool'[q].fd \in {tool[q].fd, None, pin}
    BY <1>9, CallStep DEF Block
  <2>3. QED
    BY <2>1, <2>2 DEF ServedInv, Served, ReportedBlock
<1>10. ASSUME NEW p \in Probes, Update(p) PROVE ServedInv' /\ ReportedBlock'
  <2>1. Served(tool[p].fd) /\ tool[p].fd # None
    BY <1>10, UpdateStep DEF ServedInv
  <2>2. /\ UNCHANGED <<xdp, pin, retired, rules>>
        /\ \A q \in Probes : tool'[q].fd \in {tool[q].fd, None, pin}
    BY <1>10, CallStep, UpdateStep DEF Block
  <2>3. \A o \in Objects, ip \in IPs : blacklist[o][ip] # Absent => blacklist'[o][ip] # Absent
    BY <1>10, UpdateStep
  <2>4. \A a \in answers : a.ip \in IPs /\ (a.list # None => a.list \in Objects)
    <3>1. \A a \in answers : a.ip \in IPs
      BY DEF TypeOK
    <3>2. QED
      BY <3>1, Typed
  <2>5. \A a \in answers' : \/ a \in answers
                            \/ /\ a.ip = tool[p].ip /\ a.list = tool[p].fd
                               /\ blacklist'[tool[p].fd][tool[p].ip] # Absent
    BY <1>10, CallStep, UpdateStep DEF Block, Update, Iptables
  <2>6. ServedInv'
    BY <2>2 DEF ServedInv, Served
  <2>7. ReportedBlock'
    BY <2>1, <2>2, <2>3, <2>4, <2>5 DEF ReportedBlock, Served
  <2>8. QED
    BY <2>6, <2>7
<1>11. ASSUME NEW p \in Probes, Iptables(p) PROVE ServedInv' /\ ReportedBlock'
  <2>1. \A q \in Probes : tool'[q].fd \in {tool[q].fd, None, pin}
    BY <1>11, CallStep DEF Block
  <2>2. /\ UNCHANGED <<xdp, pin, blacklist, retired>> /\ rules \subseteq rules'
        /\ \A a \in answers' : a \in answers \/ a.ip \in rules'
    BY <1>11 DEF Iptables, IptablesBlock, Answer
  <2>3. QED
    BY <2>1, <2>2 DEF ServedInv, Served, ReportedBlock
<1>12. ASSUME NEW p \in Probes, Crash(p) PROVE ServedInv' /\ ReportedBlock'
  BY <1>2, <1>12 DEF Crash, kernel, NoCall, TypeOK
<1>13. CASE UNCHANGED vars
  BY <1>13 DEF vars, kernel, calling, ServedInv, Served, ReportedBlock
<1>14. QED
  BY <1>1, <1>3, <1>4, <1>5, <1>6, <1>7, <1>8, <1>9, <1>10, <1>11, <1>12, <1>13
     DEF Next, Load, Unload, Block
-----------------------------------------------------------------------------
LEMMA BlockPathInvariant == Spec => []IInv
<1>1. IInv /\ [Next]_vars => IInv'
  BY TypeStep, OwnerStep, ServedStep DEF IInv
<1>2. QED
  BY <1>1, InitHolds, PTL DEF Spec

\* The state is well typed, for every set of probes and hosts.
THEOREM TypeCorrect == Spec => []TypeOK
  BY BlockPathInvariant, PTL DEF IInv

\* A loader that says it is loaded has its own filter attached and its own
\* blacklist pinned, or none, however many probes load, unload and crash.
THEOREM LoadedIsEnforcing == Spec => []LoadedEnforces
<1>1. IInv => LoadedEnforces
  BY DEF IInv, OwnerInv
<1>2. QED
  BY <1>1, BlockPathInvariant, PTL

\* What an idle loader that is not loaded owns in the kernel is what it failed to
\* take back, or took for lost with its interface.
THEOREM NothingIsLeftBehind == Spec => []NothingLeftBehind
<1>1. IInv => NothingLeftBehind
  BY DEF IInv, OwnerInv, Phase, Attached, NothingLeftBehind
<1>2. QED
  BY <1>1, BlockPathInvariant, PTL

\* A block reported is in the rules or in the list of a filter that is attached
\* or was detached by an unload.
THEOREM ReportsAreTrue == Spec => []ReportedBlock
<1>1. IInv => ReportedBlock
  BY DEF IInv
<1>2. QED
  BY <1>1, BlockPathInvariant, PTL

\* Only the detach of an unload lets a blocked host back in: no crash, failed
\* load, full list or wrapped counter does.
THEOREM BlocksStay == Spec => BlockedStaysBlocked
<1> DEFINE Step == Blocked \subseteq Blocked' \/ \E p \in Probes : Detach(p)
<1>1. IInv /\ [Next]_vars => [Step]_vars
  <2> SUFFICES ASSUME IInv, Next PROVE Step
    OBVIOUS
  <2>1. Blocked = rules \cup {ip \in IPs : xdp # None /\ blacklist[xdp][ip] # Absent}
    BY DEF Blocked, XdpFirewall
  <2>2. Blocked' = rules' \cup {ip \in IPs : xdp' # None /\ blacklist'[xdp'][ip] # Absent}
    BY DEF Blocked, XdpFirewall
  <2>3. ASSUME UNCHANGED <<rules, xdp, blacklist>> PROVE Step
    BY <2>1, <2>2, <2>3
  <2>4. ASSUME NEW frame \in Frames, Arrive(frame) PROVE Step
    BY <2>1, <2>2, <2>4, BlockPathAssumption, Typed DEF Arrive, IInv, TypeOK, Frames, Absent
  <2>5. ASSUME NEW p \in Probes, Attach(p) PROVE Step
    BY <2>1, <2>2, <2>3, <2>5 DEF Attach
  <2>6. ASSUME NEW p \in Probes, Undo(p) PROVE Step
    <3>1. Fresh(xdp)
      BY <2>6 DEF Undo, Goto, IInv, OwnerInv, Young, Phase, Attached
    <3>2. QED
      BY <2>1, <2>2, <2>6, <3>1 DEF Undo, BpfXdpDetach, Fresh
  <2>7. ASSUME NEW p \in Probes, Update(p) PROVE Step
    <3>1. UNCHANGED <<xdp, rules>> /\ (xdp # None => xdp \in Objects)
      BY <2>7, Typed DEF Update, IInv
    <3>2. \A o \in Objects, ip \in IPs : blacklist[o][ip] # Absent => blacklist'[o][ip] # Absent
      BY <2>7, UpdateStep DEF IInv
    <3>3. QED
      BY <2>1, <2>2, <3>1, <3>2
  <2>8. ASSUME NEW p \in Probes, Iptables(p) PROVE Step
    BY <2>1, <2>2, <2>8 DEF Iptables, IptablesBlock
  <2>9. ASSUME NEW p \in Probes,
               \/ NotOpened(p) \/ LoadObject(p) \/ FindMap(p) \/ UnlinkStale(p) \/ PinMap(p)
               \/ Unlink(p) \/ UnloadNothing(p) \/ CloseObject(p) \/ Crash(p)
        PROVE  Step
    BY <2>3, <2>9 DEF NotOpened, LoadObject, FindMap, UnlinkStale, PinMap, Unlink, UnloadNothing,
       CloseObject, Crash, kernel
  <2>10. ASSUME NEW p \in Probes, NEW ip \in IPs, OpenPin(p, ip) PROVE Step
    BY <2>3, <2>10 DEF OpenPin, kernel
  <2>11. QED
    BY <2>4, <2>5, <2>6, <2>7, <2>8, <2>9, <2>10 DEF Next, Load, Unload, Block
<1>2. QED
  BY <1>1, BlockPathInvariant, PTL DEF Spec, BlockedStaysBlocked
=============================================================================
