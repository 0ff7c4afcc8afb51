------------------------------ MODULE BlockPath ------------------------------
(***************************************************************************)
(* How a host is blocked. XdpLoader (src/ebpf/xdp_loader.cpp) attaches the *)
(* filter xdp_filter.c to the interface and pins its blacklist; the tool   *)
(* block_malicious_ip (src/mcp_server/tools/sec_tools.cpp) writes hosts    *)
(* into whatever blacklist is pinned, and falls back to iptables. Probes   *)
(* come and go and may crash at any step; the attachment, the pin and the  *)
(* rules belong to the kernel and stay. A step is one call into the        *)
(* kernel. The kernel's side is external.                                  *)
(***************************************************************************)
EXTENDS Naturals, FiniteSets

CONSTANTS
    Probes,      \* the probe processes, each with a loader and a tool at work
    IPs,         \* the hosts
    Builds,      \* whether AEGIS_LIBBPF_AVAILABLE is defined: a set of Booleans
    MAX_ENTRIES, \* hosts a blacklist holds: 100000 in the code
    COUNTER,     \* values of a blacklist entry: 2^32 in the code
    MaxObjects,  \* bound: BPF objects loaded
    MaxCalls     \* bound: calls of the tool answered

Nobody == "nobody"

ASSUME BlockPathAssumption ==
    /\ Builds \subseteq BOOLEAN /\ Nobody \notin Probes \cup IPs
    /\ MAX_ENTRIES \in Nat /\ COUNTER \in Nat /\ COUNTER > 1
    /\ MaxObjects \in Nat /\ MaxCalls \in Nat

VARIABLES
    libbpf,    \* the build
    \* the kernel
    xdp,       \* the object whose filter is attached to the interface, or None
    pin,       \* the object whose blacklist is at MAP_PIN_PATH, or None
    blacklist, \* per object, the entries of aegis_blacklist
    rules,     \* the hosts dropped by iptables
    \* the probes
    at,        \* per probe, where its loader is: "idle", or a step of load or unload
    obj,       \* XdpLoader::bpf_obj_, or None
    loaded,    \* XdpLoader::loaded_
    ifindex,   \* whether XdpLoader::ifindex_ names an interface
    tool,      \* per probe, the call of SecTools::execute it runs
    \* history
    objects,   \* how many BPF objects were loaded
    owner,     \* per object, the probe that loaded it, or Nobody after its crash
    answers,   \* the calls answered with success
    calls,     \* how many calls were answered
    retired,   \* the objects whose filter an unload detached
    crossed,   \* the objects whose pin another probe's unload removed
    undetached,\* the objects whose filter stayed on when it should have gone
    unremoved  \* the objects whose pin did

kernel  == <<xdp, pin, blacklist, rules>>
loader  == <<at, obj, loaded, ifindex>>
calling == <<tool, answers, calls>>
left    == <<undetached, unremoved>>
vars == <<libbpf, kernel, loader, calling, objects, owner, retired, crossed, left>>

None    == 0
Absent  == COUNTER
Objects == 1..MaxObjects
NoCall  == [at |-> "idle", ip |-> Nobody, fd |-> None]
Steps   == {"idle", "attach", "find map", "unlink stale", "pin", "undo", "unlink"}

Init ==
    /\ libbpf \in Builds
    /\ xdp = None /\ pin = None /\ rules = {}
    /\ blacklist = [o \in Objects |-> [ip \in IPs |-> Absent]]
    /\ at = [p \in Probes |-> "idle"]
    /\ obj = [p \in Probes |-> None]
    /\ loaded = [p \in Probes |-> FALSE]
    /\ ifindex = [p \in Probes |-> FALSE]
    /\ tool = [p \in Probes |-> NoCall]
    /\ objects = 0 /\ owner = [o \in Objects |-> Nobody]
    /\ answers = {} /\ calls = 0 /\ retired = {} /\ crossed = {}
    /\ undetached = {} /\ unremoved = {}
-----------------------------------------------------------------------------
(* The filter.                                                             *)

\* Seeded fault for XdpFirewall: the entry's count is taken for the verdict.
XdpFirewallByCount(list, frame) ==
    IF frame.ipv4 /\ frame.whole /\ list[frame.src] \notin {Absent, 0} THEN "drop" ELSE "pass"

\* xdp_firewall: only an IPv4 frame with whole headers is looked up.
XdpFirewall(list, frame) ==
    IF frame.ipv4 /\ frame.whole /\ list[frame.src] # Absent THEN "drop" ELSE "pass"

\* A frame arrives; a drop counts, modulo the width of the counter.
Arrive(frame) ==
    /\ xdp # None /\ XdpFirewall(blacklist[xdp], frame) = "drop"
    /\ blacklist' = [blacklist EXCEPT ![xdp][frame.src] = (@ + 1) % COUNTER]
    /\ UNCHANGED <<libbpf, xdp, pin, rules, loader, calling, objects, owner, retired, crossed,
                   left>>
-----------------------------------------------------------------------------
(* XdpLoader::load. Each step may fail, and then load returns false.       *)

Goto(p, from, to) == at[p] = from /\ at' = [at EXCEPT ![p] = to]

\* bpf_xdp_detach takes off whatever is attached, or fails. Its result is ignored.
BpfXdpDetach ==
    \/ xdp' = None /\ UNCHANGED undetached
    \/ undetached' = undetached \cup ({xdp} \ {None}) /\ UNCHANGED xdp

\* unlink removes whatever is pinned, or fails. Its result is ignored.
UnlinkPin ==
    \/ pin' = None /\ UNCHANGED unremoved
    \/ unremoved' = unremoved \cup ({pin} \ {None}) /\ UNCHANGED pin

\* The interface is not found, or the file cannot be opened.
NotOpened(p) ==
    /\ libbpf /\ at[p] = "idle"
    /\ \E found \in BOOLEAN : ifindex' = [ifindex EXCEPT ![p] = found]
    /\ UNCHANGED <<libbpf, kernel, at, obj, loaded, calling, objects, owner, retired, crossed,
                   left>>

\* The object is opened, and the previous one, if any, forgotten; then it is loaded
\* into the kernel, or load fails there or for want of the program.
LoadObject(p) ==
    /\ libbpf /\ objects < MaxObjects
    /\ Goto(p, "idle", "attach") \/ Goto(p, "idle", "idle")
    /\ ifindex' = [ifindex EXCEPT ![p] = TRUE]
    /\ objects' = objects + 1
    /\ obj' = [obj EXCEPT ![p] = objects + 1]
    /\ owner' = [owner EXCEPT ![objects + 1] = p]
    /\ UNCHANGED <<libbpf, kernel, loaded, calling, retired, crossed, left>>

\* Seeded fault for Attach: without XDP_FLAGS_UPDATE_IF_NOEXIST.
AttachReplacing(p) ==
    /\ Goto(p, "attach", "find map") /\ xdp' = obj[p]
    /\ UNCHANGED <<libbpf, pin, blacklist, rules, obj, loaded, ifindex, calling, objects, owner,
                   retired, crossed, left>>

\* The filter is attached, if no other one is.
Attach(p) ==
    /\ \/ xdp = None /\ Goto(p, "attach", "find map") /\ xdp' = obj[p]
       \/ Goto(p, "attach", "idle") /\ UNCHANGED xdp
    /\ UNCHANGED <<libbpf, pin, blacklist, rules, obj, loaded, ifindex, calling, objects, owner,
                   retired, crossed, left>>

\* An object without aegis_blacklist is given up.
FindMap(p) ==
    /\ Goto(p, "find map", "unlink stale") \/ Goto(p, "find map", "undo")
    /\ UNCHANGED <<libbpf, kernel, obj, loaded, ifindex, calling, objects, owner, retired, crossed,
                   left>>

UnlinkStale(p) ==
    /\ Goto(p, "unlink stale", "pin")
    /\ UnlinkPin
    /\ UNCHANGED <<libbpf, xdp, blacklist, rules, obj, loaded, ifindex, calling, objects, owner,
                   retired, crossed, undetached>>

\* Seeded fault for PinMap: a failure does not try to detach the filter.
PinMapKeepingFilter(p) ==
    /\ \/ /\ pin = None /\ Goto(p, "pin", "idle")
          /\ pin' = obj[p]
          /\ loaded' = [loaded EXCEPT ![p] = TRUE]
       \/ Goto(p, "pin", "idle") /\ UNCHANGED <<pin, loaded>>
    /\ UNCHANGED <<libbpf, xdp, blacklist, rules, obj, ifindex, calling, objects, owner, retired,
                   crossed, left>>

\* The blacklist is pinned, if the path is free, and load has succeeded.
PinMap(p) ==
    /\ \/ /\ pin = None /\ Goto(p, "pin", "idle")
          /\ pin' = obj[p]
          /\ loaded' = [loaded EXCEPT ![p] = TRUE]
       \/ Goto(p, "pin", "undo") /\ UNCHANGED <<pin, loaded>>
    /\ UNCHANGED <<libbpf, xdp, blacklist, rules, obj, ifindex, calling, objects, owner, retired,
                   crossed, left>>

\* The failures after the attachment detach whatever is attached.
Undo(p) ==
    /\ Goto(p, "undo", "idle")
    /\ BpfXdpDetach
    /\ UNCHANGED <<libbpf, pin, blacklist, rules, obj, loaded, ifindex, calling, objects, owner,
                   retired, crossed, unremoved>>
-----------------------------------------------------------------------------
(* XdpLoader::unload, by its owner or by the destructor of a loaded one.   *)

Detach(p) ==
    /\ loaded[p] /\ ifindex[p] /\ Goto(p, "idle", "unlink")
    /\ BpfXdpDetach
    /\ retired' = retired \cup ({xdp} \ {None, xdp'})
    /\ UNCHANGED <<libbpf, pin, blacklist, rules, obj, loaded, ifindex, calling, objects, owner,
                   crossed, unremoved>>

\* unlink is for whatever is pinned by now.
Unlink(p) ==
    /\ Goto(p, "unlink", "idle")
    /\ UnlinkPin
    /\ crossed' = crossed \cup {o \in {pin} \ {None, pin'} : owner[o] # p}
    /\ loaded' = [loaded EXCEPT ![p] = FALSE]
    /\ UNCHANGED <<libbpf, xdp, blacklist, rules, obj, ifindex, calling, objects, owner, retired,
                   undetached>>

\* A second load of a loaded object has lost the interface: unload does nothing.
UnloadNothing(p) ==
    /\ loaded[p] /\ ~ ifindex[p] /\ at[p] = "idle"
    /\ loaded' = [loaded EXCEPT ![p] = FALSE]
    /\ undetached' = undetached \cup ({xdp} \ {None})
    /\ unremoved' = unremoved \cup ({pin} \ {None})
    /\ UNCHANGED <<libbpf, kernel, at, obj, ifindex, calling, objects, owner, retired, crossed>>

\* The destructor, once nothing is loaded (any more), closes the object.
CloseObject(p) ==
    /\ at[p] = "idle" /\ ~ loaded[p] /\ obj[p] # None
    /\ obj' = [obj EXCEPT ![p] = None]
    /\ ifindex' = [ifindex EXCEPT ![p] = FALSE]
    /\ UNCHANGED <<libbpf, kernel, at, loaded, calling, objects, owner, retired, crossed, left>>
-----------------------------------------------------------------------------
(* SecTools::execute, after the address was found well formed.             *)

Answer(p, ip, list) ==
    /\ tool' = [tool EXCEPT ![p] = NoCall]
    /\ calls' = calls + 1
    /\ answers' = answers \cup {[ip |-> ip, list |-> list]}

\* Seeded fault for OpenPin: the descriptor is not tested.
OpenPinUnchecked(p, ip) ==
    /\ tool[p].at = "idle" /\ calls < MaxCalls
    /\ tool' = [tool EXCEPT ![p] = [at |-> "update", ip |-> ip, fd |-> pin]]
    /\ UNCHANGED <<libbpf, kernel, loader, answers, calls, objects, owner, retired, crossed, left>>

\* The pin is opened, if there is one and the kernel lets it be opened.
OpenPin(p, ip) ==
    /\ tool[p].at = "idle" /\ calls < MaxCalls
    /\ \/ pin # None /\ tool' = [tool EXCEPT ![p] = [at |-> "update", ip |-> ip, fd |-> pin]]
       \/ tool' = [tool EXCEPT ![p] = [at |-> "iptables", ip |-> ip, fd |-> None]]
    /\ UNCHANGED <<libbpf, kernel, loader, answers, calls, objects, owner, retired, crossed, left>>

HasRoom(list, ip) ==
    list[ip] # Absent \/ Cardinality({h \in IPs : list[h] # Absent}) < MAX_ENTRIES

\* raw_bpf_map_update: the entry is written, or overwritten if the host has one.
RawBpfMapUpdate(list, ip) ==
    /\ HasRoom(blacklist[list], ip)
    /\ blacklist' = [blacklist EXCEPT ![list][ip] = 1]

\* iptables_block: fork, execv and waitpid.
IptablesBlock(ip) == rules' = rules \cup {ip}

\* Seeded fault for Update: the result of the system call is not looked at.
UpdateUnchecked(p) ==
    LET call == tool[p] IN
    /\ call.at = "update"
    /\ Answer(p, call.ip, call.fd)
    /\ RawBpfMapUpdate(call.fd, call.ip) \/ UNCHANGED blacklist
    /\ UNCHANGED <<libbpf, xdp, pin, rules, loader, objects, owner, retired, crossed, left>>

\* Any failure of the update leads to iptables.
Update(p) ==
    LET call == tool[p] IN
    /\ call.at = "update"
    /\ \/ RawBpfMapUpdate(call.fd, call.ip) /\ Answer(p, call.ip, call.fd)
       \/ /\ tool' = [tool EXCEPT ![p] = [at |-> "iptables", ip |-> call.ip, fd |-> None]]
          /\ UNCHANGED <<blacklist, answers, calls>>
    /\ UNCHANGED <<libbpf, xdp, pin, rules, loader, objects, owner, retired, crossed, left>>

\* The rule is appended, or the call fails.
Iptables(p) ==
    /\ tool[p].at = "iptables"
    /\ \/ IptablesBlock(tool[p].ip) /\ Answer(p, tool[p].ip, None)
       \/ /\ tool' = [tool EXCEPT ![p] = NoCall] /\ calls' = calls + 1
          /\ UNCHANGED <<rules, answers>>
    /\ UNCHANGED <<libbpf, xdp, pin, blacklist, loader, objects, owner, retired, crossed, left>>
-----------------------------------------------------------------------------
\* The probe dies and is started anew: what it held in memory is gone.
Crash(p) ==
    /\ obj[p] # None \/ tool[p] # NoCall
    /\ at' = [at EXCEPT ![p] = "idle"]
    /\ obj' = [obj EXCEPT ![p] = None]
    /\ loaded' = [loaded EXCEPT ![p] = FALSE]
    /\ ifindex' = [ifindex EXCEPT ![p] = FALSE]
    /\ tool' = [tool EXCEPT ![p] = NoCall]
    /\ owner' = [o \in Objects |-> IF owner[o] = p THEN Nobody ELSE owner[o]]
    /\ UNCHANGED <<libbpf, kernel, answers, calls, objects, retired, crossed, left>>

Load(p) ==
    \/ NotOpened(p) \/ LoadObject(p) \/ Attach(p) \/ FindMap(p) \/ UnlinkStale(p)
    \/ PinMap(p) \/ Undo(p)
Unload(p) == Detach(p) \/ Unlink(p) \/ UnloadNothing(p) \/ CloseObject(p)
Block(p) == (\E ip \in IPs : OpenPin(p, ip)) \/ Update(p) \/ Iptables(p)

Frames == [ipv4 : BOOLEAN, whole : BOOLEAN, src : IPs]

Next ==
    \/ \E frame \in Frames : Arrive(frame)
    \/ \E p \in Probes : Load(p) \/ Unload(p) \/ Block(p) \/ Crash(p)

Spec == Init /\ [][Next]_vars
-----------------------------------------------------------------------------
\* The hosts whose whole IPv4 frames do not get in.
Blocked ==
    LET whole(ip) == [ipv4 |-> TRUE, whole |-> TRUE, src |-> ip]
    IN  rules \cup {ip \in IPs : xdp # None /\ XdpFirewall(blacklist[xdp], whole(ip)) = "drop"}

\* The type invariant.
TypeOK ==
    /\ libbpf \in BOOLEAN
    /\ xdp \in {None} \cup 1..objects /\ pin \in {None} \cup 1..objects
    /\ blacklist \in [Objects -> [IPs -> 0..COUNTER]] /\ rules \subseteq IPs
    /\ at \in [Probes -> Steps] /\ obj \in [Probes -> {None} \cup 1..objects]
    /\ loaded \in [Probes -> BOOLEAN] /\ ifindex \in [Probes -> BOOLEAN]
    /\ tool \in [Probes -> [at : {"idle", "update", "iptables"}, ip : IPs \cup {Nobody},
                            fd : {None} \cup 1..objects]]
    /\ \A p \in Probes : /\ tool[p].at # "idle" => tool[p].ip \in IPs
                         /\ tool[p].at = "update" => tool[p].fd # None
    /\ objects \in 0..MaxObjects /\ owner \in [Objects -> {Nobody} \cup Probes]
    /\ answers \subseteq [ip : IPs, list : {None} \cup 1..objects]
    /\ calls \in Nat
    /\ retired \subseteq 1..objects /\ crossed \subseteq 1..objects
    /\ undetached \subseteq 1..objects /\ unremoved \subseteq 1..objects

\* is_loaded() can be believed: the filter attached is one this probe attached,
\* and the pinned blacklist is that filter's, whatever other probes do; only the
\* unlink of a probe that is unloading meanwhile may have taken the pin away, and
\* then the tools fall back to iptables.
LoadedEnforces ==
    \A p \in Probes :
        (loaded[p] /\ at[p] # "unlink") =>
            /\ xdp # None /\ owner[xdp] = p
            /\ pin = xdp \/ (pin = None /\ xdp \in crossed)

\* What an idle loader that is not loaded has left in the kernel is there because
\* the call that should remove it failed, or was not made for want of an interface
\* index: however its load failed and whatever it was interleaved with, a loader
\* tries to take back what it attached and pinned. Only a crash leaves more.
NothingLeftBehind ==
    \A p \in Probes :
        (~ loaded[p] /\ at[p] = "idle") =>
            /\ (xdp # None /\ owner[xdp] = p) => xdp \in undetached
            /\ (pin # None /\ owner[pin] = p) => pin \in unremoved

\* A host reported as blocked is: by a rule, or by the list of the attached
\* filter. Only an unload ends that, and with it the blocks of its list. In the
\* interval between its detach and its unlink, or after a crash there, the tool
\* still reports blocks in the list of the detached filter.
ReportedBlock ==
    \A a \in answers :
        \/ a.ip \in rules
        \/ /\ a.list # None /\ blacklist[a.list][a.ip] # Absent
           /\ a.list = xdp \/ a.list \in retired

\* A host that is kept out stays out: through crashes, failed loads of other
\* probes and the wrap of its counter, until a filter is detached by its unload.
BlockedStaysBlocked ==
    [][Blocked \subseteq Blocked' \/ (\E p \in Probes : Detach(p))]_vars
=============================================================================
