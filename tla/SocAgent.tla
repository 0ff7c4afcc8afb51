------------------------------- MODULE SocAgent -------------------------------
(***************************************************************************)
(* The closed loop of scripts/multi_agent_soc.py and the probe: alerts go  *)
(* up the probe's stdout pipe to the pump thread, which runs the whole     *)
(* investigation itself; the investigation calls tools of the probe over   *)
(* HTTP; a tool that logs needs the same stdout. The main thread waits for *)
(* the first closed case and terminates the probe.                         *)
(***************************************************************************)
EXTENDS AlertDedup, Sequences, FiniteSets

CONSTANTS
    IPs,        \* the hosts
    Stdins,     \* what the probe reads from stdin: "silent", an open pipe that
                \* nobody writes, as multi_agent_soc.py opens it; "eof", as the
                \* system test doc/test_log/run_attack_test.py opens it
    Shards,     \* how many reactors execute tools
    PIPE,       \* lines the stdout pipe holds (64 KiB in the kernel)
    EPOCH,      \* time.time() at start: far beyond one window
    MaxAlerts,  \* bound: alerts the data plane raises
    MaxCalls,   \* bound: tool calls the agent makes
    Instants    \* bound: the seconds at which something happens

None == "none"

\* A tool call of the agent; the result of one; no call.
Request == [id : Nat \ {0}, tool : {"inspect", "block"}, ip : IPs]
Result  == [id : Nat \ {0}, tool : {"inspect", "block"}, ip : IPs, ok : BOOLEAN]
NoCall  == [id |-> 0, tool |-> None, ip |-> None]

ASSUME SocAgentAssumption ==
    /\ None \notin IPs
    /\ PIPE \in Nat \ {0}
    /\ Stdins \subseteq {"silent", "eof"}
    /\ Shards \in Nat \ {0}
    /\ EPOCH \in Nat /\ EPOCH >= WINDOW
    /\ MaxAlerts \in Nat /\ MaxCalls \in Nat
    /\ Instants \subseteq Nat

VARIABLES
    \* the probe
    probe,      \* "running", "stopping" after SIGTERM, "stopped"
    stdin,      \* see Stdins
    writing,    \* the host of the notification the data plane is writing, or None
    pipe,       \* the notifications in the pipe, oldest first
    requests,   \* the HTTP requests not yet taken up
    executing,  \* the requests whose tools reactors execute, one each
    results,    \* the results of tools that have run, not yet sent
    blocked,    \* the hosts blocked in the kernel
    \* the agent
    main,       \* the main thread: "connecting", "setup", "waiting", "exited"
    listening,  \* alert_callback is set
    pump,       \* the pump thread: "reading", "investigator", "commander", "dead"
    case,       \* the host under investigation, or None
    request_id, \* ids given to requests so far
    call,       \* the request the pump waits for, or NoCall
    answers,    \* the HTTP answers on their way
    seen,       \* AlertDedup._seen
    now,        \* time.time()
    \* history
    raised,     \* how many alerts the data plane raised
    started,    \* the investigations, oldest first
    told,       \* the hosts whose block was reported to the agent
    gaveUp      \* the hosts of the blocks it gave up or ended waiting for

probeVars == <<probe, stdin, writing, pipe, requests, executing, results, blocked, raised>>
agentVars == <<main, listening, pump, case, request_id, call, answers, seen, started, told, gaveUp>>
vars == <<probeVars, agentVars, now>>

Init ==
    /\ probe = "running" /\ stdin \in Stdins /\ writing = None /\ pipe = <<>>
    /\ requests = {} /\ executing = {} /\ results = {} /\ blocked = {}
    /\ main = "connecting" /\ listening = FALSE
    /\ pump = "reading" /\ case = None /\ request_id = 0 /\ call = NoCall /\ answers = {}
    /\ seen = [h \in {} |-> 0]
    /\ now = EPOCH
    /\ raised = 0
    /\ started = <<>> /\ told = {} /\ gaveUp = {}
-----------------------------------------------------------------------------
(* The probe.                                                              *)

ProbeRuns == probe # "stopped"

\* The StdIO fiber starts inside McpServer::start and sits in std::getline on
\* the thread of shard 0's reactor, which accepts for all shards: until stdin
\* ends the probe neither serves nor handles SIGTERM nor starts its data plane.
Serving == ProbeRuns /\ stdin = "eof"

\* The data plane raises an alert: it is now inside write_mcp_message, with
\* cout_mtx and, while it flushes, the lock of the stdout FILE.
RaiseAlert(ip) ==
    /\ Serving /\ writing = None /\ raised < MaxAlerts
    /\ writing' = ip
    /\ raised' = raised + 1
    /\ UNCHANGED <<probe, stdin, pipe, requests, executing, results, blocked, agentVars, now>>

\* The flush returns once the pipe has room for the line, or nobody reads it.
WriteLine ==
    /\ ProbeRuns /\ writing # None
    /\ \/ Len(pipe) < PIPE /\ pipe' = Append(pipe, writing)
       \/ main = "exited" /\ UNCHANGED pipe
    /\ writing' = None
    /\ UNCHANGED <<probe, stdin, requests, executing, results, blocked, raised, agentVars, now>>

StdoutStuck == writing # None /\ Len(pipe) = PIPE /\ main # "exited"

\* The HTTP server hands a request to its tool, which holds its reactor.
Accept(r) ==
    /\ Serving /\ r \in requests /\ Cardinality(executing) < Shards
    /\ executing' = executing \cup {r}
    /\ requests' = requests \ {r}
    /\ UNCHANGED <<probe, stdin, writing, pipe, results, blocked, raised, agentVars, now>>

\* The result of request r.
Finished(r, ok) == [id |-> r.id, tool |-> r.tool, ip |-> r.ip, ok |-> ok]

\* NetTools and OSTools answer from /proc and change nothing.
RunInspect(r) ==
    /\ ProbeRuns /\ r \in executing /\ r.tool = "inspect"
    /\ executing' = executing \ {r}
    /\ results' = results \cup {Finished(r, TRUE)}
    /\ UNCHANGED <<probe, stdin, writing, pipe, requests, blocked, raised, agentVars, now>>

\* SecTools logs to std::cout first, which waits for the lock of the stdout
\* FILE; the block then succeeds, by map or by iptables, or fails.
RunBlock(r) ==
    /\ ProbeRuns /\ r \in executing /\ r.tool = "block" /\ ~ StdoutStuck
    /\ executing' = executing \ {r}
    /\ \E ok \in BOOLEAN :
          /\ blocked' = IF ok THEN blocked \cup {r.ip} ELSE blocked
          /\ results' = results \cup {Finished(r, ok)}
    /\ UNCHANGED <<probe, stdin, writing, pipe, requests, raised, agentVars, now>>

\* Seeded fault for AnswerTo: the calls share a connection and nobody compares
\* the ids, so a late answer is taken for that of the call now made.
AnswerToAny(a) == IF call # NoCall THEN {[a EXCEPT !.id = call.id]} ELSE answers

\* Every call has a connection of its own: the answer to a caller that has given
\* up goes nowhere.
AnswerTo(a) == IF a.id = call.id THEN {a} ELSE answers

\* Seeded fault for SendAnswer: the handler ends only when its caller takes the
\* answer.
SendAnswerHeld(a) ==
    /\ ProbeRuns /\ a \in results /\ a.id = call.id
    /\ results' = results \ {a}
    /\ answers' = AnswerTo(a)
    /\ UNCHANGED <<probe, stdin, writing, pipe, requests, executing, blocked, raised, main,
                   listening, pump, case, request_id, call, seen, started, told, gaveUp, now>>

\* The HTTP server sends a result, and the handler ends, whoever reads it.
SendAnswer(a) ==
    /\ ProbeRuns /\ a \in results
    /\ results' = results \ {a}
    /\ answers' = AnswerTo(a)
    /\ UNCHANGED <<probe, stdin, writing, pipe, requests, executing, blocked, raised, main,
                   listening, pump, case, request_id, call, seen, started, told, gaveUp, now>>

\* The reactors notice SIGTERM between two tools; the HTTP server stops when its
\* handlers have ended.
StopProbe ==
    /\ probe = "stopping" /\ Serving /\ executing = {} /\ results = {}
    /\ probe' = "stopped"
    /\ writing' = None /\ requests' = {}
    /\ UNCHANGED <<stdin, pipe, executing, results, blocked, raised, agentVars, now>>

\* The probe dies of itself; the agent is not told.
Crash ==
    /\ ProbeRuns
    /\ probe' = "stopped"
    /\ writing' = None /\ requests' = {} /\ executing' = {} /\ results' = {}
    /\ UNCHANGED <<stdin, pipe, blocked, raised, agentVars, now>>
-----------------------------------------------------------------------------
(* The agent.                                                              *)

PumpRuns == main # "exited"

\* The host whose block the pump waits for.
AwaitedBlock == IF call.tool = "block" THEN {call.ip} ELSE {}

\* Up to ten requests of one second look for the probe; the agent then says
\* that it is connected, whatever came of them.
Connect ==
    /\ main = "connecting"
    /\ main' = "setup"
    /\ UNCHANGED <<probeVars, listening, pump, case, request_id, call, answers, seen, started,
                   told, gaveUp, now>>

\* setup_rag returned and run_soc_workflow installs the callback.
Listen ==
    /\ main = "setup"
    /\ main' = "waiting"
    /\ listening' = TRUE
    /\ UNCHANGED <<probeVars, pump, case, request_id, call, answers, seen, started, told,
                   gaveUp, now>>

\* The agent ends: its memory goes, its pump, a daemon thread, goes with it, and
\* its ends of the pipes are closed.
AgentEnds ==
    /\ main' = "exited" /\ listening' = FALSE
    /\ pump' = "dead" /\ case' = None /\ call' = NoCall /\ answers' = {}
    /\ seen' = [h \in {} |-> 0]
    /\ gaveUp' = gaveUp \cup AwaitedBlock
    /\ stdin' = "eof" /\ pipe' = <<>>

\* setup_rag fails: sys.exit, and nobody terminates the probe.
SetupFails ==
    /\ main = "setup"
    /\ AgentEnds
    /\ UNCHANGED <<probe, writing, requests, executing, results, blocked, raised, request_id,
                   started, told, now>>

\* The pump takes a notification; without a callback it is dropped.
Drop ==
    /\ PumpRuns /\ pump = "reading" /\ pipe # <<>> /\ ~ listening
    /\ pipe' = Tail(pipe)
    /\ UNCHANGED <<probe, stdin, writing, requests, executing, results, blocked, raised,
                   agentVars, now>>

\* readline returns "" once the probe is gone and the pipe empty: the loop ends.
EndOfFile ==
    /\ PumpRuns /\ pump = "reading" /\ pipe = <<>> /\ probe = "stopped"
    /\ pump' = "dead"
    /\ UNCHANGED <<probeVars, main, listening, case, request_id, call, answers, seen, started,
                   told, gaveUp, now>>

Suppress ==
    /\ PumpRuns /\ pump = "reading" /\ pipe # <<>> /\ listening
    /\ ~ ShouldProcess(seen, Head(pipe), now)
    /\ pipe' = Tail(pipe)
    /\ UNCHANGED <<probe, stdin, writing, requests, executing, results, blocked, raised,
                   agentVars, now>>

\* The host is entered before its investigation runs, in the pump thread.
Investigate ==
    /\ PumpRuns /\ pump = "reading" /\ pipe # <<>> /\ listening
    /\ ShouldProcess(seen, Head(pipe), now)
    /\ pipe' = Tail(pipe)
    /\ seen' = SeenAfter(seen, Head(pipe), now)
    /\ pump' = "investigator"
    /\ case' = Head(pipe)
    /\ started' = Append(started, [ip |-> Head(pipe), at |-> now])
    /\ UNCHANGED <<probe, stdin, writing, requests, executing, results, blocked, raised, main,
                   listening, request_id, call, answers, told, gaveUp, now>>

\* A node's model calls a tool: the investigator inspects, the commander may
\* block any host it names.
CallTool(tool, ip) ==
    LET request == [id |-> request_id + 1, tool |-> tool, ip |-> ip]
    IN  /\ PumpRuns /\ call = NoCall /\ request_id < MaxCalls
        /\ \/ pump = "investigator" /\ tool = "inspect" /\ ip = case
           \/ pump = "commander" /\ tool = "block"
        /\ request_id' = request_id + 1
        /\ call' = request
        /\ requests' = IF ProbeRuns THEN requests \cup {request} ELSE requests
        /\ UNCHANGED <<probe, stdin, writing, pipe, executing, results, blocked, raised, main,
                       listening, pump, case, answers, seen, started, told, gaveUp, now>>

\* requests.post returns the answer.
Receive(a) ==
    /\ PumpRuns /\ call # NoCall /\ a \in answers /\ a.id = call.id
    /\ call' = NoCall
    /\ answers' = answers \ {a}
    /\ told' = told \cup (IF a.ok THEN AwaitedBlock ELSE {})
    /\ UNCHANGED <<probeVars, main, listening, pump, case, request_id, seen, started, gaveUp,
                   now>>

\* Seeded fault for GiveUp: requests.post has no timeout.
GiveUpNever == FALSE /\ UNCHANGED vars

\* requests.post gives up, after 30 s or because the connection failed. The
\* request itself is not withdrawn: the probe may still execute it.
GiveUp ==
    /\ PumpRuns /\ call # NoCall
    /\ call' = NoCall /\ answers' = {}
    /\ gaveUp' = gaveUp \cup AwaitedBlock
    /\ UNCHANGED <<probeVars, main, listening, pump, case, request_id, seen, started, told,
                   now>>

\* investigator_node returned its report.
Report ==
    /\ PumpRuns /\ pump = "investigator" /\ call = NoCall
    /\ pump' = "commander"
    /\ UNCHANGED <<probeVars, main, listening, case, request_id, call, answers, seen, started,
                   told, gaveUp, now>>

\* commander_node returned; the pump goes back to its loop, while done_event.set
\* wakes the main thread, which may leave its wait at any time.
Close ==
    /\ PumpRuns /\ pump = "commander" /\ call = NoCall
    /\ pump' = "reading"
    /\ case' = None
    /\ UNCHANGED <<probeVars, main, listening, request_id, call, answers, seen, started, told,
                   gaveUp, now>>

\* A node raises: only a JSONDecodeError is caught by the pump's loop, which
\* then goes on; any other exception ends the thread.
Fail ==
    /\ PumpRuns /\ pump \in {"investigator", "commander"} /\ call = NoCall
    /\ pump' \in {"reading", "dead"}
    /\ case' = None
    /\ UNCHANGED <<probeVars, main, listening, request_id, call, answers, seen, started, told,
                   gaveUp, now>>

\* done_event.wait returns, because a case was closed or after 300 s, whatever
\* is still in the pipe; finally the probe is terminated.
Exit ==
    /\ main = "waiting"
    /\ AgentEnds
    /\ probe' = IF probe = "running" THEN "stopping" ELSE probe
    /\ UNCHANGED <<writing, requests, executing, results, blocked, raised, request_id, started,
                   told, now>>

\* time.time() moves on. It is looked at when an alert is read, so the time an
\* investigation takes passes before the next read.
Tick ==
    /\ PumpRuns /\ pump = "reading"
    /\ now' \in {t \in Instants : t > now}
    /\ UNCHANGED <<probeVars, agentVars>>

Probe ==
    \/ WriteLine \/ StopProbe
    \/ \E r \in requests : Accept(r)
    \/ \E r \in executing : RunInspect(r) \/ RunBlock(r)
    \/ \E a \in results : SendAnswer(a)
Reading == Drop \/ EndOfFile \/ Suppress \/ Investigate
Node ==
    \/ Report \/ Close \/ Fail
    \/ \E tool \in {"inspect", "block"}, ip \in IPs : CallTool(tool, ip)

Next ==
    \/ \E ip \in IPs : RaiseAlert(ip)
    \/ Probe \/ Crash \/ Connect \/ Listen \/ SetupFails \/ Reading \/ Node
    \/ (\E a \in answers : Receive(a)) \/ GiveUp \/ Exit \/ Tick

\* The threads keep running: the probe's reactor and writer, the pump, a node
\* (whose model makes finitely many calls), and the clock of requests.post.
Fairness ==
    /\ WF_vars(WriteLine) /\ WF_vars(Probe)
    /\ WF_vars(Reading) /\ WF_vars(Node) /\ WF_vars(GiveUp)

Spec == Init /\ [][Next]_vars /\ Fairness
-----------------------------------------------------------------------------
\* The type invariant of the loop.
TypeOK ==
    /\ probe \in {"running", "stopping", "stopped"}
    /\ writing \in IPs \cup {None}
    /\ pipe \in Seq(IPs) /\ Len(pipe) <= PIPE
    /\ requests \subseteq Request
    /\ stdin \in {"silent", "eof"}
    /\ executing \subseteq Request /\ results \subseteq Result
    /\ blocked \subseteq IPs
    /\ main \in {"connecting", "setup", "waiting", "exited"} /\ listening \in BOOLEAN
    /\ pump \in {"reading", "investigator", "commander", "dead"}
    /\ case \in IPs \cup {None} /\ request_id \in Nat
    /\ call \in Request \cup {NoCall} /\ answers \subseteq Result
    /\ DOMAIN seen \subseteq IPs /\ \A h \in DOMAIN seen : seen[h] \in EPOCH..now
    /\ now \in Nat /\ now >= EPOCH /\ raised \in Nat
    /\ started \in Seq([ip : IPs, at : Nat])
    /\ told \subseteq IPs /\ gaveUp \subseteq IPs

\* AlertDedup's promise: two investigations of one host begin at least WINDOW
\* apart, however alerts, investigations and the clean-up of _seen interleave.
DedupWindow ==
    \A i, j \in DOMAIN started :
        (i < j /\ started[i].ip = started[j].ip) => started[j].at - started[i].at >= WINDOW

\* An alert is refused only because its host really was investigated less than
\* WINDOW ago: a forgotten or never seen host is never refused.
SuppressedWasStarted ==
    [][Suppress => \E j \in DOMAIN started :
          /\ started[j].ip = Head(pipe)
          /\ now - started[j].at \in 0..(WINDOW - 1)]_vars

\* The agent's picture of the kernel is off only by the blocks it gave up on: a
\* block it was told of was made, and a host that is blocked is one it was told
\* of, one whose block it gave up on (executed late, perhaps for a case that was
\* reported as failed), or the one it waits for.
BlocksKnown ==
    /\ told \subseteq blocked
    /\ blocked \subseteq told \cup gaveUp \cup AwaitedBlock

\* An investigation ends although its tool calls may wait for a probe that
\* waits for the pump: the timeout breaks the circle.
InvestigationEnds == (case # None) ~> (case = None)

\* The data plane gets out of a full pipe, unless the pump has died.
DataPlaneUnblocks == (writing # None) ~> (writing = None \/ pump = "dead")

\* A probe told to stop comes to its end, although a tool that was called late
\* may wait for the data plane, and the data plane for an agent that has left
\* alerts in the pipe.
ProbeStops == (probe = "stopping") ~> (probe = "stopped")

\* What multi_agent_soc.py:89 announces, that the agent is connected to the
\* probe, is said of a probe that serves requests.
ConnectedToServing == [][Connect => Serving]_vars
=============================================================================
