# Aegis-Agent: verification project

Aegis-Agent is a host intrusion-response system. A C++ *probe* captures TCP
frames, reassembles them into payloads, scores each payload with a model and
writes an alert to its standard output; it also is an MCP server whose tools
inspect the host and block addresses. A Python *agent* starts the probe, reads
its alerts from the pipe, and lets two language-model nodes investigate each
one and call the probe's tools over HTTP. The modules here are translated from
that source; the paths below are relative to the repository.

## 1. Inventory

| Component (code) | State it keeps | Operations | Hard behaviour | Correct when |
|---|---|---|---|---|
| Flow tracker (`src/capture/flow_tracker.*`) | `active_flows_`: per key a buffer and a time | `process_packet`, `cleanup_stale` | long sequences of frames of several keys; the 512-byte and 60-s boundaries | no frame lost, duplicated or reordered; exactly the stale flows go |
| Inference engine (`src/inference/onnx_engine.*`) | `model_loaded_` | `tokenize`; `infer`: model, else heuristic | model missing, throwing, NaN; a window of 512 bytes for 512 tokens of which two are special | every payload is scored, signatures still alert; a payload fills the input and no more |
| Capture and data plane loop (`src/capture/pcap_sniffer.hpp`, `src/main.cpp`) | packet counter, the capture | one callback per frame | capture fails to open; cleanup cadence | an alert names the host whose bytes raised it |
| Standard output channel (`main.cpp`, `stdio_transport.hh`, `sec_tools.cpp`, `onnx_engine.cpp`, the pump of `multi_agent_soc.py`) | `std::cout`, `cout_mtx`, the pipe; what the pump does | write, flush, read a line, run an alert's callback | several threads, only some take the mutex; buffering; nothing is read during an investigation, and the pump can die | alerts whole, in order, visible at once, read while the pump lives |
| Deduplication (`scripts/multi_agent_soc.py`, `AlertDedup`) | `_seen` | `should_process` | clean-up of old entries; clock | investigations of a host are a window apart |
| Agent loop (`multi_agent_soc.py`) | pump thread, case, call in flight, `done_event` | read, investigate, call a tool, give up, close, exit | pump, reactor and data plane wait on each other; late answers; blocks executed after the case; crash of either side | the agent knows of every block but those it gave up on; every investigation ends, data plane not stuck, a probe told to stop stops |
| Model nodes and retrieval (`multi_agent_soc.py`) | none of their own | investigator, commander, `setup_rag` | they raise | as steps of the loop |
| MCP shards and HTTP/SSE transport (`third_party/MCP-Server/include/mcp/server`, `.../transport`) | per core: sessions, queues, subscriptions, current session | open a stream, post, dispatch, push, broadcast, stop | state per core, messages between cores, a session before and after its stream, slow and vanished clients, stop order | answers and updates reach their own session once; stop ends |
| Requests to clients (`mcp_shard.hh`) | per core: counter, pending promises | send, answer, stop | answers on another core, retries, queue overrun | each call gets its own answer, once |
| Dispatcher and registry (`router/dispatcher.hh`, `core/registry.hh`) | none per request | single request, batch, notification | suspension between elements of a batch | (with the shards) |
| StdIO transport (`stdio_transport.hh`) | a fiber | read a line, dispatch, write | blocking read on a reactor | does not stop the shard |
| Block path (`sec_tools.*`, `src/ebpf`) | `bpf_obj_`, `loaded_`; in the kernel the attached filter, its blacklist, the pin, iptables rules | load, unload, destructor; block: pin, update, fallback; the filter itself | each step can fail, the steps back included; a crash between two of them; an old and a new probe on one interface; runs after the caller gave up | a reported block is real and stays; a failed load takes back what it can; a loaded loader enforces |
| Host tools (`net_tools.*`, `os_tools.*`) | none | `get_pid_by_connection`, `analyze_process_behavior` | block the reactor; processes and sockets change between the steps of a search | the holder of a connection is found |
| Streamable HTTP transport, alert queue, capture tokenizer, WAF proxy, command-line agent, builder, tests and demos, ET-BERT | - | - | - | not modelled, see section 7 |

How they interact:

```
 frames -> [data plane thread: FlowTracker -> ONNXEngine -> notification]
                                   | std::cout, shared with the reactors
                                   v
                              stdout pipe -> [pump thread: dedup -> investigator -> commander]
                                                     | requests.post, 30 s
   tools <- dispatch <- HTTP/SSE transport on the shards
     |
     +-> pinned blacklist <- [XdpLoader: attach, pin] -> filter at the interface
     +-> iptables         +-> /proc
```

The pump thread is the only reader of the pipe *and* the thread that
investigates; a tool that logs needs the same stream the data plane writes.
`PROJECT.json` lists each hazard at its line with the properties that cover it.

## 2. Modules

| Module | Models | One action is |
|---|---|---|
| `FlowTracker`, `OnnxEngine` | operators of the tracker and the engine | (operators) |
| `Segmenter` | what the tracker promises, without table, limit or clock: each flow cut into the shortest windows | one arrival |
| `DataPlane` | the data plane thread, composed of the two | one captured frame with everything the callback does (`Callback`), the start-up, a second passing |
| `Stdout` | the shared output stream, insertion by insertion, and the pump's reading | one insertion, lock, unlock, flush, or one line read |
| `AlertDedup` | operators of the deduplication | (operators) |
| `SocAgent` | probe and agent as a closed loop | a step of the pump, of a node, of a reactor, of the data plane's write, of the main thread, a crash |
| `SseQueue` | `seastar::queue` as `push_eventually` and `pop_eventually` use it | (operators) |
| `McpShard` | shards, sessions, streams, dispatch, subscriptions, cross-core messages, stop | one task of a reactor between two suspensions |
| `ClientRpc` | `send_request_to_client`, `handle_client_response` and stop | one task of a reactor, or a client's post |
| `BlockPath` | the filter, the loaders and the block tools of several probes around one interface, one pin and iptables | one call into the kernel |
| `HostTools` | the two lookups against processes and sockets that change | reading the table, one process of the search, a change of the host |
| `DataPlaneProofs`, `DataPlaneRefinement`, `StdoutProofs`, `SocAgentProofs`, `McpShardProofs`, `ClientRpcProofs`, `BlockPathProofs` | theorems about the module they are named after | - |
| `SseQueueProofs` | lemmas about the operators of `SseQueue`, for the two modules that use it | - |
| `MC...` | instances for TLC | - |

Correspondence worth knowing before reading the code beside them:

* `DataPlane`. A frame is named by its capture number, so a buffer is a
  sequence of numbers with its size in bytes beside it: the properties speak of
  which bytes are where, not of byte values. `FlowKey` keeps the zeros of the
  fields the callback does not fill. `captured`, `payloads`, `evicted` and
  `cleaned_at` are history.
* `DataPlane` implements `Segmenter` by the mapping `Segments` at its end: the
  flow of a key that is not in the table is empty, a payload is a window, a
  discarded frame is one of an evicted flow. `READY` and the lengths are shared,
  `MAX_FLOW_BUFFER` and the clock are not in `Segmenter`: the refinement says
  that neither of them can be seen from outside, but for which idle flows a
  cleanup gives up.
* `Tokenize` keeps which byte stands where and the three special tokens; a byte's
  number in the vocabulary is `ByteToken`.
* `Stdout`. A statement on `std::cout` is several insertions, each atomic
  (the C++ library guarantees no more, and on a synchronised stream the lock
  is taken per insertion). `BUFFER` insertions fill the stdio buffer. A line
  parses if it is the text of exactly one JSON message.
* The pump of `Stdout` runs an alert's callback inside its loop, so it reads
  nothing in state `"callback"`; an exception the loop does not catch and the end
  of the agent make it `"dead"` for good. What the callback does, and a pipe that
  fills meanwhile, are in `SocAgent`.
* `SocAgent`. `stdin` is chosen once: `"silent"` is the pipe that
  `multi_agent_soc.py:59` opens and never writes, `"eof"` the `DEVNULL` of
  `doc/test_log/run_attack_test.py:33`. With a silent stdin the StdIO fiber
  holds shard 0 in `std::getline` (`Serving` is false) until the agent exits.
  A tool's call is three steps of the probe: the request is taken up (`Accept`),
  the tool runs and leaves a result (`RunInspect`, `RunBlock`), the result is sent
  (`SendAnswer`); the probe can die and the caller give up between any two. Each
  call has a connection and a `request_id` of its own, so that the answer to a
  caller that gave up goes nowhere. `GiveUp` is the 30-s timeout and also a
  refused connection; it does not withdraw the request. `StdoutStuck` is a flush
  that waits for a full pipe while it holds the lock of the stdout FILE.
  `told` and `gaveUp` are history: the hosts whose block the agent got reported,
  and those of the blocks it stopped waiting for. `done_event` has no variable:
  the main thread waits for it 300 s at most, which is shorter than
  investigations can take, so `Exit` may come at any time after `Listen`.
  `AgentEnds` takes the agent's memory and its pump with it. The clock is read
  with each alert, so `Tick` is a step of a pump that reads.
* `SseQueue`. A full queue holds one waiting push; the next push that has to
  wait replaces it and its message is lost, because the callers discard the
  future. The queue type is Seastar's, so these operators are marked external,
  modelled after its header as the transports use it.
* `McpShard`. `current` is `_current_session_id`; a batch that suspends goes on
  with whatever session the shard dispatched meanwhile. A `GET /sse` is two
  tasks: its handler creates and registers the session (`CreateSession`), the
  body writer starts its stream later (`StartStream`). Between them the session
  is `opening`: updates and answers can be pushed to it and it can be counted at
  stop, but it has no stream. A reply that is never written (`ReplyLost`) leaves
  it registered until the shard stops. `queue` keeps a session after its removal,
  so that nothing is lost from the record. A message may be posted with the id of
  any session, of one that ended, with none, or with `Unknown`, which stands for
  an id that no session has; a malformed one is among these, since `_parse_shard`
  makes it shard 0. Left out are a shard number out of range, on which
  `invoke_on` fails, and the id of a session whose stream has not told it to its
  client yet.
* `ClientRpc` reuses `SseQueue`. A session is `open` from the start of its stream
  to its end: only then is there a client that could be asked and could answer. A
  write to a client that is gone first pops its message, which grants the push
  that waits. A call is made on its session's core, which `mcp_server.hh:54`
  requires of the caller.

* `BlockPath`. `at` is the place of a loader between two calls into the kernel;
  every call may fail as the code expects it to (`bpf_xdp_attach` with
  `XDP_FLAGS_UPDATE_IF_NOEXIST` fails exactly when something is attached, which
  the flag is for, or for any other reason), and so may those whose result the
  code ignores: `bpf_xdp_detach` (`xdp_loader.cpp:67`, `:74`, `:93`) and `unlink`
  (`:71`, `:94`). A detach that failed leaves the filter at the interface with
  its list, after a failed load as after an unload that then says it is not
  loaded; `undetached` and `unremoved` record what such calls left. A filter
  attached over netlink, a pin and a rule outlive the process; a descriptor does
  not (`Crash`). `load` sets the interface index first (`ifindex`, here whether
  it is found) and replaces the object before the kernel accepts it: a second
  load that fails early can make a loaded loader's unload do nothing
  (`UnloadNothing`). Whether `AEGIS_LIBBPF_AVAILABLE` is defined is chosen at the
  start: `CMakeLists.txt` never defines it, `xdp_loader.hpp:11` and
  `doc/deployment/build.md:116` say it is set when libbpf is found. Nothing in
  the repository constructs an `XdpLoader`, so whoever owns one is external and
  taken to call `unload` only on a loader that is loaded, as the destructor does.
  There is one interface, as the pin is one. A blacklist entry is a count modulo
  `COUNTER`, `Absent` is no entry.
* `HostTools`. A row of `/proc/net/tcp` has the words that the kernel prints;
  `Target` takes the one that the code takes. The code searches the whole line
  for the port, so that a row whose receive queue or timer spells it matches as
  well: `ReadTable` chooses the rows that do. The kernel's side and the processes
  are external. Only the port is compared: the argument `ip` is not used.

Definitions named "seeded fault" are the wrong versions the properties are
tried against; nothing else uses them.

## 3. Runs

| Run | Question | Result |
|---|---|---|
| `data_plane` | does the tracker keep every frame, in order, with its own flow; does it implement `Segmenter`; does an alert name its frames; is exactly the stale evicted; does a payload fill the network's input | holds |
| `cleanup_cadence` | is the cleanup run every so many packets, as `main.cpp:99` says | no: completed payloads are counted, because an incomplete flow returns before the counter |
| `stdout` | is an alert lost only to a crossing; visible, ordered; is each one read in the end while the pump lives | holds |
| `stdout_crossing` | does the mutex keep alerts and responses apart, as `main.cpp:24` says | no: only one of the writers takes it |
| `soc_agent` | dedup window, justified suppression; which blocks the agent does not know of; the circular wait always ends, and so does a stop | holds |
| `silent_stdin` | is the agent connected to a serving probe when it says so | no: a blocking read of a silent stdin holds shard 0, and the agent announces a connection after ten failures |
| `mcp_shard` | own answers, once; none lost on its way to a client that reads; a broadcast read once, wherever a session is subscribed; answers arrive; stop ends with busy streams | holds |
| `cross_core_updates` | does a broadcast reach the subscribers on all cores, as `advanced.md:27` says | no: a subscription posted on another core is stored where its session is not |
| `stop_with_idle_stream` | does stop end, as `mcp_shard.hh:67` intends | no: the transports wait for streams that only the shards' stop would wake |
| `client_rpc` | own answer, once; an answer at home is never in vain; stop ends the calls; requests are heard | holds |
| `block_path` | can `is_loaded()` be believed; does a loader leave in the kernel only what a failed call kept it from removing; is a reported block one; does a blocked host stay out | holds |
| `lookup_finds_owner` | is the only holder of a connection found, as `test_integration.py:151` asserts | no: the word after the inode, the socket's reference count, is taken for it |

The violations are findings in `PROJECT.json`, each with the quoted line. Other
disagreements met on the way are read off the code and have no run:

* A payload is not from one five-tuple, as `doc/architecture/data_plane.md:164`
  says: the callback leaves two fields of the key zero (`main.cpp:75`, `FlowKey`).
* The reactor is blocked by the tools, against `README.md:222`: the log line of
  `sec_tools.cpp:59` waits for a full pipe whose reader waits for the tool. The
  wait is in `SocAgent`, where `InvestigationEnds` shows that it always ends.
* The agent closes after the first closed case (`multi_agent_soc.py:401`, `:425`)
  although it prints that it goes on listening (`:383`).
* `README.md:265` lets the lookup compare address and port; it compares the port.

In `OwnAnswerOnce` the exception is part of the statement: request numbers are
counted per core and an answer is looked up on whatever core its connection
reached, so an answer posted on a foreign core can complete a call of another
session that has the same number there. The property says that this is the only
way to a wrong answer. `LostOnlyByCrossing`, `AnswerKept` and `AnswerArrives` are
written the same way: they name every way a message can be lost. So are:

* `EventuallyRead` of `Stdout` and `DataPlaneUnblocks` of `SocAgent`: an alert is
  read and the data plane gets on *while the pump lives*. It dies of an exception
  in a node that is not a `JSONDecodeError` (`multi_agent_soc.py:110`), and with
  the agent, which ends after its first closed case whatever is left in the pipe.
  That alerts are left unread then is what the code does; no property forbids it.
* `BlocksKnown`: the agent's picture of the kernel is right but for the blocks it
  gave up on. Those may be made late, for a case reported as failed, or not at all.
* `NothingLeftBehind`: what a loader that is not loaded has left in the kernel is
  there because a `bpf_xdp_detach` or an `unlink` failed, whose results the code
  ignores, because an unload had lost its interface index, or because its probe
  crashed. That such a filter is left without an owner, and keeps every later load
  from attaching, is reachable; the property says that nothing else leads there.
* `LoadedEnforces` lets the pin be gone if another probe's unload took it (its
  `unlink` removes whatever is pinned by then).
* `ReportedBlock` lets a reported host in once an unload has detached the filter
  of its list, which includes the calls answered between that detach and its
  `unlink`.

## 4. Bounds

* `data_plane`: five frames out of four kinds, two seconds, cleanup every second
  payload, timeout one second. The lengths are on the boundary (54 + 458 = 512,
  511, 600), two connections share a key, a third does not, so there are exact
  and overfull windows, interleaved keys, evictions with both outcomes of the
  comparison, scores at and above the threshold. A second window of a key needs
  four frames at most.
* `stdout`: three statements, a stdio buffer of three insertions, one reactor.
  Crossing takes two threads and two statements; a third checks what follows,
  and is the alert that waits while the callback of an earlier one runs; a small
  buffer checks automatic writing out in the middle of a statement.
* `soc_agent`: two hosts, three alerts, a pipe of one line, one reactor, two tool
  calls in all, instants 20, 21 and 31 with a window of one second: an alert at
  exactly the window, and one later than the ten windows after which `_seen`
  forgets. The circular wait needs one line in the pipe and one being written
  while a case is open: three alerts. A late block needs two calls: one the pump
  gave up on, one during which its answer comes.
* `mcp_shard`: two cores, one session each, two posts of a batch of two requests
  (unsubscribe, subscribe), one broadcast, a queue of one message. Two dispatches
  on one core interleave between the elements of a batch; two posts subscribe one
  session on both cores; two answers and an update overrun a queue of one.
* `client_rpc`: two cores, one session each, three calls, two posted answers.
  Three calls of one session overrun its queue; one call per core has the same
  number; the second answer is the retry or the foreign one.

* `block_path`: two probes, two hosts, both builds, two objects, two answered
  calls, a blacklist of one entry, a counter that wraps after two. Two probes
  are a handover, two objects of one probe a reload after a failed load, a crash or
  on top of a loaded object; the second host finds the list full, two drops wrap
  the counter. Probes are
  interchangeable and so are hosts (symmetry); no liveness is checked there.
* `lookup_finds_owner`: two processes, two ports, two sockets, three changes of
  the host; the counterexample needs one connection and one call.

`CHECK_DEADLOCK FALSE` where the bounded inputs run out or the system stops.

## 5. Fairness

`DataPlane`, `BlockPath` and `HostTools` have safety properties only: a load or a
lookup waits for nobody.

* `Stdout`: a thread that began a statement finishes it; a pump that is at
  `readline` gets the next whole line in the pipe; a callback ends, in one of its
  ways, because what it waits for ends: tool calls have a timeout of 30 s
  (`requests.post(..., timeout=30)`, checked in `SocAgent`) and the requests to
  the model return or raise. Nothing forces a statement to begin, the callback to
  return without an exception, or the agent to stay: `pump` may be `"dead"` at
  any time, and then reads nothing more.
* `SocAgent`: the threads of both processes are scheduled. A pump that reads
  takes a line; an answer or the timeout ends a call; a node ends after its calls,
  by returning or by an exception; tools run and results are sent; a probe told
  to stop does so once its handlers ended. Alerts, crashes, the end of the agent
  and the clock are never forced.
* `McpShard` and `ClientRpc`: the reactor runs every ready task (replies,
  dispatches, messages between cores, granted pushes, a stream with a message),
  and stop once what it waits for is done; a reply may end as a stream, as a
  failed write or as lost. Clients owe nothing, they may stop reading or leave at
  any time.

The exceptions this leaves are in the properties themselves.

## 6. Proofs

| Theorem | Statement |
|---|---|
| `DataPlaneProofs!TypeCorrect` | `Spec => []TypeOK` |
| `DataPlaneProofs!TableBounded` | `Spec => []BuffersBelowReady` |
| `DataPlaneProofs!PayloadsJustComplete` | `Spec => []PayloadJustComplete` |
| `DataPlaneProofs!DataPlaneSafety` | `Spec => []AlertNamesItsFrames` |
| `DataPlaneProofs!WindowsFillTheInput` | `READY = MAX_LEN` gives `Spec => []WindowFillsInput` |
| `DataPlaneProofs!CleanupIsExact` | `Spec => EvictsExactlyStale` |
| `DataPlaneRefinement!DataPlaneRefinesSegmenter` | `Spec => CutsShortestWindows`, that is `Segments!Spec` |
| `DataPlaneRefinement!NoFrameLost` | `Spec => []Conservation` |
| `DataPlaneRefinement!OrderKept` | `Spec => []ReassemblyInOrder` |
| `DataPlaneRefinement!SignaturesRaiseAlerts` | `Spec => []SignatureAlerted` |
| `StdoutProofs!TypeCorrect` | `Spec => []TypeOK` |
| `StdoutProofs!LossNeedsCrossing` | `Spec => []LostOnlyByCrossing` |
| `StdoutProofs!WrittenIsVisible` | `Spec => []DoneIsVisible` |
| `StdoutProofs!OrderKept` | `Spec => []ReceivedInOrder` |
| `SocAgentProofs!TypeCorrect` | `Spec => []TypeOK` |
| `SocAgentProofs!DedupWindowHolds` | `Spec => []DedupWindow` |
| `SocAgentProofs!RefusalsHaveCause` | `Spec => SuppressedWasStarted` |
| `SocAgentProofs!BlocksAreKnown` | `Spec => []BlocksKnown` |
| `McpShardProofs!TypeCorrect` | `Spec => []TypeOK` |
| `McpShardProofs!AnswersReadOnce` | `Spec => []OwnAnswersOnce` |
| `McpShardProofs!AnswersAreKept` | `Spec => []AnswerKept` |
| `McpShardProofs!UpdatesReadOnce` | `Spec => []UpdatesOnce` |
| `ClientRpcProofs!TypeCorrect` | `Spec => []TypeOK` |
| `ClientRpcProofs!PromisesSetOnce` | `Spec => []OwnAnswerOnce` |
| `ClientRpcProofs!HomeAnswersResolve` | `Spec => []AnswerAtHomeResolves` |
| `ClientRpcProofs!StopLeavesNoneWaiting` | `Spec => []StopEndsCalls` |
| `BlockPathProofs!TypeCorrect` | `Spec => []TypeOK` |
| `BlockPathProofs!LoadedIsEnforcing` | `Spec => []LoadedEnforces` |
| `BlockPathProofs!NothingIsLeftBehind` | `Spec => []NothingLeftBehind` |
| `BlockPathProofs!ReportsAreTrue` | `Spec => []ReportedBlock` |
| `BlockPathProofs!BlocksStay` | `Spec => BlockedStaysBlocked` |

They hold for every value of the constants that satisfies the named
assumptions: `FlowTrackerAssumption` (a positive window not above the buffer
limit), `ModelScoresAssumption`, `DataPlaneAssumption` (frame lengths between
the sniffer's minimum and the capture length, positive cadence),
`WindowAssumption` (a positive window), `BlockPathAssumption` (a counter of more
than one value), `StdoutAssumption` (the data plane's thread is not a reactor,
the stdio buffer holds something), `QueueMaxAssumption` (a queue holds at least
one message), `McpShardAssumption` (cores are numbers, a batch is not empty: the
dispatcher refuses an empty one), `ClientRpcAssumption` (a session has a core)
and `SocAgentAssumption` (among others that `time.time()` starts beyond one
window, or the first alert of a host would be refused).

*Data plane.* `AlertNamesItsFrames` is not inductive: what an alert says depends
on what a buffer held when it was handed over. The strengthening adds
`FramesOfTheirKey` (a buffer holds captured frames of its own key) and
`BuffersBelowReady` (a stored flow is incomplete, hence below
`MAX_FLOW_BUFFER`, so an append really appends). The lemma `GrownFlow` states
what the flow is after a frame, `DeliveredPayload` what becomes of it.

`EvictsExactlyStale` speaks of the frames of a flow, `cleanup_stale` compares the
time stored with it. `StampInv` joins them: the stored time is that of the last
frame in the buffer, and no captured frame of that key is newer.

*Segmenter.* A step of the callback maps to one arrival: a frame that leaves its
flow incomplete is `Wait`, one that completes it is `Cut`, with the keys the
cleanup removes as the flows given up; the start-up and the clock map to
stutters. `BufferKeepsOthers` and `DeliverRemovesFlows` say what happens to the
flows of the other keys. `Conservation` then follows from where frames wait
(`CallbackMovesFrames`) and needs that a flow holds only its own frames, so that
one cannot be in two flows. `ReassemblyInOrder` compares every two windows of a
key; its strengthening `OrderInv` compares each window with the earlier ones and
each flow with all windows of its key. `SignatureAlerted` needs that without a
model the heuristic sees every mark of the payload's frames. `WindowFillsInput`
needs no strengthening but that the two constants, set in two files, are equal.

*Standard output.* Which line of the pipe is a whole alert depends on everything
that was inserted since the last newline, by all threads. The invariant follows
it insertion by insertion: what a thread has left to do is the end of its
message's statements (`TodoInv`); the data plane's thread holds the mutex between
lock and unlock (`MutexInv`); whoever made the last insertion of an unfinished
line has more of the same message to insert (`LastInv`); and the insertions of a
notification that no statement overlapped stand on a line without others
(`CleanInv`), from which `LostOnlyByCrossing` follows when the line is read.
`VisibleInv` says that an alert past its flush is in the pipe whole. `PumpInv`, for
the types, says whose callback the pump is in. Order needs
that identifiers grow along the stream (`OrderInv`) and that what was received
lies before the reading position (`ReceivedInv`).

*Block path.* `LoadedEnforces` says nothing while a load is under way, so it is
not inductive. `OwnerInv` adds `Phase`, which ties the place of each loader to
what its probe owns in the kernel: between attach and the end of load the attached
filter is its own; otherwise a filter that it owns is that of a loaded loader, or
one whose detach failed; a pin that it owns likewise. `NothingLeftBehind` is what
`Phase` says of an idle loader. It needs that a step between attach and the end of
load is never disturbed by another probe's detach, which holds because only the
loader whose own filter is attached ever gets to one. `Young` says that the object
load works on was never pinned, so that no tool has seen its list and a failed
load takes no reported block with it. For `ReportedBlock`, `ServedInv` says that a
list a tool can reach is of the attached filter or was retired. Lists of objects
still to be loaded are empty (`LaterEmpty`). `BlockedStaysBlocked` follows from the
same invariant: `Undo` detaches only a filter whose list is empty.

*Deduplication.* `DedupWindow` relates history; `_seen` forgets. `Remembered`
joins them: a started investigation is either still covered by the entry of its
host or at least ten windows old. For `SuppressedWasStarted` the other direction
is needed: every entry is the time of a started investigation of its host
(`EntriesWereStarted`).

*Queues.* `Held` is what a client has read and what its queue holds for it,
waiting pushes and granted ones included. A push adds its message to it and
loses none but by an overrun (`PushKeeps`), a pop and a refill only move messages
(`PopKeeps`, `RefilledKeeps`), and none of them repeats one (`PushOnce`,
`PopOnce`, `RefilledOnce`).

*Sessions and answers.* The types need that a shard numbers its sessions from 1
on (`IdsInv`): a new identifier is no old session's. `OwnAnswersOnce` is about the end of an answer's way only.
`OneAnswerInv` says of the whole way that the answer to a message is at no more
than one place: a dispatch not yet done, a message between cores, or the queue
and the client of the session it was posted for; a queued answer cannot be
answered again. `AnswerKept` is the other half, at least one place, while the
client reads and its queue did not overrun. It needs `ReadersInv`: the session
of a client that reads is registered and active, so that the second look-up,
after the message between cores, finds it; no client reads once the server stops. `UpdatesOnce` is an invariant only with
`UpdateInv`: a session can be subscribed on several cores and an update comes to
all of them, but only the session's own core finds it in its table; while the
update is on its way to a core no session of that core holds it, and no second
copy is on its way there.

*Requests to clients.* `PromiseInv`: a core gives a number to one call only, a
call is in its core's table exactly until its promise is set, what sets it is stop
or the answer to some call that was made, and after stop the tables are empty.
That a promise is set once, that an answer at home never misses a call that waits
and that stop leaves nobody waiting all follow from it.

*Blocks.* `BlocksKnown` relates the kernel to what the agent was told, across a
request, a result and an answer that can each be lost, late or given up. The
invariant `KnownInv` follows a request on its way: ids are given out once
(`IdsInv`), so that no late answer is taken for the awaited one; a block that is
still pending or whose result is not yet sent is the awaited one or one given up,
and a positive result is of a host that is blocked (`RequestsInv`); a blocked host
the agent was not told of is one it gave up on, or the awaited one with its
request done and its answer, if any, positive (`AwaitedDone`). `FewerKeeps`,
`RunKeeps`, `CallKeeps` and `ReturnKeeps` are the steps.

Every invariant and every safety action property of the passing runs has a
theorem. Model-checked only are the liveness properties: `EventuallyRead`,
`InvestigationEnds`, `DataPlaneUnblocks`, `ProbeStops`, `AnswerArrives`,
`StopEndsBusyStreams` and `RequestHeard`. They need fairness, and with it `ENABLED`, which the prover
does not support; for `AnswerArrives` the safety half is `AnswerKept`. `HostTools`
has a violation run only: a counterexample needs no proof, nor do those of the
other violation runs.

## 7. Not modelled

* `AlertQueue`: used by no file. The `Tokenizer` of `src/capture`: not called.
* Streamable HTTP transport: the probe does not enable it.
* WAF proxy: a decision per request over regular expressions, without state.
* `agent.py`: a demonstration client; the order of lines it depends on is in `Stdout`.
* Dispatcher: parse errors, error objects, pagination, progress and log
  notifications.
* The handlers of repeated signals and the join of the StdIO fiber at stop.
* The builder, JSON types, the HTTP patch: configuration and conversion.
* The network's arithmetic: any score, none, or a failure.
* Wall-clock steps backwards (`time.time()`): `Tick` only moves forward. With a
  clock that steps back a host is suppressed for longer, by the size of the step.
  The 2^31 overflow of `pkt_count`, which would shift one cleanup.
* An `unload()` called by hand on a loader that is not loaded (`xdp_loader.cpp:92`
  looks at `ifindex_` only): listed as a hazard; nothing in the repository does it.
* In `McpShard`: shard numbers out of range, and posts with the id of a session
  that is still opening.
* Wording, JSON formatting and log levels; demos, tests, benchmarks, ET-BERT.

## 8. Plan

The order follows how much of the system's promise hangs on a part: first what
decides *which host is accused* (data plane), then how the accusation travels
(stdout) and is acted on (agent), then the server every tool call passes, then
what a block does in the kernel.

Done: the modules above, with `Segmenter` as the abstract specification of the
tracker and the proofs of every safety property stated about any of them.
Next:

1. `AlertStream`: an abstract at-most-once ordered channel refined by `Stdout`.
2. `StreamableShard`: the streamable transport on top of `SseQueue` (reconnect
   with `GET /mcp` while the old stream waits, `DELETE`, session creation on
   `initialize`), with the hazard of the replaced promise as its question.
3. `Dispatcher`: batches whose elements fail, notifications, the end of the
   StdIO fiber by an exception; pagination as an operator against a reference.
4. `Lifecycle`: signals twice, the order of stop over both transports, the
   StdIO join; with `ClientRpc`'s held calls it asks when the probe ends.
5. Proofs: the refinement of `AlertStream` with it; `StdoutProofs` has the
   invariant it needs. For `HostTools` the half of the lookup that the code does
   get right, if the word it compares is ever the inode.
