---------------------------- MODULE SocAgentProofs ----------------------------
(***************************************************************************)
(* The deduplication promise for every set of hosts, every window and any  *)
(* passage of time, clean-up of _seen included, the cause of every refusal *)
(* of an alert, and what the agent knows of the blocks in the kernel.      *)
(***************************************************************************)
EXTENDS SocAgent, TLAPS

\* An entry the clean-up drops is ten windows old; the others are unchanged
\* but for the host just entered.
LEMMA SeenAfterEntries ==
    ASSUME NEW S, NEW ip, NEW t \in Nat, \A h \in DOMAIN S : S[h] \in Nat
    PROVE  /\ \A h \in DOMAIN SeenAfter(S, ip, t) :
                 \/ h = ip /\ SeenAfter(S, ip, t)[h] = t
                 \/ h \in DOMAIN S /\ SeenAfter(S, ip, t)[h] = S[h]
           /\ ip \in DOMAIN SeenAfter(S, ip, t) /\ SeenAfter(S, ip, t)[ip] = t
           /\ \A h \in DOMAIN S :
                 \/ h = ip
                 \/ h \in DOMAIN SeenAfter(S, ip, t) /\ SeenAfter(S, ip, t)[h] = S[h]
                 \/ S[h] <= t - WINDOW * 10
<1>1. t > Cutoff(t) /\ Cutoff(t) \in Int
  BY WindowAssumption DEF Cutoff
<1>2. QED
  BY <1>1 DEF SeenAfter, Entered, Restrict, Cutoff

\* An element of a sequence is in the sequence's base set.
LEMMA ElementType ==
    ASSUME NEW S, NEW q \in Seq(S), NEW i \in DOMAIN q PROVE q[i] \in S
OBVIOUS

\* Whatever a tool returns has the type of a result.
LEMMA ResultType ==
    ASSUME NEW r \in Request, NEW ok \in BOOLEAN PROVE Finished(r, ok) \in Result
BY DEF Finished, Request, Result

\* A block the pump waits for is one of a host.
LEMMA AwaitedHost == TypeOK => AwaitedBlock \subseteq IPs
BY DEF TypeOK, AwaitedBlock, Request, NoCall, None

\* Every step keeps the types.
LEMMA TypeStep == TypeOK /\ [Next]_vars => TypeOK'
<1> SUFFICES ASSUME TypeOK, [Next]_vars PROVE TypeOK'
  OBVIOUS
<1> USE SocAgentAssumption DEF probeVars, agentVars
<1>1. CASE \E ip \in IPs : RaiseAlert(ip)
  BY <1>1 DEF TypeOK, RaiseAlert
<1>2. CASE WriteLine
  <2>1. CASE Len(pipe) < PIPE /\ pipe' = Append(pipe, writing)
    <3>1. pipe \in Seq(IPs) /\ writing \in IPs
      BY <1>2 DEF TypeOK, WriteLine
    <3>2. pipe' \in Seq(IPs) /\ Len(pipe') <= PIPE
      BY <2>1, <3>1
    <3>3. QED
      BY <1>2, <3>2 DEF TypeOK, WriteLine
  <2>2. CASE UNCHANGED pipe
    BY <1>2, <2>2 DEF TypeOK, WriteLine
  <2>3. QED
    BY <1>2, <2>1, <2>2 DEF WriteLine
<1>3. CASE \E r \in requests : Accept(r)
  BY <1>3 DEF TypeOK, Accept
<1>4. CASE \E r \in executing : RunInspect(r)
  <2>1. PICK r \in executing : RunInspect(r)
    BY <1>4
  <2>2. results' \subseteq Result
    BY <2>1, ResultType DEF TypeOK, RunInspect
  <2>3. QED
    BY <2>1, <2>2 DEF TypeOK, RunInspect
<1>5. CASE \E r \in executing : RunBlock(r)
  <2>1. PICK r \in executing : RunBlock(r)
    BY <1>5
  <2>2. results' \subseteq Result
    BY <2>1, ResultType DEF TypeOK, RunBlock
  <2>3. blocked' \subseteq IPs
    BY <2>1 DEF TypeOK, RunBlock, Request
  <2>4. QED
    BY <2>1, <2>2, <2>3 DEF TypeOK, RunBlock
<1>18. CASE \E a \in results : SendAnswer(a)
  BY <1>18 DEF TypeOK, SendAnswer, AnswerTo
<1>6. CASE StopProbe
  BY <1>6 DEF TypeOK, StopProbe
<1>7. CASE Crash
  BY <1>7 DEF TypeOK, Crash
<1>8. CASE Connect \/ Listen \/ SetupFails \/ Exit
  <2>1. AwaitedBlock \subseteq IPs
    BY AwaitedHost
  <2>2. CASE Connect \/ Listen
    BY <2>2 DEF TypeOK, Connect, Listen
  <2>3. CASE SetupFails \/ Exit
    <3>1. AgentEnds /\ UNCHANGED <<writing, requests, executing, results, blocked, raised,
                                    request_id, started, told, now>>
      BY <2>3 DEF SetupFails, Exit
    <3>2. probe' \in {"running", "stopping", "stopped"}
      BY <2>3 DEF TypeOK, SetupFails, Exit
    <3>3. DOMAIN seen' = {} /\ pipe' \in Seq(IPs) /\ Len(pipe') <= PIPE
      BY <3>1 DEF AgentEnds
    <3>4. gaveUp' \subseteq IPs
      BY <2>1, <3>1 DEF AgentEnds, TypeOK
    <3>5. QED
      BY <3>1, <3>2, <3>3, <3>4 DEF TypeOK, AgentEnds
  <2>4. QED
    BY <1>8, <2>2, <2>3
<1>9. CASE Drop \/ EndOfFile \/ Suppress
  <2>1. CASE EndOfFile
    BY <2>1 DEF TypeOK, EndOfFile
  <2>2. CASE Drop \/ Suppress
    <3>1. pipe \in Seq(IPs) /\ pipe # <<>> /\ pipe' = Tail(pipe) /\ Len(pipe) <= PIPE
      BY <2>2 DEF TypeOK, Drop, Suppress
    <3>2. pipe' \in Seq(IPs) /\ Len(pipe') <= PIPE
      BY <3>1
    <3>3. QED
      BY <2>2, <3>2 DEF TypeOK, Drop, Suppress
  <2>3. QED
    BY <1>9, <2>1, <2>2
<1>10. CASE Investigate
  <2>1. Head(pipe) \in IPs /\ pipe' \in Seq(IPs) /\ Len(pipe') <= PIPE
    BY <1>10 DEF TypeOK, Investigate
  <2>2. DOMAIN seen' \subseteq IPs /\ \A h \in DOMAIN seen' : seen'[h] \in EPOCH..now
    <3>1. seen' = SeenAfter(seen, Head(pipe), now) /\ now \in Nat /\ now >= EPOCH
      BY <1>10 DEF TypeOK, Investigate
    <3>2. \A h \in DOMAIN seen : h \in IPs /\ seen[h] \in EPOCH..now /\ seen[h] \in Nat
      BY DEF TypeOK
    <3>3. QED
      BY <2>1, <3>1, <3>2, SeenAfterEntries
  <2>3. started' \in Seq([ip : IPs, at : Nat])
    BY <1>10, <2>1 DEF TypeOK, Investigate
  <2>4. QED
    BY <1>10, <2>1, <2>2, <2>3 DEF TypeOK, Investigate
<1>11. CASE \E tool \in {"inspect", "block"}, ip \in IPs : CallTool(tool, ip)
  <2>1. PICK tool \in {"inspect", "block"}, ip \in IPs : CallTool(tool, ip)
    BY <1>11
  <2>2. request_id' \in Nat /\ call' \in Request /\ requests' \subseteq Request
    BY <2>1 DEF TypeOK, CallTool, Request
  <2>3. QED
    BY <2>1, <2>2 DEF TypeOK, CallTool
<1>12. CASE \E a \in answers : Receive(a)
  BY <1>12, AwaitedHost DEF TypeOK, Receive
<1>13. CASE GiveUp
  BY <1>13, AwaitedHost DEF TypeOK, GiveUp
<1>14. CASE Report \/ Close \/ Fail
  BY <1>14 DEF TypeOK, Report, Close, Fail
<1>15. CASE Tick
  <2>1. now' \in Nat /\ now' > now
    BY <1>15 DEF Tick
  <2>2. \A h \in DOMAIN seen : seen[h] \in EPOCH..now'
    BY <2>1 DEF TypeOK
  <2>3. QED
    BY <1>15, <2>1, <2>2 DEF TypeOK, Tick
<1>16. CASE UNCHANGED vars
  BY <1>16 DEF TypeOK, vars
<1>17. QED
  BY <1>1, <1>2, <1>3, <1>4, <1>5, <1>6, <1>7, <1>8, <1>9, <1>10, <1>11, <1>12, <1>13, <1>14,
     <1>15, <1>16, <1>18 DEF Next, Probe, Reading, Node

\* The types hold at the start.
LEMMA TypeInit == Init => TypeOK
<1> SUFFICES ASSUME Init PROVE TypeOK
  OBVIOUS
<1>1. DOMAIN seen = {} /\ pipe = <<>> /\ started = <<>> /\ now = EPOCH
  BY DEF Init
<1>2. pipe \in Seq(IPs) /\ Len(pipe) <= PIPE /\ started \in Seq([ip : IPs, at : Nat])
  BY <1>1, SocAgentAssumption
<1>3. now \in Nat /\ now >= EPOCH
  BY <1>1, SocAgentAssumption
<1>4. QED
  BY <1>1, <1>2, <1>3, SocAgentAssumption DEF Init, TypeOK

\* Type correctness of the loop for every set of hosts and every bound.
THEOREM TypeCorrect == Spec => []TypeOK
BY TypeInit, TypeStep, PTL DEF Spec

\* Only Investigate enters a host, only a tick moves the clock, and _seen is gone
\* with the agent.
LEMMA HistoryStep ==
    ASSUME [Next]_vars
    PROVE  \/ Investigate \/ Tick
           \/ UNCHANGED <<seen, started, now>> /\ (main = "exited" => main' = "exited")
           \/ main' = "exited" /\ DOMAIN seen' = {} /\ started' = started
BY DEF AgentEnds, Next, Probe, Reading, Node, RaiseAlert, WriteLine, Accept, RunInspect,
       RunBlock, SendAnswer, StopProbe, Crash, Connect, Listen, SetupFails, Exit, Drop,
       EndOfFile, Suppress, CallTool, Receive, GiveUp, Report, Close, Fail, vars, probeVars, agentVars

\* The history of investigations against _seen: while the agent lives, what was
\* started is either remembered, with its time or a later one, or ten windows old.
Remembered ==
    main # "exited" =>
        \A i \in DOMAIN started :
            /\ started[i].at <= now
            /\ \/ /\ started[i].ip \in DOMAIN seen
                  /\ seen[started[i].ip] >= started[i].at
               \/ now - started[i].at >= WINDOW * 10

DedupInv == TypeOK /\ Remembered /\ DedupWindow

\* Two investigations of one host begin at least WINDOW apart, for every set
\* of hosts, every window and every history of alerts.
THEOREM DedupWindowHolds == Spec => []DedupWindow
<1>1. Init => DedupInv
  BY TypeInit DEF Init, DedupInv, Remembered, DedupWindow
<1>2. DedupInv /\ [Next]_vars => DedupInv'
  <2> SUFFICES ASSUME TypeOK, Remembered, DedupWindow, [Next]_vars
               PROVE  Remembered' /\ DedupWindow'
    BY TypeStep DEF DedupInv
  <2>0. /\ \A i \in DOMAIN started : started[i].at \in Nat
        /\ DOMAIN started = 1..Len(started) /\ Len(started) \in Nat
        /\ now \in Nat
        /\ \A h \in DOMAIN seen : seen[h] \in Nat
    <3>1. started \in Seq([ip : IPs, at : Nat]) /\ now \in Nat
      BY DEF TypeOK
    <3>2. \A h \in DOMAIN seen : seen[h] \in Nat
      BY SocAgentAssumption DEF TypeOK
    <3>3. \A i \in DOMAIN started : started[i].at \in Nat
      <4>1. \A i \in DOMAIN started : started[i] \in [ip : IPs, at : Nat]
        BY <3>1, ElementType
      <4>2. QED
        BY <4>1
    <3>4. QED
      BY <3>1, <3>2, <3>3
  <2>1. CASE Investigate
    <3> DEFINE ip == Head(pipe)
               n == Len(started) + 1
    <3>1. /\ seen' = SeenAfter(seen, ip, now)
          /\ started' = Append(started, [ip |-> ip, at |-> now])
          /\ now' = now
          /\ ShouldProcess(seen, ip, now)
          /\ main # "exited"
      BY <2>1 DEF Investigate, PumpRuns
    <3>2. /\ DOMAIN started' = 1..n
          /\ started'[n] = [ip |-> ip, at |-> now]
          /\ \A i \in DOMAIN started : started'[i] = started[i]
      BY <3>1 DEF TypeOK
    <3>3. n \notin DOMAIN started /\ DOMAIN started' = DOMAIN started \cup {n}
      BY <2>0, <3>2
    <3> HIDE DEF ip, n
    <3>4. Remembered'
      <4> SUFFICES ASSUME NEW i \in DOMAIN started'
                   PROVE  /\ started'[i].at <= now
                          /\ \/ /\ started'[i].ip \in DOMAIN seen'
                                /\ seen'[started'[i].ip] >= started'[i].at
                             \/ now - started'[i].at >= WINDOW * 10
        BY <3>1 DEF Remembered
      <4>1. CASE i = n
        <5>1. ip \in DOMAIN seen' /\ seen'[ip] = now
          BY <2>0, <3>1, SeenAfterEntries
        <5>2. QED
          BY <2>0, <3>2, <4>1, <5>1
      <4>2. CASE i \in DOMAIN started
        <5>1. started[i].at <= now /\ started'[i] = started[i] /\ started[i].at \in Nat
          BY <2>0, <3>1, <3>2, <4>2 DEF Remembered
        <5>2. CASE started[i].ip \in DOMAIN seen /\ seen[started[i].ip] >= started[i].at
          <6> DEFINE h == started[i].ip
          <6>1. h = ip \/ (h \in DOMAIN seen' /\ seen'[h] = seen[h])
                \/ seen[h] <= now - WINDOW * 10
            BY <2>0, <3>1, <5>2, SeenAfterEntries
          <6>2. ip \in DOMAIN seen' /\ seen'[ip] = now
            BY <2>0, <3>1, SeenAfterEntries
          <6>3. seen[h] \in Nat /\ WINDOW * 10 \in Nat
            BY <2>0, <5>2, WindowAssumption
          <6>4. QED
            BY <2>0, <5>1, <5>2, <6>1, <6>2, <6>3
        <5>3. CASE now - started[i].at >= WINDOW * 10
          BY <5>1, <5>3
        <5>4. QED
          BY <3>1, <4>2, <5>2, <5>3 DEF Remembered
      <4>3. QED
        BY <3>3, <4>1, <4>2
    <3>5. \A i \in DOMAIN started : started[i].ip = ip => now - started[i].at >= WINDOW
      <4> SUFFICES ASSUME NEW i \in DOMAIN started, started[i].ip = ip
                   PROVE  now - started[i].at >= WINDOW
        OBVIOUS
      <4>1. CASE ip \in DOMAIN seen /\ seen[ip] >= started[i].at
        BY <2>0, <3>1, <4>1, WindowAssumption DEF ShouldProcess, LastSeen
      <4>2. CASE now - started[i].at >= WINDOW * 10
        BY <2>0, <4>2, WindowAssumption
      <4>3. QED
        BY <3>1, <4>1, <4>2 DEF Remembered
    <3>6. DedupWindow'
      <4> SUFFICES ASSUME NEW i \in DOMAIN started', NEW j \in DOMAIN started', i < j,
                          started'[i].ip = started'[j].ip
                   PROVE  started'[j].at - started'[i].at >= WINDOW
        BY DEF DedupWindow
      <4>1. i \in DOMAIN started
        BY <2>0, <3>2, <3>3 DEF n
      <4>2. CASE j = n
        BY <3>2, <3>5, <4>1, <4>2
      <4>3. CASE j \in DOMAIN started
        BY <3>2, <4>1, <4>3 DEF DedupWindow
      <4>4. QED
        BY <3>3, <4>2, <4>3
    <3>7. QED
      BY <3>4, <3>6
  <2>2. CASE Tick
    <3>1. /\ now' \in Nat /\ now' > now /\ UNCHANGED <<seen, started>>
          /\ main # "exited"
      BY <2>2, SocAgentAssumption DEF Tick, agentVars, PumpRuns
    <3>2. WINDOW * 10 \in Nat
      BY WindowAssumption
    <3>3. Remembered'
      BY <2>0, <3>1, <3>2 DEF Remembered
    <3>4. DedupWindow'
      BY <3>1 DEF DedupWindow
    <3>5. QED
      BY <3>3, <3>4
  <2>3. CASE UNCHANGED <<seen, started, now>> /\ (main = "exited" => main' = "exited")
    BY <2>3 DEF Remembered, DedupWindow
  <2>4. CASE main' = "exited" /\ DOMAIN seen' = {} /\ started' = started
    BY <2>4 DEF Remembered, DedupWindow
  <2>5. QED
    BY <2>1, <2>2, <2>3, <2>4, HistoryStep
<1>3. QED
  BY <1>1, <1>2, PTL DEF Spec, DedupInv

\* The requests no tool has answered, and the results and answers of the others.
Pending == requests \cup executing
Done == results \cup answers

\* Ids are given out once.
IdsInv ==
    /\ \A r \in Pending \cup Done : r.id <= request_id
    /\ call.id <= request_id

\* A request is the awaited one or was given up, and is pending or answered, and
\* answers tell what became of it.
RequestsInv ==
    /\ \A r \in Pending :
          /\ r.id = call.id => r = call
          /\ r.tool = "block" => (r = call \/ r.ip \in gaveUp)
    /\ call \in Pending => \A a \in Done : a.id # call.id
    /\ ~ (call \in requests /\ call \in executing)
    /\ \A a \in Done :
          /\ a.id = call.id => (a.tool = call.tool /\ a.ip = call.ip)
          /\ (a.tool = "block" /\ a.ok) => a.ip \in blocked

\* The awaited block is done and its answer, if there is one, says so.
AwaitedDone(ip) ==
    /\ ip \in AwaitedBlock /\ call \notin Pending
    /\ \A a \in Done : a.id = call.id => a.ok

KnownInv ==
    /\ TypeOK /\ IdsInv /\ RequestsInv
    /\ told \subseteq blocked
    /\ \A ip \in blocked : ip \in told \cup gaveUp \/ AwaitedDone(ip)

\* Ids are positive: none is that of NoCall.
LEMMA Positive ==
    TypeOK => /\ \A r \in Pending \cup Done : r.id \in Nat \ {0} /\ r # NoCall
              /\ request_id \in Nat /\ call.id \in Nat
BY DEF TypeOK, Pending, Done, Request, Result, NoCall

\* A step that only moves or loses requests, results and answers.
LEMMA FewerKeeps ==
    ASSUME KnownInv, TypeOK',
           Pending' \subseteq Pending, Done' \subseteq Done,
           ~ (call \in requests' /\ call \in executing'),
           UNCHANGED <<request_id, call, told, gaveUp, blocked>>
    PROVE  KnownInv'
<1>1. IdsInv'
  BY DEF KnownInv, IdsInv
<1>2. RequestsInv'
  BY DEF KnownInv, RequestsInv
<1>3. \A ip \in blocked : AwaitedDone(ip) => AwaitedDone(ip)'
  BY DEF AwaitedDone, AwaitedBlock
<1>4. QED
  BY <1>1, <1>2, <1>3 DEF KnownInv

\* A tool has run: its request is answered.
LEMMA RunKeeps ==
    ASSUME KnownInv, TypeOK', NEW r \in executing, NEW ok \in BOOLEAN,
           executing' = executing \ {r},
           results' = results \cup {Finished(r, ok)},
           blocked' = IF r.tool = "block" /\ ok THEN blocked \cup {r.ip} ELSE blocked,
           UNCHANGED <<requests, answers, request_id, call, told, gaveUp>>
    PROVE  KnownInv'
<1> DEFINE a == Finished(r, ok)
<1>1. a.id = r.id /\ a.tool = r.tool /\ a.ip = r.ip /\ a.ok = ok
  BY DEF Finished
<1>2. Pending' \subseteq Pending /\ Done' = Done \cup {a} /\ r \in Pending
  BY DEF Pending, Done
<1> HIDE DEF a
<1>3. IdsInv'
  BY <1>1, <1>2 DEF KnownInv, IdsInv
<1>4. r = call => call \notin Pending'
  BY DEF KnownInv, RequestsInv, Pending
<1>5. r # call => r.id # call.id /\ (r.tool = "block" => r.ip \in gaveUp)
  BY <1>2 DEF KnownInv, RequestsInv
<1>6. blocked \subseteq blocked' /\ ((r.tool = "block" /\ ok) => r.ip \in blocked')
  OBVIOUS
<1>7. RequestsInv'
  <2>1. \A q \in Pending' :
           /\ q.id = call'.id => q = call'
           /\ q.tool = "block" => (q = call' \/ q.ip \in gaveUp')
    BY <1>2 DEF KnownInv, RequestsInv
  <2>2. call' \in Pending' => \A b \in Done' : b.id # call'.id
    BY <1>1, <1>2, <1>4, <1>5 DEF KnownInv, RequestsInv
  <2>3. ~ (call' \in requests' /\ call' \in executing')
    BY DEF KnownInv, RequestsInv
  <2>4. ASSUME NEW b \in Done'
        PROVE  /\ b.id = call'.id => (b.tool = call'.tool /\ b.ip = call'.ip)
               /\ (b.tool = "block" /\ b.ok) => b.ip \in blocked'
    <3>1. CASE b \in Done
      BY <1>6, <3>1 DEF KnownInv, RequestsInv
    <3>2. CASE b = a
      BY <1>1, <1>5, <1>6, <3>2
    <3>3. QED
      BY <1>2, <2>4, <3>1, <3>2
  <2>5. QED
    BY <2>1, <2>2, <2>3, <2>4 DEF RequestsInv
<1>8. \A ip \in blocked' : ip \in told' \cup gaveUp' \/ AwaitedDone(ip)'
  <2> SUFFICES ASSUME NEW ip \in blocked', ip \notin told, ip \notin gaveUp
               PROVE  AwaitedDone(ip)'
    OBVIOUS
  <2>1. CASE r = call
    <3>1. \A b \in Done : b.id # call.id
      BY <1>2, <2>1 DEF KnownInv, RequestsInv
    <3>2. ip \notin blocked
      BY <1>2, <2>1 DEF KnownInv, AwaitedDone
    <3>3. ip = call.ip /\ call.tool = "block" /\ ok
      BY <2>1, <3>2
    <3>4. QED
      BY <1>1, <1>2, <1>4, <2>1, <3>1, <3>3 DEF AwaitedDone, AwaitedBlock
  <2>2. CASE r # call
    <3>1. ip \in blocked
      BY <1>5, <2>2
    <3>2. AwaitedDone(ip)
      BY <3>1 DEF KnownInv
    <3>3. QED
      BY <1>1, <1>2, <1>5, <2>2, <3>2 DEF AwaitedDone, AwaitedBlock
  <2>3. QED
    BY <2>1, <2>2
<1>9. told' \subseteq blocked'
  BY <1>6 DEF KnownInv
<1>10. QED
  BY <1>3, <1>7, <1>8, <1>9 DEF KnownInv

\* A new request is awaited, and no request, result or answer has its id.
LEMMA CallKeeps ==
    ASSUME KnownInv, TypeOK', call = NoCall,
           call' \in Request, call'.id = request_id + 1, request_id' = request_id + 1,
           requests' \subseteq requests \cup {call'},
           UNCHANGED <<executing, results, answers, blocked, told, gaveUp>>
    PROVE  KnownInv'
<1>1. /\ \A r \in Pending \cup Done : r.id \in Nat \ {0} /\ r.id <= request_id /\ r # call
      /\ request_id \in Nat
  BY Positive DEF KnownInv, IdsInv
<1>2. Pending' \subseteq Pending \cup {call'} /\ Done' = Done
  BY DEF Pending, Done
<1>3. \A r \in Pending \cup Done : r.id # call'.id /\ r.id <= request_id'
  BY <1>1
<1>4. IdsInv'
  BY <1>1, <1>2, <1>3 DEF IdsInv
<1>5. call' \notin Pending
  BY <1>3
<1>6. RequestsInv'
  <2>1. \A r \in Pending' :
           /\ r.id = call'.id => r = call'
           /\ r.tool = "block" => (r = call' \/ r.ip \in gaveUp')
    BY <1>1, <1>2, <1>3 DEF KnownInv, RequestsInv
  <2>2. ~ (call' \in requests' /\ call' \in executing')
    BY <1>5 DEF Pending
  <2>3. \A b \in Done' :
           /\ b.id # call'.id
           /\ (b.tool = "block" /\ b.ok) => b.ip \in blocked'
    BY <1>2, <1>3 DEF KnownInv, RequestsInv
  <2>4. QED
    BY <2>1, <2>2, <2>3 DEF RequestsInv
<1>7. \A ip \in blocked : ip \in told \cup gaveUp
  BY DEF KnownInv, AwaitedDone, AwaitedBlock, NoCall, None
<1>8. QED
  BY <1>4, <1>6, <1>7 DEF KnownInv

\* The pump waits no more, because of an answer, of the timeout or of its end.
LEMMA ReturnKeeps ==
    ASSUME KnownInv, TypeOK', call' = NoCall,
           requests' = requests, executing' = executing, results' = results,
           answers' \subseteq answers, UNCHANGED <<request_id, blocked>>,
           \/ gaveUp' = gaveUp \cup AwaitedBlock /\ told' = told
           \/ /\ gaveUp' = gaveUp
              /\ \E a \in answers : /\ a.id = call.id
                                    /\ told' = told \cup (IF a.ok THEN AwaitedBlock ELSE {})
    PROVE  KnownInv'
<1>1. Pending' = Pending /\ Done' \subseteq Done
  BY DEF Pending, Done
<1>2. \A r \in Pending \cup Done : r.id # call'.id /\ r # call'
  BY Positive DEF KnownInv, NoCall
<1>3. IdsInv'
  BY <1>1, Positive DEF KnownInv, IdsInv, NoCall
<1>4. /\ gaveUp \subseteq gaveUp' /\ told \subseteq told'
      /\ call \in Pending => AwaitedBlock \subseteq gaveUp'
  <2>1. CASE gaveUp' = gaveUp \cup AwaitedBlock /\ told' = told
    BY <2>1
  <2>2. CASE /\ gaveUp' = gaveUp
             /\ \E a \in answers : /\ a.id = call.id
                                   /\ told' = told \cup (IF a.ok THEN AwaitedBlock ELSE {})
    BY <2>2 DEF KnownInv, RequestsInv, Done
  <2>3. QED
    BY <2>1, <2>2
<1>5. RequestsInv'
  <2>1. ASSUME NEW r \in Pending, r.tool = "block" PROVE r.ip \in gaveUp'
    <3>1. CASE r = call
      BY <1>4, <2>1, <3>1 DEF AwaitedBlock
    <3>2. CASE r.ip \in gaveUp
      BY <1>4, <3>2
    <3>3. QED
      BY <2>1, <3>1, <3>2 DEF KnownInv, RequestsInv
  <2>2. call' \notin requests' /\ call' \notin Pending'
    BY <1>1, <1>2 DEF Pending
  <2>3. \A b \in Done' : (b.tool = "block" /\ b.ok) => b.ip \in blocked'
    BY <1>1 DEF KnownInv, RequestsInv
  <2>4. QED
    BY <1>1, <1>2, <2>1, <2>2, <2>3 DEF RequestsInv
<1>6. told' \subseteq blocked' /\ \A ip \in blocked' : ip \in told' \cup gaveUp'
  <2>1. CASE gaveUp' = gaveUp \cup AwaitedBlock /\ told' = told
    BY <2>1 DEF KnownInv, AwaitedDone
  <2>2. CASE /\ gaveUp' = gaveUp
             /\ \E a \in answers : /\ a.id = call.id
                                   /\ told' = told \cup (IF a.ok THEN AwaitedBlock ELSE {})
    <3>1. PICK a \in answers : /\ a.id = call.id
                               /\ told' = told \cup (IF a.ok THEN AwaitedBlock ELSE {})
      BY <2>2
    <3>2. /\ a \in Done /\ a.tool = call.tool /\ a.ip = call.ip
          /\ (a.tool = "block" /\ a.ok) => a.ip \in blocked
      BY <3>1 DEF KnownInv, RequestsInv, Done
    <3>3. told' \subseteq blocked
      BY <3>1, <3>2 DEF KnownInv, AwaitedBlock
    <3>4. \A ip \in blocked : AwaitedDone(ip) => ip \in told'
      BY <3>1, <3>2 DEF AwaitedDone
    <3>5. QED
      BY <1>4, <2>2, <3>3, <3>4 DEF KnownInv
  <2>3. QED
    BY <2>1, <2>2
<1>7. QED
  BY <1>3, <1>5, <1>6 DEF KnownInv

\* The agent's picture of the kernel, for every number of hosts, alerts, calls
\* and reactors, and however late a request is executed: no block was reported
\* that was not made, and a host is blocked without a report only if the agent
\* gave up on its block or still waits for it.
THEOREM BlocksAreKnown == Spec => []BlocksKnown
<1>1. Init => KnownInv
  BY TypeInit DEF Init, KnownInv, IdsInv, RequestsInv, Pending, Done, NoCall
<1>2. KnownInv /\ [Next]_vars => KnownInv'
  <2> SUFFICES ASSUME KnownInv, [Next]_vars PROVE KnownInv'
    OBVIOUS
  <2>0. TypeOK'
    BY TypeStep DEF KnownInv
  <2>1. CASE \E r \in requests : Accept(r)
    <3>1. PICK r \in requests : Accept(r)
      BY <2>1
    <3>2. /\ executing' = executing \cup {r} /\ requests' = requests \ {r}
          /\ UNCHANGED <<results, answers, request_id, call, told, gaveUp, blocked>>
      BY <3>1 DEF Accept, agentVars
    <3>3. ~ (call \in requests' /\ call \in executing')
      BY <3>2 DEF KnownInv, RequestsInv
    <3>4. Pending' \subseteq Pending /\ Done' \subseteq Done
      BY <3>2 DEF Pending, Done
    <3>5. QED
      BY <2>0, <3>2, <3>3, <3>4, FewerKeeps
  <2>2. CASE \E r \in executing : RunInspect(r)
    <3>1. PICK r \in executing : RunInspect(r)
      BY <2>2
    <3>2. QED
      BY <2>0, <3>1, RunKeeps DEF RunInspect, agentVars
  <2>3. CASE \E r \in executing : RunBlock(r)
    <3>1. PICK r \in executing : RunBlock(r)
      BY <2>3
    <3>2. QED
      BY <2>0, <3>1, RunKeeps DEF RunBlock, agentVars
  <2>4. CASE \E a \in results : SendAnswer(a)
    <3>1. PICK a \in results : SendAnswer(a)
      BY <2>4
    <3>2. /\ Pending' \subseteq Pending /\ Done' \subseteq Done
          /\ UNCHANGED <<requests, executing, request_id, call, told, gaveUp, blocked>>
      BY <3>1 DEF SendAnswer, AnswerTo, Pending, Done
    <3>3. ~ (call \in requests' /\ call \in executing')
      BY <3>2 DEF KnownInv, RequestsInv
    <3>4. QED
      BY <2>0, <3>2, <3>3, FewerKeeps
  <2>5. CASE StopProbe \/ Crash
    <3>1. /\ requests' = {} /\ executing' \subseteq executing /\ results' \subseteq results
          /\ UNCHANGED <<answers, request_id, call, told, gaveUp, blocked>>
      BY <2>5 DEF StopProbe, Crash, agentVars
    <3>2. Pending' \subseteq Pending /\ Done' \subseteq Done
      BY <3>1 DEF Pending, Done
    <3>3. QED
      BY <2>0, <3>1, <3>2, FewerKeeps
  <2>6. CASE \E tool \in {"inspect", "block"}, ip \in IPs : CallTool(tool, ip)
    <3>1. PICK tool \in {"inspect", "block"}, ip \in IPs : CallTool(tool, ip)
      BY <2>6
    <3>2. /\ call = NoCall /\ call'.id = request_id + 1 /\ request_id' = request_id + 1
          /\ requests' \subseteq requests \cup {call'}
          /\ UNCHANGED <<executing, results, answers, blocked, told, gaveUp>>
      BY <3>1 DEF CallTool
    <3>3. call' \in Request
      BY <3>1 DEF CallTool, Request, KnownInv, TypeOK
    <3>4. QED
      BY <2>0, <3>2, <3>3, CallKeeps
  <2>7. CASE \E a \in answers : Receive(a)
    <3>1. PICK a \in answers : Receive(a)
      BY <2>7
    <3>2. QED
      BY <2>0, <3>1, ReturnKeeps DEF Receive, probeVars
  <2>8. CASE GiveUp
    BY <2>0, <2>8, ReturnKeeps DEF GiveUp, probeVars
  <2>9. CASE SetupFails \/ Exit
    BY <2>0, <2>9, ReturnKeeps DEF SetupFails, Exit, AgentEnds
  <2>10. CASE UNCHANGED <<requests, executing, results, answers, request_id, call, told,
                          gaveUp, blocked>>
    <3>1. Pending' = Pending /\ Done' = Done
      BY <2>10 DEF Pending, Done
    <3>2. ~ (call \in requests' /\ call \in executing')
      BY <2>10 DEF KnownInv, RequestsInv
    <3>3. QED
      BY <2>0, <2>10, <3>1, <3>2, FewerKeeps
  <2>11. QED
    BY <2>1, <2>2, <2>3, <2>4, <2>5, <2>6, <2>7, <2>8, <2>9, <2>10
       DEF Next, Probe, Reading, Node, RaiseAlert, WriteLine, Connect, Listen, Drop, EndOfFile,
           Suppress, Investigate, Report, Close, Fail, Tick, vars, probeVars, agentVars
<1>3. KnownInv => BlocksKnown
  BY DEF KnownInv, BlocksKnown, AwaitedDone
<1>4. QED
  BY <1>1, <1>2, <1>3, PTL DEF Spec

\* What _seen remembers of a host is an investigation that was started.
EntriesWereStarted ==
    \A h \in DOMAIN seen :
        \E j \in DOMAIN started : started[j].ip = h /\ started[j].at = seen[h]

\* The clean-up of _seen drops entries and changes none but the one entered.
LEMMA EntriesStep ==
    ASSUME TypeOK, EntriesWereStarted, [Next]_vars
    PROVE  EntriesWereStarted'
<1>1. CASE Investigate
  <2> DEFINE ip == Head(pipe)
  <2>1. /\ seen' = SeenAfter(seen, ip, now) /\ started' = Append(started, [ip |-> ip, at |-> now])
        /\ started \in Seq([ip : IPs, at : Nat]) /\ now \in Nat
    BY <1>1 DEF Investigate, TypeOK
  <2>2. \A h \in DOMAIN seen : seen[h] \in Nat
    BY SocAgentAssumption DEF TypeOK
  <2> HIDE DEF ip
  <2>3. \A h \in DOMAIN seen' : (h = ip /\ seen'[h] = now) \/ (h \in DOMAIN seen /\ seen'[h] = seen[h])
    BY <2>1, <2>2, SeenAfterEntries
  <2>4. /\ Len(started) + 1 \in DOMAIN started'
        /\ started'[Len(started) + 1] = [ip |-> ip, at |-> now]
        /\ \A j \in DOMAIN started : j \in DOMAIN started' /\ started'[j] = started[j]
    BY <2>1
  <2>5. QED
    BY <2>3, <2>4 DEF EntriesWereStarted
<1>2. CASE UNCHANGED <<seen, started>>
  BY <1>2 DEF EntriesWereStarted
<1>3. CASE DOMAIN seen' = {}
  BY <1>3 DEF EntriesWereStarted
<1>4. QED
  BY <1>1, <1>2, <1>3, HistoryStep DEF Tick, agentVars

\* Every refusal of an alert has its cause: an investigation of that very host
\* that began less than a window ago. A host that _seen has forgotten, or never
\* had, is not refused, whatever time.time() shows.
THEOREM RefusalsHaveCause == Spec => SuppressedWasStarted
<1>1. Init => EntriesWereStarted
  BY DEF Init, EntriesWereStarted
<1>2. ASSUME TypeOK, EntriesWereStarted, Suppress
      PROVE  \E j \in DOMAIN started :
                /\ started[j].ip = Head(pipe)
                /\ now - started[j].at \in 0..(WINDOW - 1)
  <2> DEFINE ip == Head(pipe)
  <2>1. now - LastSeen(seen, ip) < WINDOW
    BY <1>2 DEF Suppress, ShouldProcess
  <2>2. now \in Nat /\ now >= EPOCH /\ EPOCH \in Nat /\ EPOCH >= WINDOW /\ WINDOW \in Nat
    BY <1>2, SocAgentAssumption, WindowAssumption DEF TypeOK
  <2> HIDE DEF ip
  <2>3. ip \in DOMAIN seen
    BY <2>1, <2>2 DEF LastSeen
  <2>4. seen[ip] \in EPOCH..now /\ now - seen[ip] < WINDOW
    BY <1>2, <2>1, <2>3 DEF TypeOK, LastSeen
  <2>5. PICK j \in DOMAIN started : started[j].ip = ip /\ started[j].at = seen[ip]
    BY <1>2, <2>3 DEF EntriesWereStarted
  <2>6. now - started[j].at \in 0..(WINDOW - 1)
    BY <2>2, <2>4, <2>5
  <2>7. QED
    BY <2>5, <2>6 DEF ip
<1>3. QED
  BY <1>1, <1>2, TypeCorrect, EntriesStep, PTL DEF Spec, SuppressedWasStarted
=============================================================================
