------------------------------ MODULE HostTools ------------------------------
(***************************************************************************)
(* The tools that look at the host: get_pid_by_connection                  *)
(* (src/mcp_server/tools/net_tools.cpp) finds a row of /proc/net/tcp by    *)
(* its port and then searches the descriptors of one process after the     *)
(* other; analyze_process_behavior (os_tools.cpp) reads a command line.    *)
(* Meanwhile processes start, end, open, close and share sockets. The      *)
(* table and the processes are the kernel's: external.                     *)
(***************************************************************************)
EXTENDS Integers, Sequences, FiniteSets, FiniteSetsExt

CONSTANTS
    Pids,     \* process numbers, in the order in which /proc lists them
    Ports,    \* ports of connections
    Inodes,   \* numbers of sockets
    MaxSteps  \* bound: changes of the host

VARIABLES
    running,  \* the processes
    holds,    \* per process, the sockets among its descriptors
    table,    \* the rows of /proc/net/tcp
    lookup,   \* the call of get_pid_by_connection in progress
    profile,  \* the last answer of analyze_process_behavior
    steps,    \* history: changes of the host
    steady    \* history: the processes that held the only connection on the port
              \* asked for from the start of the call until now

vars == <<running, holds, table, lookup, profile, steps, steady>>

NoLookup == [at |-> "idle", port |-> 0, target |-> 0, seen |-> 0, pid |-> 0]

Init ==
    /\ running \in SUBSET Pids /\ holds = [p \in Pids |-> {}] /\ table = <<>>
    /\ lookup = NoLookup /\ profile = "none"
    /\ steps = 0 /\ steady = {}
-----------------------------------------------------------------------------
(* The host.                                                               *)

Holders(inode) == {p \in running : inode \in holds[p]}

\* A row as the kernel prints it, one entry per word: the counters of the two
\* queues and the timer with its time are one word each.
Words(row) ==
    <<"sl", row.local, row.remote, "st", "tx:rx", "tr:when", "retrnsmt", "uid", "timeout",
      row.inode, row.refs>>

\* A change of the host, and who of the holders is left.
Changed ==
    /\ steps < MaxSteps /\ steps' = steps + 1
    /\ steady' = {p \in steady : p \in running' /\ holds[p] \subseteq holds'[p]}
    /\ UNCHANGED <<lookup, profile>>

Connect(p, local, remote, inode) ==
    /\ p \in running /\ \A i \in DOMAIN table : table[i].inode # inode
    /\ table' = Append(table, [local |-> local, remote |-> remote, inode |-> inode, refs |-> 1])
    /\ holds' = [holds EXCEPT ![p] = @ \cup {inode}]
    /\ UNCHANGED running /\ Changed

\* A child starts with the descriptors of its parent.
Fork(p, child) ==
    /\ p \in running /\ child \notin running
    /\ running' = running \cup {child}
    /\ holds' = [holds EXCEPT ![child] = holds[p]]
    /\ UNCHANGED table /\ Changed

\* A process ends; a socket that nobody holds any more waits in the table
\* without an inode.
Exit(p) ==
    /\ p \in running
    /\ running' = running \ {p}
    /\ holds' = [holds EXCEPT ![p] = {}]
    /\ table' = [i \in DOMAIN table |->
                    IF Holders(table[i].inode) = {p} THEN [table[i] EXCEPT !.inode = 0]
                    ELSE table[i]]
    /\ Changed
-----------------------------------------------------------------------------
(* NetTools::execute, parse_proc_net_tcp.                                  *)

\* The rows with the port on either side; the address is not compared.
Connections(port) == {i \in DOMAIN table : port \in {table[i].local, table[i].remote}}

\* The search is one of the whole line for a colon and the digits of the port:
\* a receive queue or a timer that begins with those digits is found as well.
Matching(port, spelling) == Connections(port) \cup spelling

\* The eleventh word of the first matching row is taken for the inode.
Target(rows) == Words(table[Min(rows)])[11]

Answered(pid) == lookup' = [lookup EXCEPT !.at = "answered", !.pid = pid]

\* The table is read while the counters of the rows in spelling spell the port.
ReadTable(port, spelling) ==
    LET rows == Matching(port, spelling)
    IN  /\ lookup.at # "scanning"
        /\ lookup' = IF rows = {} \/ Target(rows) = 0
                     THEN [NoLookup EXCEPT !.at = "answered", !.port = port, !.pid = -1]
                     ELSE [NoLookup EXCEPT !.at = "scanning", !.port = port,
                                           !.target = Target(rows)]
        /\ steady' = IF Cardinality(Connections(port)) = 1
                     THEN Holders(table[Min(Connections(port))].inode) ELSE {}
        /\ UNCHANGED <<running, holds, table, profile, steps>>

\* The next process of /proc: one of its descriptors is the socket, or not.
ScanProcess ==
    /\ lookup.at = "scanning"
    /\ LET ahead == {p \in running : p > lookup.seen} IN
       IF ahead = {} THEN Answered(-1)
       ELSE IF lookup.target \in holds[Min(ahead)] THEN Answered(Min(ahead))
       ELSE lookup' = [lookup EXCEPT !.seen = Min(ahead)]
    /\ UNCHANGED <<running, holds, table, profile, steps, steady>>

\* OSTools::execute: the command line of whoever has the number by now.
Analyze(pid) ==
    /\ profile' = IF pid \in running THEN "cmdline" ELSE "failed"
    /\ UNCHANGED <<running, holds, table, lookup, steps, steady>>

Next ==
    \/ \E p \in Pids, local, remote \in Ports, inode \in Inodes : Connect(p, local, remote, inode)
    \/ \E p, child \in Pids : Fork(p, child)
    \/ \E p \in Pids : Exit(p) \/ Analyze(p)
    \/ \E port \in Ports, spelling \in SUBSET DOMAIN table : ReadTable(port, spelling)
    \/ ScanProcess

Spec == Init /\ [][Next]_vars
-----------------------------------------------------------------------------
\* What the test of the tool asserts (test_integration.py:151) and README.md:265
\* says: the process that holds the only connection on the port, from the start
\* of the call to its end, is found. Only a failed answer is judged; when several
\* processes share the socket any of them will do.
OwnerIsFound ==
    (lookup.at = "answered" /\ lookup.pid = -1) => steady = {}
=============================================================================
