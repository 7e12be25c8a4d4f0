------------------------------- MODULE Posix -------------------------------
(***************************************************************************)
(* What the three programs share: the POSIX message queues of msg_queue.h  *)
(* and the table of run processes that fork.h creates and waits for.       *)
(*                                                                         *)
(* A queue name may be unlinked once in the life of a server; a process    *)
(* that opens the name afterwards creates a new queue (O_CREAT), while the *)
(* handles opened before keep the old one.  Every queue therefore has two  *)
(* generations, and a handle is the generation its holder opened.          *)
(***************************************************************************)
EXTENDS Integers, Sequences, FiniteSets

CONSTANTS
    Testers,      \* the tester processes, by pid
    MaxRuns,      \* bound: run processes one server may fork
    MaxLines,     \* bound: input lines of one tester, end of input included
    QueueCap,     \* MSG_QUEUE_SIZE: messages a queue holds
    Words,        \* the words testers may ask about
    Accepted,     \* the words the automaton of the server accepts
    Faults,       \* the kinds of fault the environment may inject
    MaxFaults,    \* bound: faults in one behaviour
    NULL          \* the null pointer

Pids       == 1 .. MaxRuns
LocIds     == 1 .. MaxLines
Generation == {0, 1}
ServerQueues == {"register", "report", "run"}

(* The queue of a tester, named by the tester, is none of the server's.     *)
ASSUME PosixAssumption ==
    /\ MaxRuns \in Nat
    /\ MaxLines \in Nat
    /\ QueueCap \in Nat \ {0}
    /\ Accepted \subseteq Words
    /\ MaxFaults \in Nat
    /\ Testers \cap ServerQueues = {}

(* The messages, by queue. *)
Parse     == [type : {"parse"}, tester : Testers, loc_id : LocIds, word : Words]
Exit      == [type |-> "exit"]
RunResult == [pid : Pids, result : BOOLEAN]
Answer    == [type : {"answer"}, loc_id : LocIds, result : BOOLEAN]

VARIABLES
    registerQ,    \* /FinAutomRegisterQueue: pids of testers
    reportQ,      \* /FinAutomReportQueue: Parse and Exit messages
    runQ,         \* /FinAutomRunOutQueue: RunResult messages
    testerQ,      \* /FinAutomTesterInQ<pid>: Answer and Exit messages
    unlinked,     \* the names that were unlinked
    runState,     \* the state of each run process
    runWord,      \* argv[2] of each run process
    graphPipe,    \* the runs whose pipe holds the graph description
    faults        \* faults injected so far

queueVars   == <<registerQ, reportQ, runQ, testerQ, unlinked>>
processVars == <<runState, runWord, graphPipe>>
posixVars   == <<queueVars, processVars, faults>>

(* mq_open: the generation a process that opens the name now gets. *)
OpenQueue(name) == IF name \in unlinked THEN 1 ELSE 0

(* mq_send blocks on a full queue, mq_receive on an empty one. *)
HasRoom(queue)     == Len(queue) < QueueCap
HasMessage(queue)  == queue # <<>>
Sent(queues, gen, msg) == [queues EXCEPT ![gen] = Append(@, msg)]
Received(queues, gen)  == [queues EXCEPT ![gen] = Tail(@)]

(* The life of a run process: "boot" until it has opened its queue, "graph" *)
(* until it has the graph, "commit" until it has sent its result,           *)
(* "exiting" until it exits; "zombie" and "failed" wait to be reaped.       *)
RunStates   == {"none", "boot", "graph", "commit", "exiting",
                "zombie", "failed", "reaped"}
Running(w)  == runState[w] \in {"boot", "graph", "commit", "exiting"}
Zombie(w)   == runState[w] \in {"zombie", "failed"}

(* fork() + execve() in processExec: the child starts with its word. *)
Fork(w, word) ==
    /\ runState[w] = "none"
    /\ \A v \in Pids : v < w => runState[v] # "none"
    /\ runState' = [runState EXCEPT ![w] = "boot"]
    /\ runWord' = [runWord EXCEPT ![w] = word]

(* processWaitForAll: wait() until ECHILD, blocking while a child runs. *)
WaitForAll ==
    /\ \A w \in Pids : ~ Running(w)
    /\ runState' = [w \in Pids |->
                      IF Zombie(w) THEN "reaped" ELSE runState[w]]

(* The environment makes a system call fail or kills a process. *)
Fault(kind) ==
    /\ kind \in Faults
    /\ faults < MaxFaults
    /\ faults' = faults + 1

PosixTypeOK ==
    /\ registerQ \in [Generation -> Seq(Testers)]
    /\ reportQ \in [Generation -> Seq(Parse \cup {Exit})]
    /\ runQ \in [Generation -> Seq(RunResult)]
    /\ testerQ \in [Testers -> [Generation -> Seq(Answer \cup {Exit})]]
    /\ unlinked \subseteq ServerQueues \cup Testers
    /\ runState \in [Pids -> RunStates]
    /\ runWord \in [Pids -> Words \cup {NULL}]
    /\ graphPipe \subseteq Pids
    /\ faults \in 0 .. MaxFaults

PosixInit ==
    /\ registerQ = [g \in Generation |-> <<>>]
    /\ reportQ = [g \in Generation |-> <<>>]
    /\ runQ = [g \in Generation |-> <<>>]
    /\ testerQ = [t \in Testers |-> [g \in Generation |-> <<>>]]
    /\ unlinked = {}
    /\ runState = [w \in Pids |-> "none"]
    /\ runWord = [w \in Pids |-> NULL]
    /\ graphPipe = {}
    /\ faults = 0
=============================================================================
