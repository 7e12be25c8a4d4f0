------------------------------- MODULE Worker -------------------------------
(***************************************************************************)
(* The run process (run.c): one per word.  It opens the result queue and   *)
(* its pipe, waits for the graph, runs the automaton on its word, commits  *)
(* the result to the server and exits.  The server outlives its children   *)
(* here, so the parent-death signal of lines 99, 114 and 155 never comes.  *)
(***************************************************************************)
EXTENDS Posix

VARIABLE workerRunQ     \* the generation of runOutputQueue each run opened

workerVars == <<workerRunQ>>

WorkerTypeOK == workerRunQ \in [Pids -> Generation]
WorkerInit   == workerRunQ = [w \in Pids |-> 0]

MoveRun(w, state) == runState' = [runState EXCEPT ![w] = state]

(* Setup, then msgQueueOpen: the queue is created if the server removed it. *)
OpenQueues(w) ==
    /\ runState[w] = "boot"
    /\ MoveRun(w, "graph")
    /\ workerRunQ' = [workerRunQ EXCEPT ![w] = OpenQueue("run")]
    /\ UNCHANGED <<queueVars, runWord, graphPipe, faults>>

(* msgPipeRead blocks until the server has pushed the graph; the automaton  *)
(* then runs without touching anything shared.                              *)
ReadGraph(w) ==
    /\ runState[w] = "graph"
    /\ w \in graphPipe
    /\ graphPipe' = graphPipe \ {w}
    /\ MoveRun(w, "commit")
    /\ UNCHANGED <<queueVars, runWord, faults, workerRunQ>>

(* "run-terminate: <pid> <result>", blocking while the queue is full. *)
CommitResult(w) ==
    /\ runState[w] = "commit"
    /\ HasRoom(runQ[workerRunQ[w]])
    /\ runQ' = Sent(runQ, workerRunQ[w],
                    [pid |-> w, result |-> runWord[w] \in Accepted])
    /\ MoveRun(w, "exiting")
    /\ UNCHANGED <<registerQ, reportQ, testerQ, unlinked, runWord, graphPipe,
                   faults, workerRunQ>>

(* Close the queue and the pipe, return 0. *)
ExitRun(w) ==
    /\ runState[w] = "exiting"
    /\ MoveRun(w, "zombie")
    /\ UNCHANGED <<queueVars, runWord, graphPipe, faults, workerRunQ>>

(* A signal, a failed execve or a fatal error ends the run before or after  *)
(* it has committed its result.                                             *)
Crash(w) ==
    /\ Running(w)
    /\ Fault("crash")
    /\ MoveRun(w, "failed")
    /\ UNCHANGED <<queueVars, runWord, graphPipe, workerRunQ>>

RunStep(w) == OpenQueues(w) \/ ReadGraph(w) \/ CommitResult(w) \/ ExitRun(w)
=============================================================================
