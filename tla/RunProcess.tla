----------------------------- MODULE RunProcess -----------------------------
(***************************************************************************)
(* One run (run.c) and the server that feeds it: the server writes the     *)
(* description of the automaton into the pipe of the word after the fork   *)
(* (validator.c), the run reads it once, loads it, calculates the answer   *)
(* (Acceptance) and sends it.  Either may die.  The size of a description  *)
(* is its number of lines, and so are the pieces and the capacity of the   *)
(* pipe: a text cut inside a line is cut before it.                        *)
(***************************************************************************)
EXTENDS Acceptance

CONSTANTS
  Descriptions,   \* the automata a server may have been given
  TestWords,      \* the words it is asked about
  CAP,            \* what the kernel buffers of a pipe
  MaxBudget       \* bound: failing forks and processes

ASSUME RunAssumption == CAP \in Nat \ {0} /\ MaxBudget \in Nat

\* What the README allows: the states of an automaton are among 0 .. Q-1, and its
\* words are over its alphabet, which is finite.
ASSUME DescriptionAssumption ==
  /\ IsFiniteSet(States) /\ IsFiniteSet(Letters)
  /\ TestWords \subseteq Seq(Letters)
  /\ \A d \in Descriptions :
       /\ d.q0 \in States /\ d.U \in Nat /\ d.accepting \subseteq States
       /\ d.lines \in Seq([q : States, a : Letters, rs : Seq(States)])

VARIABLES
  desc,       \* transitionGraphDesc of the server
  unwritten,  \* how much of it the server has not yet written
  pipe,       \* how much of it waits in the pipe
  alive,      \* the server is alive
  pc,         \* the statement of run.c
  parent_terminated_sig,
  result,     \* what the run has sent
  full,       \* the result queue of the server holds MSG_QUEUE_SIZE messages
  deaf        \* history: the server died when the run could not notice

runVars == <<desc, unwritten, pipe, alive, pc, parent_terminated_sig, result, full, deaf>>

Root == <<>>

EmptyGraph == [q0 |-> 0, U |-> 0, accepting |-> {}, graph |-> initTransitionGraph]

RunInit ==
  /\ desc \in Descriptions
  /\ word \in TestWords
  /\ unwritten = Len(desc.lines) /\ pipe = 0
  /\ alive = TRUE
  /\ pc = "exec"
  /\ parent_terminated_sig = FALSE
  /\ result = NONE /\ full = FALSE
  /\ deaf = FALSE
  /\ tg = EmptyGraph /\ procs = <<>> /\ branch = <<>>
  /\ budget = MaxBudget /\ garbled = FALSE

-----------------------------------------------------------------------------
(* The server.  It holds both ends of the pipe, so its write blocks while   *)
(* the pipe is full, whether or not the run still reads.                   *)

PushGraph ==
  /\ alive /\ unwritten > 0 /\ pipe < CAP
  /\ LET n == Min({unwritten, CAP - pipe})
     IN  unwritten' = unwritten - n /\ pipe' = pipe + n
  /\ UNCHANGED <<desc, alive, pc, parent_terminated_sig, result, full, deaf, acceptVars>>

\* The result queue is everybody's: other runs fill it, the server empties it or
\* does something else.  What it holds before the run has a result is of no matter.
QueueMatters == pc \in {"commit", "sending"}

OthersCommit ==
  /\ QueueMatters /\ ~ full /\ full' = TRUE
  /\ UNCHANGED <<desc, unwritten, pipe, alive, pc, parent_terminated_sig, result, deaf, acceptVars>>

ServerReads ==
  /\ QueueMatters /\ full /\ full' = FALSE
  /\ alive /\ unwritten = 0
  /\ UNCHANGED <<desc, unwritten, pipe, alive, pc, parent_terminated_sig, result, deaf, acceptVars>>

Blocked == (pc = "reading" /\ pipe = 0) \/ pc = "sending"

\* From prctl on the kernel sends the signal, which interrupts a blocked read and
\* a blocked mq_send.  It is too early before prctl, and it interrupts nothing
\* between the last test of its flag and the call.
ServerDies ==
  /\ alive /\ alive' = FALSE
  /\ parent_terminated_sig' = (pc \notin {"exec", "gone"})
  /\ pc' = IF Blocked THEN "gone" ELSE pc
  /\ deaf' = (pc \in {"exec", "commit"} \/ (pc = "checked" /\ pipe = 0))
  /\ UNCHANGED <<desc, unwritten, pipe, result, full, acceptVars>>

-----------------------------------------------------------------------------
(* The run, statement by statement *)

Prctl ==
  /\ pc = "exec" /\ pc' = "armed"
  /\ UNCHANGED <<desc, unwritten, pipe, alive, parent_terminated_sig, result, full, deaf, acceptVars>>

\* The operators named Mutant... are plausible slips in the definition that
\* follows each of them; nothing else uses them.
MutantNoTest ==
  /\ pc = "armed" /\ pc' = "checked"
  /\ UNCHANGED <<desc, unwritten, pipe, alive, parent_terminated_sig, result, full, deaf, acceptVars>>

\* The tests in lines 99 and 114 enclose only the opening of queue and pipe.
CheckParent ==
  /\ pc = "armed"
  /\ pc' = IF parent_terminated_sig THEN "gone" ELSE "checked"
  /\ UNCHANGED <<desc, unwritten, pipe, alive, parent_terminated_sig, result, full, deaf, acceptVars>>

EnterRead ==
  /\ pc = "checked" /\ pc' = "reading"
  /\ UNCHANGED <<desc, unwritten, pipe, alive, parent_terminated_sig, result, full, deaf, acceptVars>>

MutantReadsOneLine ==
  /\ pc = "reading" /\ pipe > 0 /\ pc' = "loaded"
  /\ pipe' = pipe - 1
  /\ tg' \in loadTransitionGraph(desc, SubSeq(desc.lines, 1, 1))
  /\ UNCHANGED <<desc, unwritten, alive, parent_terminated_sig, result, full, deaf,
                 word, procs, branch, budget, garbled>>

\* One read takes what the pipe holds; what is written later stays unread.
ReadGraph ==
  /\ pc = "reading" /\ pipe > 0
  /\ pipe' = 0
  /\ LET lines == SubSeq(desc.lines, 1, pipe)
     IN  /\ tg' \in loadTransitionGraph(desc, lines)
         /\ \/ pc' = "loaded"
            \/ SplitLines(lines) # {} /\ pc' = "gone"
  /\ UNCHANGED <<desc, unwritten, alive, parent_terminated_sig, result, full, deaf,
                 word, procs, branch, budget, garbled>>

AcceptAsync ==
  /\ pc = "loaded" /\ pc' = "accepting"
  /\ procs' = [p \in {Root} |-> Started(Root, 1, 0)]
  /\ UNCHANGED <<desc, unwritten, pipe, alive, parent_terminated_sig, result, full, deaf,
                 word, tg, branch, budget, garbled>>

\* A signal that arrives while the run waits for its children interrupts wait.
Interrupted(p) == p = Root /\ parent_terminated_sig

Accepting ==
  /\ pc = "accepting"
  /\ \E p \in DOMAIN procs :
       \/ Works(p)
       \/ WaitForAll(p, FALSE)
       \/ Interrupted(p) /\ WaitForAll(p, TRUE)
  /\ UNCHANGED runVars

Accepted == pc = "accepting" /\ procs[Root].stack = <<>> /\ procs[Root].ret # NONE

RunFails ==
  /\ pc = "accepting" /\ procs[Root].status = "failed"
  /\ pc' = "gone"
  /\ UNCHANGED <<desc, unwritten, pipe, alive, parent_terminated_sig, result, full, deaf, acceptVars>>

CheckBeforeResult ==
  /\ Accepted /\ Runs(Root)
  /\ pc' = IF parent_terminated_sig THEN "gone" ELSE "commit"
  /\ UNCHANGED <<desc, unwritten, pipe, alive, parent_terminated_sig, result, full, deaf, acceptVars>>

\* mq_send blocks while the queue is full.
BlockOnSend ==
  /\ pc = "commit" /\ full /\ pc' = "sending"
  /\ UNCHANGED <<desc, unwritten, pipe, alive, parent_terminated_sig, result, full, deaf, acceptVars>>

CommitResult ==
  /\ pc \in {"commit", "sending"} /\ ~ full /\ pc' = "gone"
  /\ result' = procs[Root].ret
  /\ UNCHANGED <<desc, unwritten, pipe, alive, parent_terminated_sig, full, deaf, acceptVars>>

AcceptanceFaults ==
  /\ pc = "accepting"
  /\ \E p \in DOMAIN procs : ForkFails(p) \/ Abort(p)
  /\ UNCHANGED runVars

\* A system call fails before the acceptance starts, or the run is killed.
RunDies ==
  /\ pc \notin {"accepting", "gone"} /\ pc' = "gone"
  /\ budget > 0 /\ budget' = budget - 1
  /\ UNCHANGED <<desc, unwritten, pipe, alive, parent_terminated_sig, result, full, deaf,
                 word, tg, procs, branch, garbled>>

RunSteps ==
  \/ Prctl \/ CheckParent \/ EnterRead \/ ReadGraph \/ AcceptAsync
  \/ Accepting \/ RunFails \/ CheckBeforeResult \/ BlockOnSend \/ CommitResult

RunNext ==
  \/ PushGraph \/ RunSteps \/ ServerDies \/ RunDies \/ AcceptanceFaults
  \/ OthersCommit \/ ServerReads

\* The kernel schedules every process that can take a step, and serves those that
\* wait for room in a queue in their order.  Faults are not owed, and neither is it
\* that the server reads its results: it may wait for a tester instead.
RunSpec == RunInit /\ [][RunNext]_<<runVars, acceptVars>>
                   /\ WF_<<runVars, acceptVars>>(PushGraph)
                   /\ WF_<<runVars, acceptVars>>(RunSteps)
                   /\ SF_<<runVars, acceptVars>>(CommitResult)

-----------------------------------------------------------------------------
(* Properties *)

\* Type correctness: what waits in the pipe fits it, and every process of the
\* fork tree that has written an answer is one that was forked.
RunTypeOK ==
  /\ desc \in Descriptions /\ word \in TestWords
  /\ unwritten \in 0 .. Len(desc.lines) /\ pipe \in 0 .. CAP
  /\ alive \in BOOLEAN /\ parent_terminated_sig \in BOOLEAN
  /\ full \in BOOLEAN /\ deaf \in BOOLEAN
  /\ garbled \in BOOLEAN /\ budget \in 0 .. MaxBudget
  /\ pc \in {"exec", "armed", "checked", "reading", "loaded", "accepting", "commit",
             "sending", "gone"}
  /\ result \in BOOLEAN \cup {NONE}
  /\ DOMAIN branch \subseteq DOMAIN procs
  /\ \A p \in DOMAIN procs :
       /\ procs[p].status \in {"running", "ended", "failed", "hung"}
       /\ procs[p].ret \in BOOLEAN \cup {NONE}
       /\ \A k \in DOMAIN procs[p].stack :
            procs[p].stack[k].ph \in {"fork", "local", "origin", "wait", "read"}

\* What the kernel can buffer and a piece can hold, and every line lists a state.
Fits ==
  /\ Len(desc.lines) <= CAP /\ SplitLines(desc.lines) = {}
  /\ \A k \in DOMAIN desc.lines : desc.lines[k].rs # <<>>

\* The answer a run sends is the one of the definition of acceptance, however
\* the computation was distributed over processes, forks failed and processes
\* died: for a description that fits the pipe and the pieces, unless a branch
\* whose fork had failed was read from a pipe that was never opened.
AnswerRight ==
  (result # NONE /\ Fits /\ ~ garbled) => result = Accept(desc, desc.q0, word)

\* A run that sends an answer has seen every process it caused end well: no
\* failure of a process of the fork tree is lost on the way to the server.
NoBranchLost ==
  result # NONE =>
    \A p \in DOMAIN procs \ {Root} : procs[p].status = "ended" /\ p \in DOMAIN branch

\* As long as no fork fails, a process forks itself at most RUN_FORK_LIMIT times
\* beyond the branches of one node, although the limit is tested per node.
ForksBounded ==
  \A p \in DOMAIN procs :
    budget = MaxBudget =>
      Cardinality(Children(p)) <=
        RUN_FORK_LIMIT + Max({Len(tg.graph[q][a]) : q \in States, a \in Letters} \cup {1}) - 1

\* A run whose server lives ends, whatever fails in its processes, unless the
\* result queue stays full: its send waits for a server that no longer reads.
RunEnds == <>(pc = "gone" \/ garbled \/ ~ alive) \/ <>[](pc = "sending" /\ full)

\* A run whose server has died ends as well, unless the server died before the
\* run asked for the signal, or in one of the two windows between a test of its
\* flag and a call that blocks, the read of the graph and the send of the result.
OrphanEnds == ~ alive ~> (pc = "gone" \/ garbled \/ (deaf /\ Blocked))

\* The write of the server ends, although the run reads only once, for a text of
\* twice the capacity of the pipe, unless the run or one of its processes failed:
\* nothing else stops the server from waiting for a reader that it is itself.
WriteEnds ==
  Len(desc.lines) <= 2 * CAP => <>(unwritten = 0 \/ ~ alive \/ budget < MaxBudget)

\* The graph a run works with is the one its server was given.
GraphDelivered ==
  pc = "loaded" => \A q \in States, a \in Letters : Range(tg.graph[q][a]) = T(desc, q, a)
=============================================================================
