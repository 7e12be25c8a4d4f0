---------------------------- MODULE Acceptance ------------------------------
(***************************************************************************)
(* acceptAsync of automaton.h: the computation tree of a word, evaluated   *)
(* by processes that fork themselves.  A node of the tree is the sequence  *)
(* of the branches that lead to it, and a process is named by the node it  *)
(* was forked for; the run itself is <<>>.                                 *)
(***************************************************************************)
EXTENDS Automaton, FiniteSets

CONSTANTS
  RUN_WORKLOAD_LIMIT,
  RUN_FORK_LIMIT,
  NONE        \* no value yet

ASSUME AcceptanceAssumption ==
  RUN_WORKLOAD_LIMIT \in Nat /\ RUN_FORK_LIMIT \in Nat /\ NONE \notin BOOLEAN

VARIABLES
  word,      \* the word of the run
  tg,        \* the graph it has loaded
  procs,     \* the processes: stack of acceptAsync_node, returned value, status
  branch,    \* the pipes: what the process forked for a node has written
  budget,    \* faults of the environment that are left
  garbled    \* history: a pipe that was never opened has been read

acceptVars == <<word, tg, procs, branch, budget, garbled>>

StateAt(node) ==
  LET at[k \in 0 .. Len(node)] == IF k = 0 THEN tg.q0
                                  ELSE tg.graph[at[k-1]][word[k]][node[k] + 1]
  IN  at[Len(node)]

Existentially(node) == Existential(tg, StateAt(node))

BranchCount(node) == Len(tg.graph[StateAt(node)][word[Len(node) + 1]])

Overloaded(workload, parent_fork_count) ==
  ~ (workload < RUN_WORKLOAD_LIMIT \/ parent_fork_count > RUN_FORK_LIMIT)

\* The operators named Mutant... are plausible slips in the definition that
\* follows each of them; nothing else uses them.
MutantForksForgotten(stack, node, load, parent_fork_count) ==
  IF Len(node) >= Len(word) THEN [stack |-> stack, ret |-> StateAt(node) \in tg.accepting]
  ELSE [stack |-> Append(stack, [node |-> node, workload |-> load + 1,
                                 fork_count |-> parent_fork_count,
                                 ph |-> "fork", i |-> 1, value |-> NONE,
                                 opened_state |-> {}]),
        ret |-> NONE]

\* acceptAsync_rec up to the point where it returns or starts to fork.
acceptAsync_rec(stack, node, load, parent_fork_count) ==
  LET workload == load + 1
      Returns(v) == [stack |-> stack, ret |-> v]
  IN  IF Len(node) >= Len(word) THEN Returns(StateAt(node) \in tg.accepting)
      ELSE IF ~ Overloaded(workload, parent_fork_count)
           THEN Returns(acceptSync_rec(tg, word, StateAt(node), Len(node)))
      ELSE IF BranchCount(node) <= 0 THEN Returns(~ Existentially(node))
      ELSE [stack |-> Append(stack, [node |-> node, workload |-> workload,
                                     fork_count |-> parent_fork_count + BranchCount(node) - 1,
                                     ph |-> "fork", i |-> 1, value |-> NONE,
                                     opened_state |-> {}]),
            ret |-> NONE]

Started(node, workload, forks) ==
  LET r == acceptAsync_rec(<<>>, node, workload, forks)
  IN  [stack |-> r.stack, ret |-> r.ret, status |-> "running"]

\* The function that differs from f in the value at x, which may be new.
Put(f, x, v) == [y \in DOMAIN f \cup {x} |-> IF y = x THEN v ELSE f[y]]

-----------------------------------------------------------------------------
(* The steps of a process.  f is the frame of the acceptAsync_node it is in. *)

Runs(p) == procs[p].status = "running"

InNode(p, ph, returned) ==
  /\ Runs(p)
  /\ procs[p].stack # <<>>
  /\ Last(procs[p].stack).ph = ph
  /\ returned <=> procs[p].ret # NONE

Frame(p) == Last(procs[p].stack)

\* The process goes on with the frame g, or calls, or returns from the node.
With(p, g) == [procs EXCEPT ![p].stack = Append(Front(@), g), ![p].ret = NONE]

Calls(p, g, node, load) ==
  LET r == acceptAsync_rec(Append(Front(procs[p].stack), g), node, load, g.fork_count)
  IN  [procs EXCEPT ![p].stack = r.stack, ![p].ret = r.ret]

ReturnsFrom(p, v) == [procs EXCEPT ![p].stack = Front(@), ![p].ret = v]

Decisive(f, v) == v = Existentially(f.node)

ForkSucceeds(p) ==
  /\ InNode(p, "fork", FALSE)
  /\ LET f == Frame(p)
     IN  /\ f.i < BranchCount(f.node)
         /\ procs' = Put(With(p, [f EXCEPT !.i = @ + 1, !.opened_state = @ \cup {f.i}]),
                         Append(f.node, f.i), Started(Append(f.node, f.i), 0, f.fork_count))
  /\ UNCHANGED <<word, tg, branch, budget, garbled>>

\* The branch is calculated by the process itself.
ForkFails(p) ==
  /\ InNode(p, "fork", FALSE)
  /\ budget > 0 /\ budget' = budget - 1
  /\ LET f == Frame(p)
     IN  /\ f.i < BranchCount(f.node)
         /\ procs' = Calls(p, [f EXCEPT !.ph = "local"], Append(f.node, f.i), 0)
  /\ UNCHANGED <<word, tg, branch, garbled>>

LocalValue(p) ==
  /\ InNode(p, "local", TRUE)
  /\ LET f == Frame(p)
     IN  procs' = IF Decisive(f, procs[p].ret)
                  THEN With(p, [f EXCEPT !.ph = "wait", !.value = procs[p].ret])
                  ELSE With(p, [f EXCEPT !.ph = "fork", !.i = @ + 1])
  /\ UNCHANGED <<word, tg, branch, budget, garbled>>

Origin(p) ==
  /\ InNode(p, "fork", FALSE)
  /\ LET f == Frame(p)
     IN  /\ f.i = BranchCount(f.node)
         /\ procs' = Calls(p, [f EXCEPT !.ph = "origin"], Append(f.node, 0), f.workload)
  /\ UNCHANGED <<word, tg, branch, budget, garbled>>

OriginValue(p) ==
  /\ InNode(p, "origin", TRUE)
  /\ procs' = With(p, [Frame(p) EXCEPT !.ph = "wait", !.value = procs[p].ret])
  /\ UNCHANGED <<word, tg, branch, budget, garbled>>

\* The children of a process: those forked for a node it calculates itself.
Children(p) ==
  {c \in DOMAIN procs \ {p} :
     /\ IsPrefix(p, c)
     /\ \A o \in DOMAIN procs : IsPrefix(o, c) /\ o # c => IsPrefix(o, p)}

MutantWaitOnlyToRead(p, interrupted) ==
  /\ InNode(p, "wait", FALSE)
  /\ LET f == Frame(p)
     IN  /\ Decisive(f, f.value) \/ \A c \in Children(p) : procs[c].status = "ended"
         /\ procs' = IF Decisive(f, f.value) THEN ReturnsFrom(p, f.value)
                     ELSE With(p, [f EXCEPT !.ph = "read", !.i = 1])
  /\ UNCHANGED <<word, tg, branch, budget, garbled>>

\* processWaitForAll waits for every child of the process, those of the nodes
\* further up included; a signal or a failed child ends the process.
WaitForAll(p, interrupted) ==
  /\ InNode(p, "wait", FALSE)
  /\ \A c \in Children(p) : ~ Runs(c) /\ procs[c].status # "hung"
  /\ LET f == Frame(p)
     IN  procs' = IF interrupted \/ \E c \in Children(p) : procs[c].status = "failed"
                  THEN [procs EXCEPT ![p].status = "failed"]
                  ELSE IF Decisive(f, f.value) THEN ReturnsFrom(p, f.value)
                  ELSE With(p, [f EXCEPT !.ph = "read", !.i = 1])
  /\ UNCHANGED <<word, tg, branch, budget, garbled>>

Takes(p, f, v) ==
  procs' = IF Decisive(f, v) THEN ReturnsFrom(p, v) ELSE With(p, [f EXCEPT !.i = @ + 1])

ReadBranch(p) ==
  /\ InNode(p, "read", FALSE)
  /\ LET f == Frame(p)
     IN  /\ f.i < BranchCount(f.node) /\ f.i \in f.opened_state
         /\ Takes(p, f, branch[Append(f.node, f.i)])
  /\ UNCHANGED <<word, tg, branch, budget, garbled>>

\* The branch was calculated here, but its pipe is read all the same: it is an
\* uninitialised variable, so the process fails, or waits for a descriptor that
\* happens to be open, or takes what is written there.
ReadUnopened(p) ==
  /\ InNode(p, "read", FALSE)
  /\ LET f == Frame(p)
     IN  /\ f.i < BranchCount(f.node) /\ f.i \notin f.opened_state
         /\ \/ \E s \in {"failed", "hung"} : procs' = [procs EXCEPT ![p].status = s]
            \/ \E v \in BOOLEAN : Takes(p, f, v)
  /\ garbled' = TRUE
  /\ UNCHANGED <<word, tg, branch, budget>>

MutantLastUnread(p) ==
  /\ InNode(p, "read", FALSE)
  /\ Frame(p).i = BranchCount(Frame(p).node) - 1
  /\ procs' = ReturnsFrom(p, ~ Existentially(Frame(p).node))
  /\ UNCHANGED <<word, tg, branch, budget, garbled>>

AllRead(p) ==
  /\ InNode(p, "read", FALSE)
  /\ LET f == Frame(p)
     IN  f.i = BranchCount(f.node) /\ procs' = ReturnsFrom(p, ~ Existentially(f.node))
  /\ UNCHANGED <<word, tg, branch, budget, garbled>>

MutantNoExit(p) ==
  /\ p # <<>> /\ Runs(p) /\ procs[p].stack = <<>> /\ procs[p].ret # NONE
  /\ branch' = Put(branch, p, procs[p].ret)
  /\ UNCHANGED <<word, tg, procs, budget, garbled>>

MutantFirstPipe(p) ==
  /\ p # <<>> /\ Runs(p) /\ procs[p].stack = <<>> /\ procs[p].ret # NONE
  /\ branch' = Put(branch, Append(Front(p), 0), procs[p].ret)
  /\ procs' = [procs EXCEPT ![p].status = "ended"]
  /\ UNCHANGED <<word, tg, budget, garbled>>

\* A forked process writes A or N and exits.
Report(p) ==
  /\ p # <<>> /\ Runs(p) /\ procs[p].stack = <<>> /\ procs[p].ret # NONE
  /\ branch' = Put(branch, p, procs[p].ret)
  /\ procs' = [procs EXCEPT ![p].status = "ended"]
  /\ UNCHANGED <<word, tg, budget, garbled>>

\* A system call fails, or the process is killed.
Abort(p) ==
  /\ Runs(p)
  /\ budget > 0 /\ budget' = budget - 1
  /\ procs' = [procs EXCEPT ![p].status = "failed"]
  /\ UNCHANGED <<word, tg, branch, garbled>>

Works(p) ==
  \/ ForkSucceeds(p) \/ LocalValue(p) \/ Origin(p) \/ OriginValue(p)
  \/ ReadBranch(p) \/ ReadUnopened(p) \/ AllRead(p) \/ Report(p)
=============================================================================
