# Verification of automaton-state-machine

TLA+ models, model-checking runs and machine-checked proofs for the distributed
word validator of this repository: a server (`validator.c`), one short-lived
process per word (`run.c`) and any number of clients (`tester.c`), which talk
through POSIX message queues, pipes and `waitpid`. Paths below are relative to
`src/src/`, except `README.md`, which is the one of the repository.

## 1. The system

| Component | Code | State | Operations | Talks to |
|---|---|---|---|---|
| Server | `validator.c` | sessions of testers and runs, `activeTasksCount`, throttled mode, statistics | one event loop: register, read a result, answer, reap, read a request, spawn; shutdown; exit handler | testers by queues; runs by `fork`, a pipe and a queue |
| Run | `run.c` | its word, the graph it has read | open, read the graph, compute, commit, exit | server |
| Tester | `tester.c` | unread input, saved words by `loc_id`, three counters | register, send a word or the stop, poll an answer, close | server |
| Message queues | `msg_queue.h` | bounded FIFO under a name, descriptors with a blocking mode | open (and create), read, write, unlink | all |
| Processes | `fork.h` | process table of the kernel | fork and exec, wait for all, poll one | server, `automaton.h`, collector |
| Pipes | `msg_pipe.h` | bytes in a pipe, two descriptors | create, write with a length, read | server to run, run to its forks |
| Automaton | `automaton.h` | transition graph | load, accept synchronously, accept with forks | run |
| Exit handlers, collector | `onexit.h`, `gc.h`, `gcinit.h` | handler slots; tables of allocations and destructors | register, run once at exit, free, close, wait for children | all programs |
| Containers | `hashmap.h`, `array_lists.*`, `dynamic_lists.*` | maps and lists | set, get, remove, iterate | server, tester, collector |
| Line input | `getline.h` | none | read a line in pieces | server, tester |
| Memory, generics, logging | `memalloc.h`, `generics.h`, `syslog.h` | none of their own | macros | all |
| Auto-validator | `autovalidator.c` | none | starts a server and testers, waits | server, testers |

How a word travels: a tester saves the word under the next `loc_id` and sends
`parse: pid queue loc_id word` to the request queue. The server forks a run,
saves a session (run -> tester, `loc_id`) and writes the graph into the pipe of the
run. The run sends `run-terminate: pid result` to the result queue. The server
finds the session of the run and the session of its tester and sends
`loc_id answer: result` to the queue of the tester, which prints the saved word.
A tester that reads `!` sends `exit`: the server then accepts no further request,
drains its runs, sends `exit` to every session and removes its queues.

What is hard here, and what makes each part correct:

* **Server.** Its loop has three blocking calls (result queue when throttled,
  request queue when not, send to a tester always) and decides to stop from a
  counter, a map, the last read and the last `waitpid`, while runs move. Correct:
  the counter bounds the runs and equals what is really awaited; each result
  goes to the tester that asked; it stops only with nothing left; whoever has a
  session is told.
* **Run.** It may fail before or after its result is sent. Correct: one result
  per run.
* **Tester.** Answers come in any order and race with `exit` and with its own
  input. Correct: an answer is printed once, with the verdict of its own word; it
  terminates.
* **Queues.** Bounded: senders block, so a cycle of senders can form. Removed
  by name while others open them. Correct use: nobody waits for ever.
* **Exit path.** `exit()` from a failing system call runs the exit handlers.
  Correct: testers learn of it.
* **Automaton.** The computation tree of a word is spread over processes that fork
  themselves, wait for all their children and read one letter from each. Correct: the
  answer is the one of the definition, a failure below is never taken for "no",
  and the number of forks stays bounded.
* **Graph pipe and line input.** The server writes after the fork and holds both ends;
  the run reads once, and lines in pieces. Correct: the run works with the graph the
  server was given, and neither waits for ever.
* **Containers.** Correct: lists are sequences and the map is a dictionary, through
  all reallocations and relinkings and while loops run over them.
* **Collector.** It learns of every allocation and descriptor by calls in `memalloc.h`,
  `msg_queue.h` and `msg_pipe.h`. Correct: its tables match what is live, and a
  process that exits leaves no memory, descriptor or child behind.

## 2. The modules

| Module | Models | Notes |
|---|---|---|
| `Posix` | `msg_queue.h`, `fork.h` | queues with a capacity and two generations per name (before and after unlink); process table |
| `Worker` | `run.c` | boot, read graph, commit, exit, crash |
| `Tester` | `tester.c` | one action per system call of the loop |
| `Server` | `validator.c` | `serverPc` names the system call the loop stands at; an action is that call and everything up to the next one |
| `AutomatonSystem` | composition | `Next`, fairness, every property that relates components, the refinement mapping |
| `Service` | abstract | what the testers are promised, with no process or queue |
| `Automaton` | `automaton.h`, `getline.h` | the reference definition of acceptance, loading of the graph, synchronous acceptance |
| `Acceptance` | `acceptAsync` | one process per branch, its stack of calls of `acceptAsync_node`, the wait and the pipes |
| `RunProcess` | `run.c`, `msg_pipe.h` | a run statement by statement between a server that writes the graph and may die, and the fork tree |
| `Generics` | `void*` elements | data, `NULL` and a modifier function |
| `ArrayListOps`, `ArrayList` | `array_lists.*` | operators on the list record; the calls, and the loop of `ArrayListCopyInto` turn by turn |
| `LinkedList` | `dynamic_lists.*` | a heap of nodes with `left` and `right`, and the roots |
| `HashMap` | `hashmap.h` | the bucket array (an array list), the one bucket that is used, iterators and loops |
| `Collector` | `gcinit.h`, `gc.h`, `onexit.h`, `memalloc.h` | the two tables, descriptors with the lowest free number first, the exit path |
| `SequenceSpec`, `Dictionary` | abstract | what a list and a map promise; each call with its result |
| `MCSystem`, `MCRun`, `MCContainers` | instances for TLC | words and inputs; automata; heaps and keys |
| `AnswerProofs` | theorems | the type invariant of the system; a result finds its session and its tester; one answer for each request, with its verdict; none is lost |
| `ExitProofs` | theorems | `exit` is the last message, every answer is read, sessions stay, a failing server says so |
| `SystemProofs` | theorems | the throttle and its counter, the runs that compute, no waiting in vain, everything collected, the report adds up; every step of the system is a step of `Service`, or none |
| `RunProofs` | theorems | the answer of a run is the one of the definition of acceptance; no failure in its fork tree is lost; its forks are bounded |
| `CollectorProofs` | theorems | exact tables, and a clean exit |
| `ArrayListProofs` | theorems | types of the array lists; no unwritten memory is an element; they implement sequences |
| `LinkedListProofs` | theorems | no dangling pointer; the linked lists stay linked both ways and share no node; they implement sequences |
| `HashMapProofs` | theorems | the map implements a dictionary; what a loop over it visits |

The first three build on each other in this order, since the later invariants need the
earlier ones.

**State and code.** Variables have the names of the C variables where there is
one (`activeTasksCount`, `throttled_mode`, `shouldTerminate`, `rcd_count`,
`loc_id`, `results` ...); `runBlocking` and `reportBlocking` are the `is_blocking` flags
that `msgQueueMakeBlocking` sets; `testerSlots` and `runSlots` are the hash maps as
functions with `NULL` for a missing key; `answering`, `request`, `retry_count` and
`spawned` are the locals that live across a blocking call. `exitPending` is what
is left of the loop that broadcasts `exit`.

**Grain.** Statements between two system calls are one step with the first of the
two: no other process can see them. Reading the queue, routing the result and
counting are therefore one step, and the blocking send of the answer another.

**Composition.** `AutomatonSystem` composes server, runs, testers and queues; there a
run is its life as seen from outside (`Worker`), a word is accepted or it is not, and
the graph is one message. `RunProcess` opens that box for one run: it has the same
steps, but the graph has a size, the acceptance is computed by a fork tree, and the
server is only the writer of the pipe. That one run answers with the verdict of the
definition (`AnswerRight`) is what the set `Accepted` of `AutomatonSystem` assumes, and
that a failure below makes the run fail (`NoBranchLost`) is why a crash there is a
crash of the run. The containers are used by the server as maps (`HashMap` implements
`Dictionary`) and by the tester as a list (`ArrayList` implements `SequenceSpec`), which is
why those modules may use functions.

**The fork tree.** A node of the computation tree is the sequence of branches leading
to it, and a process is named by the node it was forked for. A frame of its stack is one
activation of `acceptAsync_node` with its locals. `branch` holds what each forked process
wrote into its pipe. After a failed fork the code reads a pipe it never opened
(`automaton.h:383`): `ReadUnopened` chooses between failing, waiting and either value, and
`garbled` records it.

**The graph.** The size of a description is counted in transition lines: `CAP` lines are
what the kernel buffers, `PIECE` successors what `strGetline` returns of one line.

**The map.** `HashMapCalcHash` returns 1000 for every key, so one bucket, 1000, holds every
element (`HASH`). Keys are pairs of an address and a content: the maps of the
server compare contents, those of the collector addresses. The iterator is a bucket
number and an index into the list of that bucket. The `seen` and `body` variables record
what a loop visited and whether its body changed something the loop is owed.

**The collector.** Its two tables are sets, of pointers and of registrations. The second
only grows: `GC_D` looks a key up by the address of a variable on the stack, and
the keys in the table are copies on the heap. `since` tells two openings of the same
number apart. Descriptor 0 is not registered, since its number is taken for a null
pointer. Memory may be refused at any call: to the program (`AllocationFails`,
`ReallocationFails`), to the collector for its own tables, after which it stays off for good
(`CollectorFails`), and to the loops of the exit (`SweepFails`). A failed `realloc` leaves its block
allocated while the collector has forgotten it; the variable `lost` remembers that block.

**The result queue of a run.** `full` says whether the result queue holds `MSG_QUEUE_SIZE` messages when
the run is about to send: other runs fill it (`OthersCommit`), the server may read it or not
(`ServerReads`), and a run that finds it full blocks in its send (`BlockOnSend`) until there is room
or the signal of a dying server interrupts it. `deaf` records that the server died where the run could
not notice.

**Abstractions.** In `AutomatonSystem` a word is a model value; the automaton is the set
`Accepted`. A message is a record. Priorities are left out: all senders use priority 1, so
queues are FIFO. The tester keeps the queue handles it opened; a server handle is
always generation 0, since only one server is modelled. Pids never repeat.

**Faults.** `Faults` names the kinds the environment may inject and `MaxFaults`
bounds them: `"crash"` (a run dies, before or after its result), `"fork"` (fork
fails), `"pipe"` (pipe creation fails, which is fatal for the server).

## 3. Runs

The runs of the system use `MCSystem`. Bounds: `MaxRuns` is the number of words in the input, so
no fork is ever refused by the bound; `MaxLines` is the number of input lines and
the end of file, plus one; `QueueCap` stands for `MSG_QUEUE_SIZE`;
`SERVER_PROCESS_LIMIT` 1 makes two words enough to throttle. Two testers are enough
for an answer to go to the wrong one, and two runs for their results to change
places; three words with a limit of one make the server enter the throttled mode,
stay in it over a loop and leave it.

| Run | Question | Instance |
|---|---|---|
| `core` | counting, delivery, shutdown, the final report; the service is implemented, liveness included | two testers, one stops the server, one failing fork (given up at once), queues of 3 |
| `throttle` | the throttled mode: bounds, no waiting in vain, no deadlock; the service again, with throttling, full queues and a retry | one tester, three words, queues of 1, one failing fork that is retried |
| `endings` | who may be left waiting at the end | two testers, queues of 1, no faults; the inputs: two ends of file and no stop; a stop against one word; a stop against three words |
| `faults` | types, routing, delivery, sessions: what is delivered stays right, with and without faults | two testers, any two of crash, fork, pipe |
| `failstop` | the build that terminates on a failed run: the testers are told, and where may a server that has to stop be held up | one tester, three words, two crashes, queues of 1, a limit of 2 runs |
| `worker` | the answer of one run, its fork tree, its pipe, a dying server | every automaton of two states with one or two branches per node and every split into universal and existential states, and eight unusual descriptions; words of length 0 and 3; two faults |
| `containers` | lists, map and collector implement what they promise | two linked lists in a heap of four nodes; two array lists of up to three elements; a map of three keys, two of which have the same content; two pointers, three descriptors, one exit handler, one child, memory refused at any call |

What the bounds leave out: in `core` each tester sends one word and the queues hold 3 messages, so
that no sender ever blocks there: `ServerStops` is about draining and broadcasting. With
queues of one message and several words per tester the blocking sends meet, and the
server or a tester may be held up for ever. `endings` and `failstop` are the runs about that: their
properties name each situation in which it happens, and each of these situations is reached (dropping
any one of them from the property gives a counterexample). `endings` has two testers, one that ends at
end of file and one that stops the server, so that a tester may wait for a server that waits for
a request (`validator.c:377`), may be blocked in a send behind the stop (`tester.c:139`), may have no session
when the server stops, or may hold up the server (`validator.c:300`). `failstop` has twice as many runs
as messages in the result queue, the proportion of the shipped 20 and 10
(`SERVER_PROCESS_LIMIT`, `MSG_QUEUE_SIZE`), so that a run can be blocked in its send while the
server waits for all runs (`fork.h:112`); and two crashes out of three runs, so that the throttled read may
find nobody left to send (`validator.c:228`).

`CHECK_DEADLOCK FALSE` in `core`, `endings`, `faults` and `failstop`: there the system may
really stop early (a tester that comes too late waits for ever, see section 4). In
`throttle` deadlock is checked. It is off in `worker` and `containers` as well: a run
ends, a process that is gone takes no step.

Bounds of `worker`: the limits `RUN_WORKLOAD_LIMIT` and `RUN_FORK_LIMIT` are 1, so that a run
forks at its first node and stops forking on a path of length 3; the shipped 5 and 22 would
need trees no checker enumerates. Two branches make one origin
and one forked process, and three steps a process that forks at two nodes. `CAP` 2 lets a
description of up to five lines fill the pipe twice; `PIECE` 2 lets one of three states be
split. Two faults are enough for a failing fork and a killed child in one tree.

Bounds of `containers`: `HASH`, `InitNodes`, `GrowStep` and `FillSlack` shrink 1000, 100,
17 and 30 with their order kept, so that the first lookup extends the bucket array, and
completed loops extend it further. `CopyChunk` 2 (5 in the code) makes `ListCopy` take both of
its ways. Four nodes are enough for the two neighbours of an insertion and a list of two to
insert. Three descriptors with 0 among them let a number be closed and opened again
by a pipe. Two pointers let `realloc` return another block or fail on one of two. The four units share no variable, so each moves alone (`unit`); the history
of the last call is left out of the state by the `VIEW`, since the properties compare it only in
the step that sets it.

Properties:

* `ThrottleBound`, `LiveRunsBound`: the counter, and the number of runs that
  compute, stay within one of `SERVER_PROCESS_LIMIT`.
* `ActiveExact`: without crashes the counter is exactly the number of sessions
  whose result has not been read.
* `ThrottleNeverStarves`: the blocking read of the throttled mode always has a
  result there or a run that will send one.
* `SlotRouting`: every result finds the session of its run, and that the session
  of its tester; the "missing slot" branches are dead.
* `AnswerIntegrity`, `NothingLost`: each request is in one place at a time and comes
  back once, with the verdict of its own word; without faults none disappears.
* `ExitLast`, `NoUnreadAnswer`: `exit` is the last message a tester gets, and a
  tester that has left has read every answer sent to it.
* `CollectsAll`: the server says `exit` only after all results are answered.
* `AcceptedAddUp`, `SessionsKept`: a session that replaces another takes nothing
  from its tester, and the report adds up.
* `ServerStops`: told to stop, the server stops, when no queue is ever full.
* `TestersStop`: every tester terminates, unless it is blocked in a send that nobody will ever
  make room for, the server ended without a session for it, the server waits for a
  request that nobody sends, or it waits for a tester that is blocked sending to it.
* `ServerEnds`: a server that was told to stop, or has seen a failure in the build that
  terminates then, stops, unless it waits in throttled mode with no run left to send, waits for
  a run that is blocked on the full result queue, or waits for a tester that is blocked sending to it.
* `ServiceSpec`: the refinement of `Service`, with its fairness.
* `AbnormalExitTold`: a server that fails has told its sessions.
* `AnswerRight`: the answer is the one of the definition, for a description that fits
  pipe and pieces, in spite of failed forks and killed processes.
* `NoBranchLost`: a run that answers has seen every process of its tree end well.
* `ForksBounded`: a process forks at most `RUN_FORK_LIMIT` times beyond one node.
* `RunEnds`, `WriteEnds`, `OrphanEnds`: the run ends, unless the result queue stays full because the
  server no longer reads it; the server's write ends up to twice the capacity of the pipe; and a run
  ends after its server has died, unless that happened before `prctl`, or between a test of
  the flag and the blocking call behind it: the read of the graph, or the send of the result to a full queue.
* `ListsAreSequences`, `ArraysAreSequences`, `MapIsDictionary`: the refinements.
* `ListsWellLinked`: a list reads the same in both directions, shares no node, leaks none.
* `NeverJunk`: no element of an array list is unwritten memory.
* `LoopVisitsAll`, `LoopVisitsOnce`: what a loop over the map visits.
* `RegistryExact`, `DescriptorsKept`, `CleanExit`: the collector knows what is live, and exit
  leaves nothing behind, unless a handler or the collector itself failed; but for the block
  of a failed `realloc`, which is `live` and `lost`.

**Fairness.** Weak fairness of the server, of each run and of each tester: the
kernel schedules every process that is not blocked. The broadcast of `exit` writes to the sessions in the
order of a hash table, which the model leaves open: while one of the queues it has still to write to is full
the server may be blocked on that one, and no step of it is owed (`MayWaitForRoom`). Crashes and other faults
have none, and a lock-step order of processes is never assumed. In `RunProcess` the
writing server and the processes of the run are two units of weak fairness: the tree of
one run is finite, so it is enough that some process of it moves as long as one can. The send of the result is
strongly fair: `mq_send` serves the senders that wait for room in their order, so that one cannot be
passed over for ever while the queue is emptied and filled again. That the server empties it is not assumed.

## 4. Disagreements found

Each run below checks one sentence of the documentation and finds it violated by
the code; the counterexample is a run of the modelled program.

| Run | Property | What happens |
|---|---|---|
| `late_registration` | `ReceivedAddUp` | a registration read after the first request resets the session of the tester |
| `standoff` | `NoStandoff` | the server sends an answer to a tester that is sending a request nobody will read |
| `silent_exit` | `AbnormalExitTold` | the exit handler walks the shadowed, empty map |
| `early_stop` | `ResultsCollected` | a run that crashes after its result is taken off the counter twice, and the server stops before the result of another |
| `graph_cut` | `GraphDelivered` | of a long transition line only the first piece reaches the graph |

The models show more of them, which have no run of their own. The first four are exceptions that a property of a
passing run names, and that it would fail without:

* A tester that is blocked in the send of a request when the server stops reading them is left there
  for ever (`tester.c:139`, `validator.c:375`), with `exit` unread in its queue (`TestersStop`), though
  README.md:425 says it terminates when the server does.
* In the build that terminates on a failed run, the server waits for all its runs before it says `exit`
  (`validator.c:334`, `fork.h:112`), and for ever if one of them is blocked sending its result to the
  full queue, which nobody reads any more (`run.c:161`; `ServerEnds`).
* After a crash the throttled server may wait for a result that nobody will send (`validator.c:218`, `228`;
  `ServerEnds`), although `automaton_config.h:21` says it will continue normal work.
* A failed `realloc` leaves its block allocated, but the collector has forgotten it (`memalloc.h:156`, `216`):
  the exit that follows does not free it (`RegistryExact`, `CleanExit`), against README.md:257-260.
* With the shipped limits (5 and 22) no word is ever split over processes: below the workload limit the rest
  is computed by `acceptSync_rec`, which counts nothing (`automaton.h:441`, `450`, `489`).
* Outside the throttled mode the server blocks on the request queue alone
  (`validator.c:377`): a result, or a failed run, waits until the next request, also
  with `SERVER_TERMINATE_ON_RUN_FAILURE`.
* A tester without a session when the server stops waits for ever
  (`validator.c:512-515`), though README.md:425 says it terminates.
* README.md:248 says that the server kills itself when a worker has failed: this is the build with
  `SERVER_TERMINATE_ON_RUN_FAILURE` 1, while `automaton_config.h:24` ships 0, with which it
  continues. Both builds are modelled.
* A description of more than twice the capacity of a pipe (64 KiB on Linux) blocks the
  server for ever, since it holds the read end itself (`validator.c:483`); one of more than the
  capacity may be cut, since the run reads once (`msg_pipe.h:290`).
* After a failed fork (`automaton.h:324`) the value that was calculated in its place is
  dropped when it is not decisive, and a pipe that was never opened is read.
* `GC_D` never removes anything (`gcinit.h:208`): at exit the destructors also close
  numbers that were closed before, and their table grows with every word.
* Each complete loop over a map extends its bucket array (`hashmap.h:588`), also the
  loops the collector runs on every allocation (`gcinit.h:98`, `114`).
* `getline.h` cuts the words of a tester in pieces as well (`getline.h:48-62`).

## 5. Proofs

For every value of the constants that satisfies the assumptions of the modules:
`PosixAssumption`, `ServerAssumption`, `NullAssumption`, `TesterAssumption` for the system;
`GenericsAssumption`, `ArrayListAssumption`, `ArraysAssumption` for the array lists;
`LinkedListAssumption` for the linked lists (the heap is finite, and `NULL` is neither a block nor a list);
`AutomatonAssumption`, `AcceptanceAssumption`, `RunAssumption`, `DescriptionAssumption` for a run; none
for the collector. Three conjuncts of them say what the code gets from its data types, and the
proofs need it: `NULL` is no session, verdict, request, word or pid (null pointers and zero pids
mean "nothing" in all these places); a tester's queue is not one of the three of the server
(its name is made from its pid); and the line `!` is a command, not a word (`tester.c:110`).

Two hypotheses appear in theorems, and the code is wrong without them, which the
runs of section 4 show. `"crash" \notin Faults`: a run that dies after its result is taken off the
counter twice (`early_stop`), one that dies before it leaves the throttled server waiting (an exception of
`ServerEnds`). `"pipe" \notin
Faults`: a failing `pipe()` ends the server on the spot, and the exit handler tells nobody
(`silent_exit`). A failing `fork()` is always allowed.

**Types, routing, the throttle.**

* `SystemProofs!ThrottleBounded`: `Spec => []ThrottleBound`. `ThrottleBound` is not
  inductive: nothing in it says that the server may not spawn at the bound.
  `ThrottleInv` adds where in the loop the counter may exceed the limit: only
  between a push and the next throttle test, and after that test only in the
  throttled mode, whose blocking read takes one off before a request is read.
* `AnswerProofs!TypeCorrect`: `Spec => []TypeOK`. `TypeInv` adds that the locals of the
  server are set at the calls that use them and that a tester that sends has read
  a line.
* `AnswerProofs!RoutingCorrect`: `Spec => []SlotRouting`. A result is safe because its
  session is there, and nothing in `SlotRouting` says that a session is kept until
  its result is read. `RouteInv` adds it: a result in the queue is the only one of
  its run and is past its commit (`QueueInv`), a run that may still send one has a
  session (`RunInv`), every session and the pending request name a tester that has
  a session (`SessionInv`), and while an answer is being sent its run is past its
  commit and no longer in the queue (`AnsweringInv`).

**Requests and answers**, whatever fails.

* `AnswerProofs!AnswersCorrect`, `NoneLost`: `AnswerIntegrity` and `NothingLost`. Both count the
  places a request is in: slots of queues, runs, the hands of the server. A word is `Owed` from the
  step that sends it to the step that reads its answer. `PlacesInv` says that what is owed is in one
  place at most, the rest in none, and before the first fault exactly in one; each step moves
  one request from one place to another, by the lemmas that say what appending to a queue and
  taking its head do to what it holds (`HeldSent`, `HeldReceived`). Verdicts are right because
  what a tester saved under a number does not change while that number is owed, and every request,
  run, result and answer on its way carries that word or its verdict (`VerdictInv`). Finding
  a fresh number free when the next line is read needs that words are saved only under the
  numbers of lines that were read (`LineInv`); finding a slot for every message needs that
  no queue holds more than it may (`CapInv`).

**The end.**

* `ExitProofs!ExitIsLast`: `ExitLast`. `exit` is in a queue only once the server ends and after
  the turn of its tester in the broadcast (`ExitTold`), and nothing is sent to it from then on.
* `ExitProofs!EveryAnswerRead`: `NoUnreadAnswer`. A tester leaves its loop when its two counters are equal or
  when it reads `exit`. `CountInv` says that their difference is the number of words it is owed, so
  that in the first case nothing is on its way; in the second `exit` was the last message, and the
  server sends no answer any more (`ClosedInv`). `GenInv` says that its second queue is empty until
  it has removed the first.
* `ExitProofs!SessionsStay`: the action property `SessionsKept`. A registration replaces a session that a
  request has made, and would take the words accepted with it, were it read later: `LateInv` says that
  while it waits its session is one iteration old at most and has counted nothing; `RegisterInv`, that a
  tester waits there once.
* `ExitProofs!FailureTold`: `AbnormalExitTold`, if `pipe()` does not fail. From the broadcast on a session is
  still to be told, or its tester has left, or its queue holds `exit` (`ToldInv`).

**Counting**, while no run crashes.

* `SystemProofs!CounterExact`, `LiveRunsBounded`: `ActiveExact` and `LiveRunsBound`. `CountedInv` compares the counter
  with the set of runs whose result was not read, the one being spawned apart; every
  run that computes is one of them, and `ThrottleBound` does the rest.
* `SystemProofs!NeverStarves`: `ThrottleNeverStarves`. Each unread run is computing or has a result in the
  queue (`ComingInv`, which needs that the run queue is not removed before the loop is left, since a
  run opens it by name), and in the throttled mode there is one (`LockedInv`).
* `SystemProofs!AllCollected`: `CollectsAll`, if in addition `pipe()` does not fail. The loop is left when the counter is
  down, which by `CountedInv` means that no result is missing, or when no session is left; the
  words received are those answered, unread and in hand (`DrainedInv`).
* `SystemProofs!AcceptedTotal`: `Spec => []AcceptedAddUp`, for any number of testers and whatever fails. The sum is a
  recursive fold over a finite set, so the invariant `SumInv` says instead that the sessions are finitely many
  and that some function adds up the words of every set of them, taking any one away first (`AddUp`): a new
  session and a counted word map that function to the next one without induction, and one
  induction on the size of a set (`SumAddsUp`) shows that it is the sum of the model. That a registration replaces no
  session that counts a word is `LateInv` of `SessionsStay` again. The same of the words
  received is false (`late_registration`).

**The refinement.** `SystemProofs!ServiceImplemented`: `Spec => Abstract!Init /\ [][Abstract!Next]_(Abstract!vars)`,
under both hypotheses. Each action is mapped to the step of `Service` it makes: `SendWord` to `Ask`,
`TakeRequest` to `Accept`, `SendAnswer` to `Answer`, `SpawnFails` to `Omit` or none, `TakeAnswer` to `Tell`,
`TakeExitRequest` to `Drain`, and whatever leaves the loop to `Close`; the others change nothing
there. The abstract sets forget where a request is, so that the proof that one *leaves* a
set needs that it was there once: this is `OnePlace`, from `PlacesInv`. `Ask` requires
a number nothing is known by (`OnlyOwed`), `Close` that nothing is worked on (`EndsEmpty`). The theorem
leaves out the fairness of `Service`, which the run `core` checks.

**A run and its fork tree**, for every automaton, every word, any limits, any capacity of the
pipe, and a tree of any size. `DescriptionAssumption` says of the input what the repository's README
says: states are among those of the automaton, words are over its alphabet, and both are finite.

* `RunProofs!AnswerIsRight`: `RunSpec => []AnswerRight`, which is about descriptions that fit the pipe and the pieces
  (`Fits`). Two halves meet in `RightAnswer`.
  *The definitions agree.* `Accept` and `acceptSync_rec` are recursive, the one over sets of successors,
  the other over the rows of the graph; `SameAnswer` says they agree where the rows list the
  successors (`LevelsExist`, `SyncNode`), and `Loads` that loading makes them do so when the text fits the pipe and
  the pieces (`LoadedLines`, by induction on the lines). `AnswerInner` is then what the computation uses:
  a node of the tree is decided by one of its branches, or undecided by all.
  *The tree computes it.* `TreeInv` says of every process what it has learned. Its stack is a chain of
  nodes from its own node down, each the branch that the one above awaits (`StackSafe`); the
  branches a frame has passed without forking are undecided, a frame that waits has a decisive
  value or an undecided first branch, a frame that reads has found every branch before `i`
  undecided (`FrameRight`); a returned value is the answer of the node that was awaited (`Safe`),
  and so is what is in a pipe (`ReportedIs`).
* `RunProofs!NoFailureLost`: `RunSpec => []NoBranchLost`. `processWaitForAll` waits for the children of the
  process, not for those of its children, so that `NoBranchLost` needs the shape of the tree: nobody else
  calculates the nodes on a process's stack, and what it has not forked is nobody's (`FrameAlone`), hence the
  processes it forked are its `Children`; a process whose stack is empty, or that reads, has seen all of
  them end well. `Descendants` draws the conclusion for the tree: the failed process nearest to
  the root would be a child of a process that has waited for it. That a fork by one process
  makes no child of another is the heart of `ForkSucceedsKeeps`.
* `RunProofs!ForksAreBounded`: `RunSpec => []ForksBounded`. The code compares `fork_count` with the limit only when it
  enters a node, and then adds the branches of the node whether or not it forks for them. `CountInv` says
  what the count is good for: as long as a frame forks, the children so far and those to come are no
  more than its `fork_count`, which exceeded the limit by less than its branches when it was entered
  (`CalledCounts`). A frame entered below one that forks adds to the children of that one, which is why the
  bound is over the widest node and not the sum along the stack (`OriginCounts`); a fork adds one child to its
  own process and none to another (`OneChild`). A failed fork would break it: the frame it leaves calls
  down again with forks still to come (`NoLocal`).
* `RunProofs!RunTypeCorrect`: `RunSpec => []RunTypeOK`. `RunInv` adds to `TreeInv` what the pipe holds: all the
  description or nothing of it, when it fits (`Undivided`).

`AnswerRight` has two exceptions, and both are in section 4: a text that does not fit (`graph_cut`), and a
pipe that was never opened; without `~ garbled` neither half of `FrameRight` is preserved
by `ReadUnopened`. `NoBranchLost` has none.

**Containers and collector.**

* `ArrayListProofs!ArrayTypeCorrect` and `NothingUnwritten`: `ArraySpec => []ArrayTypeOK` and
  `ArraySpec => []NeverJunk`, for every growth factor, slack and step, lists of any
  length and any number of lists. Neither is inductive alone: that the slots below the
  size are written needs that the size is within the block and the block is what
  `data` covers. Their conjunction says that every list is `WellFormed`, and there is one lemma per
  function: the growing functions keep the elements and reach the size that was asked for
  (`Grown`), the others write every slot the new size uncovers. The turn of a loop
  pushes an element that is read within the size of the other list.
* `ArrayListProofs!ArraysImplementSequences`: `ArraySpec => ArraysAreSequences`. A second lemma per function
  says what it does to the content: the growing ones nothing, or they lengthen it (`Lengthened`) by
  elements that are all the same; the others what the operation on sequences does. Each disjunct of
  `ArrayCalls` and each turn of `ArrayListCopyInto` is then one step of `SequenceSpec`, with its reply.
* `LinkedListProofs!ListTypeCorrect`, `ListsStayLinked`: `ListSpec => []ListTypeOK` and
  `ListSpec => []ListsWellLinked`, for a heap of any size and any number of lists. Both speak of chains that
  are walked from a root, and a call changes a few fields in the middle of them. `ListInv` therefore says
  what is there instead of how it is reached: some family of sequences of blocks `c` is laid out in the heap
  (`Shape`). Each node of list `l` is the record whose neighbours are those of its position in `c[l]` (`Laid`),
  no block is in a sequence twice or in two of them, the allocated blocks are those in some sequence
  (`Covers`), and a root is the two ends of its sequence. There is one lemma per function, named after it
  (`PushBackShape`, `DetachShape`, `SplitShape` ...), that says what it does to the sequences; the parts
  of the heap it leaves alone are dealt with once for functions that change one list (`OneList`) and two (`TwoLists`).
  `WalkRight` and `WalkLeft` go back from sequences to walks: a walk of as many steps as there are nodes
  finds the whole list in its order, and from the end in the reverse order. The
  pops are shown to detach the first and the last node; an insertion of an element to be three calls on
  a list that nobody else names, which comes and goes (`RegroupShape`); both ways of `ListCopy` to
  give the same list.
* `LinkedListProofs!ListsImplementSequences`: `ListSpec => ListsAreSequences`. The same lemmas carry
  along the elements `s` next to the blocks `c`, and `Values` of a list is `s` of it (`ValuesAre`), so that each disjunct of
  `ListNext` is one step of `SequenceSpec`, with its reply, and changes no third list.
* `HashMapProofs!HashMapTypeCorrect`, `LoopSeesAll`, `LoopSeesOnce`, `MapImplementsDictionary`: `HashMapTypeOK`,
  `LoopVisitsAll`, `LoopVisitsOnce` and the refinement `MapIsDictionary` of `HashMapSpec`, for any keys compared
  either way, any hash, and any initial number of buckets. The map is a dictionary because no two
  elements of the bucket are under one name (`Unique`) and because the bucket exists as soon as it has
  an element (`MapType`): a lookup that extends the array never loses it (`ReachGrows`). A running
  loop is `Inside` the bucket or `Past` the last one; inside, what it has not reached yet it has not
  visited (`Ahead`), also after a removal moved elements up, and as long as its body leaves alone what
  was there, it has visited exactly the `First` elements. One assumption on the constants is added:
  the null pointer is no iterator.
* `CollectorProofs`: `RegistryExact`, `DescriptorsKept` and `CleanExit` of `GCSpec`, with every allocation allowed to
  fail, those of the collector included. The three are
  parts of one invariant, `ExitInv`, since the last rests on the others: that the hook
  frees all there is follows from the tables being exact when it starts (`MemoryInv`,
  `DescriptorInv`), and they stay meaningful while destructors run because a number that one
  of them closes is nobody else's. `PhaseInv` says when the collector has run. What a failed `realloc` leaves
  behind is one block at most, since its failure ends the process: `lost` is empty while the
  program runs, and a handler that fails in turn ends it without the hook.
  `DescriptorInv` needs that every key is on the heap: this is why `GC_D` drops nothing.

Induction. The library's induction theorems cannot be instantiated by the provers, but
that the natural numbers are well-founded is a fact about sets: `LeastNat` and `NatInductive` follow from
it, and the recursive functions of the model (`Accept`, `StateAt`, `loadTransitionGraph`) are shown to
exist and to satisfy their equations by `NatInductive` on a set of lengths; sums over finite sets likewise, on their sizes.
So is the walk along a chain of nodes (`WalksExist`, `WalkFrom`) and the copying loop of `ListCopyInto` (`PushesExist`, `PushedShape`).

Every safety property of the runs is stated by a theorem. Only model-checked: every liveness property
(`TestersStop`, `ServerStops`, `ServerEnds`, `RunEnds`, `WriteEnds`, `OrphanEnds`), and the fairness
of `ServiceSpec`; both are beyond the prover.

## 6. Not modelled, and the plan

| Next | Module | What |
|---|---|---|
| 1 | `Restart` | a server that finds the queues of its predecessor; reused pids |
| 2 | `Server` | the descriptors of the graph pipes, counted |

Left out of modelled components, with the reason: the formatted variants of queue and pipe
functions (formatting), error returns that only end in `syserr`, the tester's own `getline`
(a line is one value), what the `Deep` variants of the map free of their caller's memory (they change the map like
the others), `ListNewDetachedElement` and `processWait` (used by nothing),
printing and logging. Not planned: `syslog.h` (output; that `syserr` exits is part of the steps that fail), `autovalidator.c` (a launcher), the
build files.
