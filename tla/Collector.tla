----------------------------- MODULE Collector ------------------------------
(***************************************************************************)
(* gcinit.h, gc.h, onexit.h and memalloc.h: a process allocates memory and *)
(* opens descriptors (msg_pipe.h, msg_queue.h), the collector keeps a table *)
(* of each, and atexit runs the handlers of the program and the collector.  *)
(* The tables are HashMaps keyed by pointer (HashMap shows that a map is a  *)
(* dictionary); here they are sets of pointers and of registrations.        *)
(***************************************************************************)
EXTENDS Integers, Sequences, FiniteSets

CONSTANTS
  Pointers,                    \* bound: what malloc can return
  Descriptors,                 \* the descriptor numbers of the process
  ON_EXIT_MAX_HANDLERS_COUNT,  \* 10: slots for the handlers of the program
  MaxOpens,                    \* bound: descriptors opened in one life
  MaxChildren                  \* bound: children alive at a time

ASSUME CollectorAssumption ==
  /\ Descriptors \subseteq Nat
  /\ ON_EXIT_MAX_HANDLERS_COUNT \in Nat /\ MaxOpens \in Nat /\ MaxChildren \in Nat

VARIABLES
  live,        \* the allocated blocks
  GCmemMap,    \* those the collector knows
  open,        \* the open descriptors, and when each was opened
  GChandlersMap,
  isGC,        \* current_gc_mode: the collector listens
  slots,       \* __normal_handlers_slots_i__
  children,    \* processes forked and not yet waited for
  phase,       \* "running", "handlers", "destructors", "waiting", "gone"
  turn,        \* the loop variable of the exit handlers
  opens,       \* history: number of descriptors ever opened
  lost         \* history: the block a failing realloc made the collector forget

gcVars == <<live, GCmemMap, open, GChandlersMap, isGC, slots, children, phase, turn,
            opens, lost>>

GCInit ==
  /\ live = {} /\ GCmemMap = {} /\ open = <<>> /\ GChandlersMap = {}
  /\ isGC = TRUE
  /\ slots = 0 /\ children = 0
  /\ phase = "running" /\ turn = 0
  /\ opens = 0 /\ lost = {}

-----------------------------------------------------------------------------
(* The tables: __gc_mem_tree__ ignores every call while it is off. *)

GC_ON_ALLOC(t, p) == IF isGC THEN t \cup {p} ELSE t
GC_ON_FREE(t, p)  == IF isGC THEN t \ {p} ELSE t

\* The operators named Mutant... are plausible slips in the definition that
\* follows each of them; nothing else uses them.
MutantOnlyReadEnd(t, ds) == t \cup {[key |-> "heap", fd |-> ds[1], since |-> opens + 1]}

\* A pointer 0 is not registered.
GC_N(t, ds) ==
  t \cup {[key |-> "heap", fd |-> ds[i], since |-> opens + 1] :
            i \in {j \in DOMAIN ds : ds[j] # 0}}

\* The entry is looked up by the address of a key on the stack, and the keys of
\* the table are copies on the heap.
GC_D(t, d) == {h \in t : ~ (h.key = "stack" /\ h.fd = d)}

-----------------------------------------------------------------------------
(* The program, and its exit handlers, which allocate as well *)

HandlersDone == turn = slots

MayCall == phase = "running" \/ (phase = "handlers" /\ ~ HandlersDone)

MemoryUnchanged == UNCHANGED <<live, GCmemMap, isGC, lost>>
DescriptorsUnchanged == UNCHANGED <<open, GChandlersMap, opens>>
ExitUnchanged == UNCHANGED <<slots, phase, turn>>

AllocateMemoryBlock ==
  /\ MayCall
  /\ \E data \in Pointers \ live :
       live' = live \cup {data} /\ GCmemMap' = GC_ON_ALLOC(GCmemMap, data)
  /\ DescriptorsUnchanged /\ ExitUnchanged /\ UNCHANGED <<isGC, children, lost>>

MutantFreeAfterAlloc ==
  /\ MayCall
  /\ \E p \in live : \E data \in (Pointers \ live) \cup {p} :
       /\ live' = (live \ {p}) \cup {data}
       /\ GCmemMap' = GC_ON_FREE(GC_ON_ALLOC(GCmemMap, data), p)
       /\ lost' = lost \ {p}
  /\ DescriptorsUnchanged /\ ExitUnchanged /\ UNCHANGED <<isGC, children>>

\* realloc may leave the block where it is.
ReallocateMemoryBlock ==
  /\ MayCall
  /\ \E p \in live : \E data \in (Pointers \ live) \cup {p} :
       /\ live' = (live \ {p}) \cup {data}
       /\ GCmemMap' = GC_ON_ALLOC(GC_ON_FREE(GCmemMap, p), data)
       /\ lost' = lost \ {p}
  /\ DescriptorsUnchanged /\ ExitUnchanged /\ UNCHANGED <<isGC, children>>

FreePtr ==
  /\ MayCall
  /\ \E p \in live :
       /\ live' = live \ {p}
       /\ GCmemMap' = GC_ON_FREE(GCmemMap, p)
       /\ lost' = lost \ {p}
  /\ DescriptorsUnchanged /\ ExitUnchanged /\ UNCHANGED <<isGC, children>>

\* syserr calls exit; a call of exit in a handler ends the process without the
\* rest of the handlers.
SysErr == phase' = IF phase = "running" THEN "handlers" ELSE "gone"

\* malloc fails: the NULL that is noted is no block.
AllocationFails ==
  /\ MayCall /\ SysErr
  /\ MemoryUnchanged /\ DescriptorsUnchanged /\ UNCHANGED <<slots, turn, children>>

\* realloc fails and leaves the block allocated; the collector has forgotten it
\* before the result is tested.
ReallocationFails ==
  /\ MayCall /\ SysErr
  /\ \E p \in live :
       /\ GCmemMap' = GC_ON_FREE(GCmemMap, p)
       /\ lost' = IF isGC THEN lost \cup {p} ELSE lost
  /\ DescriptorsUnchanged /\ UNCHANGED <<live, isGC, slots, turn, children>>

\* The collector is refused memory for its own tables, which it uses while it is
\* off: it never notes anything again.  The program may have got its block.
CollectorFails ==
  /\ MayCall /\ SysErr
  /\ isGC' = FALSE
  /\ \/ UNCHANGED live
     \/ \E data \in Pointers \ live : live' = live \cup {data}
     \/ \E p \in live, data \in Pointers \ live : live' = (live \ {p}) \cup {data}
  /\ DescriptorsUnchanged /\ UNCHANGED <<GCmemMap, lost, slots, turn, children>>

\* The kernel returns the lowest number that is free.
Lowest(ds) == CHOOSE d \in ds : \A e \in ds : d <= e
Unused == Descriptors \ DOMAIN open

\* new is a sequence of numbers: one for a queue, two for a pipe.
Opened(new) ==
  /\ opens < MaxOpens
  /\ opens' = opens + 1
  /\ open' = [d \in DOMAIN open \cup {new[i] : i \in DOMAIN new} |->
                IF d \in DOMAIN open THEN open[d] ELSE opens + 1]
  /\ GChandlersMap' = IF isGC THEN GC_N(GChandlersMap, new) ELSE GChandlersMap
  /\ MemoryUnchanged /\ ExitUnchanged /\ UNCHANGED children

msgQueueOpen ==
  /\ phase = "running" /\ Unused # {}
  /\ Opened(<<Lowest(Unused)>>)

msgPipeCreate ==
  /\ phase = "running" /\ Cardinality(Unused) > 1
  /\ Opened(<<Lowest(Unused), Lowest(Unused \ {Lowest(Unused)})>>)

msgClose ==
  /\ MayCall
  /\ \E d \in DOMAIN open :
       /\ GChandlersMap' = IF isGC THEN GC_D(GChandlersMap, d) ELSE GChandlersMap
       /\ open' = [e \in DOMAIN open \ {d} |-> open[e]]
  /\ MemoryUnchanged /\ ExitUnchanged /\ UNCHANGED <<children, opens>>

processFork ==
  /\ phase = "running" /\ children < MaxChildren
  /\ children' = children + 1
  /\ MemoryUnchanged /\ DescriptorsUnchanged /\ ExitUnchanged

\* The program waits for a child, or polls one that has ended.
ProgramWaits ==
  /\ phase = "running" /\ children > 0
  /\ children' = children - 1
  /\ MemoryUnchanged /\ DescriptorsUnchanged /\ ExitUnchanged

ExitHandlerAdd ==
  /\ phase = "running" /\ slots < ON_EXIT_MAX_HANDLERS_COUNT
  /\ slots' = slots + 1
  /\ MemoryUnchanged /\ DescriptorsUnchanged
  /\ UNCHANGED <<phase, turn, children>>

-----------------------------------------------------------------------------
(* exit *)

CallExit ==
  /\ phase = "running"
  /\ phase' = "handlers" /\ turn' = 0
  /\ MemoryUnchanged /\ DescriptorsUnchanged /\ UNCHANGED <<slots, children>>

RunHandler ==
  /\ phase = "handlers" /\ ~ HandlersDone
  /\ turn' = turn + 1
  /\ MemoryUnchanged /\ DescriptorsUnchanged
  /\ UNCHANGED <<slots, phase, children>>

\* The handler fails in a system call: syserr calls exit again.
HandlerExits ==
  /\ phase = "handlers" /\ ~ HandlersDone
  /\ phase' = "gone"
  /\ MemoryUnchanged /\ DescriptorsUnchanged /\ UNCHANGED <<slots, turn, children>>

\* GC_FREE_ALL: nothing happens when the collector is off.
gc_exit_hook ==
  /\ phase = "handlers" /\ HandlersDone
  /\ IF isGC THEN phase' = "destructors" /\ isGC' = FALSE
     ELSE phase' = "gone" /\ UNCHANGED isGC
  /\ DescriptorsUnchanged /\ UNCHANGED <<live, GCmemMap, lost, slots, turn, children>>

\* The destructor closes whatever has the number by now.  Each registration is
\* visited once; the order of the table is of no consequence.
Destruct ==
  /\ phase = "destructors"
  /\ \E h \in GChandlersMap :
       /\ GChandlersMap' = GChandlersMap \ {h}
       /\ open' = [d \in DOMAIN open \ {h.fd} |-> open[d]]
  /\ MemoryUnchanged /\ ExitUnchanged /\ UNCHANGED <<children, opens>>

FreeAll ==
  /\ phase = "destructors" /\ GChandlersMap = {}
  /\ live' = live \ GCmemMap
  /\ GCmemMap' = {}
  /\ phase' = "waiting"
  /\ DescriptorsUnchanged /\ UNCHANGED <<isGC, lost, slots, children, turn>>

\* The test that ends a loop extends the table it looped over: without memory the
\* process is gone, behind the destructors or behind the frees.
SweepFails ==
  /\ phase = "destructors" /\ GChandlersMap = {}
  /\ phase' = "gone"
  /\ live' \in {live, live \ GCmemMap}
  /\ DescriptorsUnchanged /\ UNCHANGED <<GCmemMap, isGC, lost, slots, children, turn>>

MutantNoWait ==
  /\ phase = "waiting" /\ phase' = "gone" /\ isGC' = TRUE
  /\ DescriptorsUnchanged /\ UNCHANGED <<live, GCmemMap, lost, slots, children, turn>>

processWaitForAll ==
  /\ phase = "waiting"
  /\ IF children > 0 THEN children' = children - 1 /\ UNCHANGED <<phase, isGC>>
     ELSE phase' = "gone" /\ isGC' = TRUE /\ UNCHANGED children
  /\ DescriptorsUnchanged /\ UNCHANGED <<live, GCmemMap, lost, slots, turn>>

GCNext ==
  \/ AllocateMemoryBlock \/ ReallocateMemoryBlock \/ FreePtr
  \/ AllocationFails \/ ReallocationFails \/ CollectorFails
  \/ msgQueueOpen \/ msgPipeCreate \/ msgClose
  \/ processFork \/ ProgramWaits \/ ExitHandlerAdd
  \/ CallExit \/ RunHandler \/ HandlerExits \/ gc_exit_hook
  \/ Destruct \/ FreeAll \/ SweepFails \/ processWaitForAll

GCSpec == GCInit /\ [][GCNext]_gcVars

-----------------------------------------------------------------------------
(* Properties *)

\* As long as the program and its exit handlers run, the collector knows exactly
\* the allocated blocks, but for one at most: that of the realloc whose failure
\* has ended the program.  One it misses leaks, one it wrongly keeps is freed twice.
RegistryExact ==
  MayCall /\ isGC =>
    /\ GCmemMap = live \ lost
    /\ \A p, q \in lost : p = q
    /\ phase = "running" => lost = {}

\* Whatever is open is in the table with a registration of its own, although
\* numbers are closed and used again by queues and pipes in any order; only a
\* descriptor 0, open in a process without standard input, is missing.
DescriptorsKept ==
  MayCall /\ isGC =>
    \A d \in DOMAIN open \ {0} :
      \E h \in GChandlersMap : h.fd = d /\ h.since = open[d]

\* A process that is gone left no memory, no descriptor and no child behind,
\* but for the block of a failed realloc, unless it ended inside one of its own
\* exit handlers or the collector was refused memory, and has stayed off.
CleanExit ==
  phase = "gone" /\ HandlersDone /\ isGC =>
    live \subseteq lost /\ DOMAIN open \subseteq {0} /\ children = 0
=============================================================================
