-------------------------- MODULE CollectorProofs --------------------------
(***************************************************************************)
(* The tables of the collector are exact while the program runs, but for   *)
(* the block a failed realloc makes it forget, and a process that exits    *)
(* leaves nothing else behind, for any number of pointers, descriptors,    *)
(* children and exit handlers.                                             *)
(***************************************************************************)
EXTENDS Collector, TLAPS

Before == phase \in {"running", "handlers"}

(* The counters, and the collector that is off from the hook until the end. *)
PhaseInv ==
  /\ children \in Nat /\ slots \in Nat /\ turn \in Nat
  /\ phase \in {"running", "handlers", "destructors", "waiting", "gone"}
  /\ phase \in {"destructors", "waiting"} => ~ isGC

(* What RegistryExact says of the pointers of a process that still runs,    *)
(* and that a block freed after all is no longer a lost one.                *)
AllKnown ==
  /\ GCmemMap = live \ lost /\ lost \subseteq live
  /\ \A p, q \in lost : p = q
  /\ phase = "running" => lost = {}

(* The pointers: known as long as the collector is on, and while it works.  *)
MemoryInv ==
  /\ Before /\ isGC => AllKnown
  /\ phase = "destructors" => GCmemMap = live \ lost
  /\ phase = "waiting" => live \subseteq lost

(* Every registration is on the heap, so none is ever dropped.              *)
Registered(d) == \E h \in GChandlersMap : h.fd = d /\ h.since = open[d]

DescriptorInv ==
  /\ \A h \in GChandlersMap : h.key = "heap"
  /\ (Before /\ isGC) \/ phase = "destructors" => \A d \in DOMAIN open \ {0} : Registered(d)
  /\ phase = "waiting" => DOMAIN open \subseteq {0}

ExitInv == PhaseInv /\ MemoryInv /\ DescriptorInv /\ CleanExit

(* A step of a running program that leaves the phase and the flag alone     *)
(* keeps the invariant if it keeps the two tables.                          *)
LEMMA StayKeeps ==
  ASSUME ExitInv, Before, UNCHANGED <<phase, isGC>>,
         children' \in Nat, slots' \in Nat, turn' \in Nat,
         isGC => AllKnown',
         \A h \in GChandlersMap' : h.key = "heap",
         isGC => \A d \in DOMAIN open' \ {0} : Registered(d)'
  PROVE  ExitInv'
BY DEF ExitInv, PhaseInv, MemoryInv, DescriptorInv, Before, CleanExit

(* What the steps that touch no descriptor keep.                            *)
LEMMA DescriptorsStay ==
  ASSUME ExitInv, Before, DescriptorsUnchanged
  PROVE  /\ \A h \in GChandlersMap' : h.key = "heap"
         /\ isGC => \A d \in DOMAIN open' \ {0} : Registered(d)'
BY DEF ExitInv, DescriptorInv, DescriptorsUnchanged, Registered

(* malloc, realloc and free.                                                *)
LEMMA MemoryStep ==
  ASSUME ExitInv, AllocateMemoryBlock \/ ReallocateMemoryBlock \/ FreePtr
  PROVE  ExitInv'
<1> USE DEF AllocateMemoryBlock, ReallocateMemoryBlock, FreePtr
<1>1. Before /\ DescriptorsUnchanged /\ ExitUnchanged /\ UNCHANGED <<isGC, children>>
  BY DEF MayCall, Before
<1>2. ASSUME isGC PROVE AllKnown'
  <2> USE DEF AllKnown
  <2>1. AllKnown
    BY <1>1, <1>2 DEF ExitInv, MemoryInv
  <2>2. phase' = phase
    BY <1>1 DEF ExitUnchanged
  <2>3. CASE AllocateMemoryBlock
    BY <1>2, <2>1, <2>2, <2>3 DEF GC_ON_ALLOC
  <2>4. CASE ReallocateMemoryBlock
    BY <1>2, <2>1, <2>2, <2>4 DEF GC_ON_ALLOC, GC_ON_FREE
  <2>5. CASE FreePtr
    BY <1>2, <2>1, <2>2, <2>5 DEF GC_ON_FREE
  <2> QED BY <2>3, <2>4, <2>5
<1>3. children' \in Nat /\ slots' \in Nat /\ turn' \in Nat /\ UNCHANGED <<phase, isGC>>
  BY <1>1 DEF ExitUnchanged, ExitInv, PhaseInv
<1> QED BY <1>1, <1>2, <1>3, DescriptorsStay, StayKeeps

(* What the steps that touch no memory keep.                                *)
LEMMA MemoryStays ==
  ASSUME ExitInv, Before, MemoryUnchanged, phase' = phase
  PROVE  isGC => AllKnown'
BY DEF ExitInv, MemoryInv, MemoryUnchanged, AllKnown

(* Opening registers what it opens and forgets nothing.                     *)
LEMMA OpenedKeeps ==
  ASSUME ExitInv, phase = "running", NEW new, Opened(new)
  PROVE  ExitInv'
<1> USE DEF Opened
<1>1. Before /\ UNCHANGED <<phase, isGC>>
  BY DEF Before, MemoryUnchanged, ExitUnchanged
<1>2. \A h \in GChandlersMap' : h.key = "heap"
  BY DEF ExitInv, DescriptorInv, GC_N
<1>3. ASSUME isGC, NEW d \in DOMAIN open' \ {0} PROVE Registered(d)'
  <2>1. GChandlersMap' = GC_N(GChandlersMap, new)
    BY <1>3
  <2>2. GChandlersMap \subseteq GChandlersMap'
    BY <2>1 DEF GC_N
  <2>3. CASE d \in DOMAIN open
    <3>1. open'[d] = open[d]
      BY <1>3, <2>3
    <3>2. Registered(d)
      BY <1>1, <1>3, <2>3 DEF ExitInv, DescriptorInv
    <3> QED BY <2>2, <3>1, <3>2 DEF Registered
  <2>4. CASE d \notin DOMAIN open
    <3>1. open'[d] = opens + 1
      BY <1>3, <2>4
    <3>2. PICK i \in DOMAIN new : new[i] = d
      BY <1>3, <2>4
    <3>3. [key |-> "heap", fd |-> d, since |-> opens + 1] \in GChandlersMap'
      BY <1>3, <2>1, <3>2 DEF GC_N
    <3> QED BY <3>1, <3>3 DEF Registered
  <2> QED BY <2>3, <2>4
<1>4. children' \in Nat /\ slots' \in Nat /\ turn' \in Nat
  BY DEF ExitUnchanged, ExitInv, PhaseInv
<1> QED BY <1>1, <1>2, <1>3, <1>4, MemoryStays, StayKeeps

(* Closing drops no registration, least of all of what stays open.          *)
LEMMA CloseKeeps ==
  ASSUME ExitInv, msgClose
  PROVE  ExitInv'
<1> USE DEF msgClose
<1>1. Before /\ UNCHANGED <<phase, isGC>>
  BY DEF MayCall, Before, MemoryUnchanged, ExitUnchanged
<1>2. GChandlersMap' = GChandlersMap
  BY DEF GC_D, ExitInv, DescriptorInv
<1>3. \A h \in GChandlersMap' : h.key = "heap"
  BY <1>2 DEF ExitInv, DescriptorInv
<1>4. ASSUME isGC, NEW d \in DOMAIN open' \ {0} PROVE Registered(d)'
  <2>1. d \in DOMAIN open /\ open'[d] = open[d]
    BY <1>4
  <2>2. Registered(d)
    BY <1>1, <1>4, <2>1 DEF ExitInv, DescriptorInv
  <2> QED BY <1>2, <2>1, <2>2 DEF Registered
<1>5. children' \in Nat /\ slots' \in Nat /\ turn' \in Nat
  BY DEF ExitUnchanged, ExitInv, PhaseInv
<1> QED BY <1>1, <1>3, <1>4, <1>5, MemoryStays, StayKeeps

(* Forks, waits, and the exit handlers one after the other.                 *)
LEMMA CountersKeep ==
  ASSUME ExitInv, processFork \/ ProgramWaits \/ ExitHandlerAdd \/ RunHandler
  PROVE  ExitInv'
<1> USE DEF processFork, ProgramWaits, ExitHandlerAdd, RunHandler
<1>1. Before /\ MemoryUnchanged /\ DescriptorsUnchanged /\ UNCHANGED <<phase, isGC>>
  BY DEF Before, MemoryUnchanged, ExitUnchanged
<1>2. children' \in Nat /\ slots' \in Nat /\ turn' \in Nat
  BY DEF ExitUnchanged, ExitInv, PhaseInv
<1> QED BY <1>1, <1>2, MemoryStays, DescriptorsStay, StayKeeps

(* exit, called by the program, by a failing allocation or by a handler.    *)
LEMMA ExitCalledKeeps ==
  ASSUME ExitInv,
         CallExit \/ AllocationFails \/ ReallocationFails \/ CollectorFails \/ HandlerExits
  PROVE  ExitInv'
<1> USE DEF CallExit, AllocationFails, ReallocationFails, CollectorFails, HandlerExits
<1>1. Before /\ DescriptorsUnchanged /\ UNCHANGED <<children, slots>>
  BY DEF MayCall, Before
<1>2. /\ phase' = "gone" \/ (phase = "running" /\ phase' = "handlers")
      /\ turn' \in Nat
  BY DEF SysErr, MayCall, ExitInv, PhaseInv
<1>3. phase' = "gone" => ~ HandlersDone'
  BY DEF HandlersDone, MayCall, SysErr
<1>4. isGC' => isGC
  BY DEF MemoryUnchanged
<1>5. ASSUME phase' = "handlers", isGC' PROVE AllKnown'
  <2>1. AllKnown /\ lost = {}
    BY <1>1, <1>2, <1>4, <1>5 DEF ExitInv, MemoryInv, AllKnown
  <2>2. CASE MemoryUnchanged
    BY <1>5, <2>1, <2>2 DEF AllKnown, MemoryUnchanged
  <2>3. CASE ReallocationFails
    BY <1>4, <1>5, <2>1, <2>3 DEF AllKnown, GC_ON_FREE
  <2> QED BY <1>5, <2>2, <2>3
<1>6. PhaseInv'
  BY <1>1, <1>2 DEF ExitInv, PhaseInv
<1>7. MemoryInv'
  BY <1>2, <1>5 DEF MemoryInv, Before
<1>8. DescriptorInv'
  BY <1>1, <1>2, <1>4, DescriptorsStay DEF DescriptorInv, Before
<1>9. CleanExit'
  BY <1>3 DEF CleanExit
<1> QED BY <1>6, <1>7, <1>8, <1>9 DEF ExitInv

(* The hook of the collector starts, or the process ends as it is.          *)
LEMMA HookKeeps ==
  ASSUME ExitInv, gc_exit_hook
  PROVE  ExitInv'
<1> USE DEF gc_exit_hook
<1>1. Before /\ DescriptorsUnchanged /\ UNCHANGED <<live, GCmemMap, lost, slots, turn, children>>
  BY DEF Before
<1>2. PhaseInv'
  BY <1>1 DEF ExitInv, PhaseInv, Before
<1>3. MemoryInv'
  BY <1>1 DEF ExitInv, MemoryInv, AllKnown, Before
<1>4. DescriptorInv'
  BY <1>1, DescriptorsStay DEF DescriptorInv, Before
<1>5. CleanExit'
  BY <1>1 DEF CleanExit, ExitInv, PhaseInv
<1> QED BY <1>2, <1>3, <1>4, <1>5 DEF ExitInv

(* A destructor closes one number, which no other descriptor has.           *)
LEMMA DestructKeeps ==
  ASSUME ExitInv, Destruct
  PROVE  ExitInv'
<1> USE DEF Destruct
<1>1. PICK g \in GChandlersMap : /\ GChandlersMap' = GChandlersMap \ {g}
                                 /\ open' = [d \in DOMAIN open \ {g.fd} |-> open[d]]
  OBVIOUS
<1>2. phase = "destructors" /\ MemoryUnchanged /\ ExitUnchanged /\ UNCHANGED children
  OBVIOUS
<1>3. PhaseInv' /\ MemoryInv' /\ CleanExit'
  BY <1>2 DEF ExitInv, PhaseInv, MemoryInv, CleanExit, Before, MemoryUnchanged, ExitUnchanged
<1>4. ASSUME NEW d \in DOMAIN open' \ {0} PROVE Registered(d)'
  <2>1. d \in DOMAIN open /\ d # g.fd /\ open'[d] = open[d]
    BY <1>1, <1>4
  <2>2. PICK h \in GChandlersMap : h.fd = d /\ h.since = open[d]
    BY <1>2, <1>4, <2>1 DEF ExitInv, DescriptorInv, Registered
  <2>3. h \in GChandlersMap'
    BY <1>1, <2>1, <2>2
  <2> QED BY <2>1, <2>2, <2>3 DEF Registered
<1>5. DescriptorInv'
  BY <1>1, <1>2, <1>4 DEF ExitInv, DescriptorInv, Before, ExitUnchanged
<1> QED BY <1>3, <1>5 DEF ExitInv

(* When no registration is left no descriptor is open but 0; the collector  *)
(* stays off when it cannot finish.                                         *)
LEMMA FreeAllKeeps ==
  ASSUME ExitInv, FreeAll \/ SweepFails
  PROVE  ExitInv'
<1> USE DEF FreeAll, SweepFails
<1>1. DOMAIN open \subseteq {0}
  BY DEF ExitInv, DescriptorInv, Registered
<1>2. phase' = "waiting" => live' \subseteq lost'
  BY DEF ExitInv, MemoryInv
<1>3. /\ phase' \in {"waiting", "gone"} /\ ~ isGC'
      /\ DescriptorsUnchanged /\ UNCHANGED <<slots, children, turn>>
  BY DEF ExitInv, PhaseInv
<1>4. PhaseInv' /\ MemoryInv' /\ CleanExit'
  BY <1>2, <1>3 DEF ExitInv, PhaseInv, MemoryInv, CleanExit, Before
<1>5. DescriptorInv'
  BY <1>1, <1>3 DEF ExitInv, DescriptorInv, Before, DescriptorsUnchanged
<1> QED BY <1>4, <1>5 DEF ExitInv

(* The process is gone only when no child is left.                          *)
LEMMA WaitKeeps ==
  ASSUME ExitInv, processWaitForAll
  PROVE  ExitInv'
<1> USE DEF processWaitForAll
<1>1. phase = "waiting" /\ phase' \in {"waiting", "gone"} /\ children' \in Nat
  BY DEF ExitInv, PhaseInv
<1>2. phase' = "gone" => children' = 0
  BY DEF ExitInv, PhaseInv
<1>3. DescriptorsUnchanged /\ UNCHANGED <<live, GCmemMap, lost, slots, turn>>
  OBVIOUS
<1>4. PhaseInv' /\ MemoryInv' /\ DescriptorInv'
  BY <1>1, <1>3 DEF ExitInv, PhaseInv, MemoryInv, DescriptorInv, Before, DescriptorsUnchanged
<1>5. CleanExit'
  BY <1>1, <1>2, <1>3 DEF ExitInv, PhaseInv, MemoryInv, DescriptorInv, CleanExit, DescriptorsUnchanged
<1> QED BY <1>4, <1>5 DEF ExitInv

(* Every step keeps the invariant.                                          *)
LEMMA ExitInvStep == ExitInv /\ [GCNext]_gcVars => ExitInv'
<1> SUFFICES ASSUME ExitInv, [GCNext]_gcVars PROVE ExitInv'
  OBVIOUS
<1>1. CASE AllocateMemoryBlock \/ ReallocateMemoryBlock \/ FreePtr
  BY <1>1, MemoryStep
<1>2. CASE msgQueueOpen \/ msgPipeCreate
  BY <1>2, OpenedKeeps DEF msgQueueOpen, msgPipeCreate
<1>3. CASE msgClose
  BY <1>3, CloseKeeps
<1>4. CASE processFork \/ ProgramWaits \/ ExitHandlerAdd \/ RunHandler
  BY <1>4, CountersKeep
<1>5. CASE CallExit \/ AllocationFails \/ ReallocationFails \/ CollectorFails \/ HandlerExits
  BY <1>5, ExitCalledKeeps
<1>6. CASE gc_exit_hook
  BY <1>6, HookKeeps
<1>7. CASE Destruct
  BY <1>7, DestructKeeps
<1>8. CASE FreeAll \/ SweepFails
  BY <1>8, FreeAllKeeps
<1>9. CASE processWaitForAll
  BY <1>9, WaitKeeps
<1>10. CASE UNCHANGED gcVars
  BY <1>10 DEF gcVars, ExitInv, PhaseInv, MemoryInv, AllKnown, DescriptorInv, Registered, Before,
               CleanExit, HandlersDone
<1> QED
  BY <1>1, <1>2, <1>3, <1>4, <1>5, <1>6, <1>7, <1>8, <1>9, <1>10 DEF GCNext

LEMMA ExitInvAlways == GCSpec => []ExitInv
<1>1. GCInit => ExitInv
  BY DEF GCInit, ExitInv, PhaseInv, MemoryInv, AllKnown, DescriptorInv, Registered, Before, CleanExit
<1> QED BY <1>1, ExitInvStep, PTL DEF GCSpec

(* As long as the collector is on and the program or one of its exit        *)
(* handlers runs, the pointer table of gcinit.h is exactly what malloc gave *)
(* and free did not take back, reallocations in place included; only the    *)
(* block of the realloc whose failure ends the program may be missing.      *)
THEOREM RegistryIsExact == GCSpec => []RegistryExact
<1>1. ExitInv => RegistryExact
  BY DEF ExitInv, MemoryInv, AllKnown, RegistryExact, MayCall, Before
<1> QED BY <1>1, ExitInvAlways, PTL

(* Every open descriptor but 0 is in the destructor table with the opening  *)
(* it belongs to, however often its number was closed and opened again.     *)
THEOREM EveryDescriptorKept == GCSpec => []DescriptorsKept
<1>1. ExitInv => DescriptorsKept
  BY DEF ExitInv, DescriptorInv, DescriptorsKept, Registered, MayCall, Before
<1> QED BY <1>1, ExitInvAlways, PTL

(* A process whose collector has run to its end is gone without descriptors *)
(* and children and without memory but for the block of a failed realloc;   *)
(* the only other ways to end are the two CleanExit names.                  *)
THEOREM ExitIsClean == GCSpec => []CleanExit
<1>1. ExitInv => CleanExit
  BY DEF ExitInv
<1> QED BY <1>1, ExitInvAlways, PTL
=============================================================================
