---------------------------- MODULE SystemProofs ----------------------------
(***************************************************************************)
(* Theorems about AutomatonSystem, for every value of its constants.       *)
(***************************************************************************)
EXTENDS ExitProofs, WellFoundedInduction

-----------------------------------------------------------------------------
(* THE THROTTLE                                                            *)

(* What keeps the counter bounded at each point of the server's loop: the   *)
(* counter may exceed the limit by one at the head of the loop only, and    *)
(* then the throttled mode makes the server wait for a result, one active    *)
(* task fewer, before it can start another run.                             *)
ThrottleInv ==
    /\ activeTasksCount \in Int
    /\ throttled_mode \in BOOLEAN
    /\ runBlocking = throttled_mode
    /\ activeTasksCount <= SERVER_PROCESS_LIMIT + 1
    /\ serverPc = "runs" /\ activeTasksCount > SERVER_PROCESS_LIMIT
         => throttled_mode
    /\ serverPc \in {"answer", "reap", "input", "spawn", "push"}
         => activeTasksCount <= SERVER_PROCESS_LIMIT

LEMMA ThrottleInit == Init => ThrottleInv
<1> SUFFICES ASSUME ServerInit PROVE ThrottleInv
  BY DEF Init
<1>1. /\ activeTasksCount = 0
      /\ throttled_mode = FALSE
      /\ runBlocking = FALSE
      /\ serverPc = "register"
  BY DEF ServerInit
<1>2. SERVER_PROCESS_LIMIT \in Nat
  BY ServerAssumption DEF ServerAssumption
<1>3. throttled_mode \in BOOLEAN /\ runBlocking = throttled_mode
  BY <1>1
<1>4. activeTasksCount \in Int /\ activeTasksCount <= SERVER_PROCESS_LIMIT + 1
  BY <1>1, <1>2
<1>5. serverPc \notin {"runs", "answer", "reap", "input", "spawn", "push"}
  BY <1>1
<1> QED
  BY <1>3, <1>4, <1>5 DEF ThrottleInv

LEMMA ThrottleServer == ThrottleInv /\ ServerStep => ThrottleInv'
<1> SUFFICES ASSUME ThrottleInv, ServerStep PROVE ThrottleInv'
  OBVIOUS
<1> USE ServerAssumption DEF ServerAssumption, ThrottleInv
<1>1. CASE RegisterTester
  BY <1>1 DEF RegisterTester, loopVars
<1>2. CASE Throttle
  BY <1>2 DEF Throttle, ThrottleLock
<1>3. CASE NoRunResult
  BY <1>3 DEF NoRunResult, loopVars
<1>4. CASE ReadRunResult
  BY <1>4 DEF ReadRunResult, ThrottleUnlock
<1>5. CASE SendAnswer
  BY <1>5 DEF SendAnswer, loopVars
<1>6. CASE ReapNothing
  BY <1>6 DEF ReapNothing, AfterReap, ActiveAfterReap, reapUnchanged
<1>7. CASE ReapExited
  BY <1>7 DEF ReapExited, AfterReap, ActiveAfterReap, reapUnchanged
<1>8. CASE ReapFailed
  BY <1>8 DEF ReapFailed, AfterReap, ActiveAfterReap, reapUnchanged
<1>9. CASE ReapFatal
  BY <1>9 DEF ReapFatal, reapUnchanged
<1>10. CASE NoRequest
  BY <1>10 DEF NoRequest, loopVars
<1>11. CASE TakeExitRequest
  BY <1>11 DEF TakeExitRequest
<1>12. CASE TakeRequest
  BY <1>12 DEF TakeRequest, loopVars
<1>13. CASE Spawn
  BY <1>13 DEF Spawn, loopVars
<1>14. CASE SpawnFails
  BY <1>14 DEF SpawnFails, loopVars
<1>15. CASE PushGraph
  BY <1>15 DEF PushGraph
<1>16. CASE WaitAfterFailure
  BY <1>16 DEF WaitAfterFailure, loopVars
<1>17. CASE BroadcastExit
  BY <1>17 DEF BroadcastExit, loopVars
<1>18. CASE PrintReport
  BY <1>18 DEF PrintReport, loopVars
<1>19. CASE RemoveQueues
  BY <1>19 DEF RemoveQueues, Unlink, loopVars
<1>20. CASE FinalWait
  BY <1>20 DEF FinalWait, loopVars
<1>21. CASE OnExit
  BY <1>21 DEF OnExit, loopVars
<1>22. CASE ExitWait
  BY <1>22 DEF ExitWait, loopVars
<1> QED
  BY <1>1, <1>2, <1>3, <1>4, <1>5, <1>6, <1>7, <1>8, <1>9, <1>10, <1>11,
     <1>12, <1>13, <1>14, <1>15, <1>16, <1>17, <1>18, <1>19, <1>20, <1>21,
     <1>22 DEF ServerStep

LEMMA ThrottleAlways == Spec => []ThrottleInv
<1>1. ThrottleInv /\ [Next]_vars => ThrottleInv'
  <2> SUFFICES ASSUME ThrottleInv, [Next]_vars PROVE ThrottleInv'
    OBVIOUS
  <2>1. CASE ServerNext
    BY <2>1, ThrottleServer DEF ServerNext
  <2>2. CASE UNCHANGED serverVars
    BY <2>2 DEF serverVars, loopVars, ThrottleInv
  <2> QED
    BY <2>1, <2>2 DEF Next, RunNext, CrashNext, TesterNext, Terminating, vars
<1> QED
  BY ThrottleInit, <1>1, PTL DEF Spec

(* The server never counts more than one run above SERVER_PROCESS_LIMIT     *)
(* (validator.c:204-248), for any number of testers, runs, words and faults. *)
THEOREM ThrottleBounded == Spec => []ThrottleBound
<1>1. ThrottleInv => ThrottleBound
  BY DEF ThrottleInv, ThrottleBound
<1> QED
  BY ThrottleAlways, <1>1, PTL

-----------------------------------------------------------------------------
(* THE COUNTER OF ACTIVE RUNS                                              *)

(* The runs whose result the server has not read.                           *)
Unread == {w \in Pids : runSlots[w] # NULL /\ (answering # NULL => w # answering.pid)}

LEMMA UnreadFinite ==
    /\ IsFiniteSet(Pids)
    /\ \A S \in SUBSET Pids : IsFiniteSet(S) /\ Cardinality(S) \in Nat
    /\ Unread \in SUBSET Pids
<1>1. IsFiniteSet(Pids)
  BY FS_Interval, PosixAssumption DEF PosixAssumption, Pids
<1>2. \A S \in SUBSET Pids : IsFiniteSet(S) /\ Cardinality(S) \in Nat
  BY <1>1, FS_Subset, FS_CardinalityType
<1> QED
  BY <1>1, <1>2 DEF Unread

(* The server reads the result of a run.                                    *)
LEMMA ReadTakes ==
    ASSUME ServedInv, ReadRunResult
    PROVE  \E w \in Unread :
             /\ Unread' = Unread \ {w} /\ w = runQ[0][1].pid
             /\ runQ[0] \in Seq(RunResult) /\ runQ[0] # <<>> /\ runQ'[0] = Tail(runQ[0])
             /\ answering = NULL /\ spawned = NULL /\ spawned' = NULL
             /\ serverPc' = "answer" /\ snt_count' = snt_count + 1
<1> USE DEF ServedInv, RouteInv, AnswerInv
<1>1. answering = NULL /\ spawned = NULL /\ spawned' = NULL
  BY DEF ReadRunResult, AnsweringInv, ResetInv
<1>2. /\ runQ[0] \in Seq(RunResult) /\ runQ[0] # <<>> /\ runQ'[0] = Tail(runQ[0])
      /\ runQ[0][1].pid \in Pids /\ Head(runQ[0]) = runQ[0][1]
      /\ runSlots[runQ[0][1].pid] # NULL
  <2>1. /\ runQ[0] \in Seq(RunResult) /\ runQ[0] # <<>> /\ runQ'[0] = Tail(runQ[0])
    BY DEF ReadRunResult, HasMessage, Received, TypeInv, TypeOK, PosixTypeOK, Generation
  <2>2. 1 \in 1 .. Len(runQ[0]) /\ Head(runQ[0]) = runQ[0][1]
    BY <2>1, TailShift
  <2> QED
    BY <2>1, <2>2, ResultTyped DEF QueueInv
<1>3. PICK w \in Pids : w = runQ[0][1].pid
  BY <1>2
<1>4. /\ serverPc' = "answer" /\ snt_count' = snt_count + 1 /\ runSlots' = runSlots
      /\ \E t \in MatchSession(runSlots[w]) :
            answering' = [pid |-> w, tester |-> t, result |-> Head(runQ[0]).result]
  BY <1>2, <1>3 DEF ReadRunResult
<1>5. answering' # NULL /\ answering'.pid = w
  <2>1. PICK t \in MatchSession(runSlots[w]) :
          answering' = [pid |-> w, tester |-> t, result |-> Head(runQ[0]).result]
    BY <1>4
  <2>2. answering' \in Verdict
    <3>1. Head(runQ[0]) \in RunResult
      BY <1>2
    <3>2. Head(runQ[0]).result \in BOOLEAN /\ t \in Testers
      BY <2>1, <3>1 DEF RunResult, MatchSession, Sessions
    <3> QED
      BY <2>1, <3>2 DEF Verdict
  <2> QED
    BY <2>1, <2>2, NullAssumption
<1>6. w \in Unread /\ Unread' = Unread \ {w}
  BY <1>1, <1>2, <1>3, <1>4, <1>5 DEF Unread
<1> QED
  BY <1>1, <1>2, <1>3, <1>4, <1>6

(* A run is forked.                                                         *)
LEMMA SpawnAdds ==
    ASSUME ServedInv, Spawn
    PROVE  \E w \in Pids \ Unread :
             /\ Unread' = Unread \cup {w} /\ spawned' = w /\ w # NULL
             /\ spawned = NULL /\ request # NULL /\ request' = NULL
             /\ runState'[w] = "boot" /\ \A v \in Pids \ {w} : runState'[v] = runState[v]
<1> USE DEF ServedInv, RouteInv, AnswerInv
<1>1. PICK w \in Pids :
        /\ Fork(w, request.word) /\ spawned' = w
        /\ runSlots' = [runSlots EXCEPT ![w] =
                          [loc_id |-> request.loc_id, tester |-> request.tester]]
  BY DEF Spawn
<1>2. /\ serverPc = "spawn" /\ answering = NULL /\ answering' = NULL /\ spawned = NULL
      /\ request \in Parse /\ request # NULL /\ request' = NULL
  BY NullAssumption DEF Spawn, AnsweringInv, ResetInv, TypeInv, LocalsSet
<1>3. /\ runState[w] = "none" /\ runSlots[w] = NULL /\ runState'[w] = "boot"
      /\ \A v \in Pids \ {w} : runState'[v] = runState[v]
  BY <1>1 DEF Fork, ResetInv, TypeInv, TypeOK, PosixTypeOK
<1>4. PICK slot \in RunSlot : slot = [loc_id |-> request.loc_id, tester |-> request.tester]
  BY <1>2 DEF Parse, RunSlot
<1>5. /\ runSlots'[w] # NULL /\ w # NULL
      /\ \A v \in Pids \ {w} : runSlots'[v] = runSlots[v]
  BY <1>1, <1>4, NullAssumption DEF TypeInv, TypeOK, ServerTypeOK
<1>6. w \notin Unread /\ Unread' = Unread \cup {w}
  BY <1>2, <1>3, <1>5 DEF Unread
<1> QED
  BY <1>1, <1>2, <1>3, <1>5, <1>6

(* No other step changes what is unread.                                    *)
LEMMA UnreadSteps ==
    ASSUME ServedInv, [Next]_vars
    PROVE  \/ ServerNext /\ ReadRunResult
           \/ ServerNext /\ Spawn
           \/ ServerNext /\ ~ ReadRunResult /\ ~ Spawn /\ Unread' = Unread
           \/ UNCHANGED serverVars /\ Unread' = Unread
<1>1. CASE ServerNext /\ ~ ReadRunResult /\ ~ Spawn
  <2>1. CASE SendAnswer
    <3>1. /\ answering # NULL /\ answering.pid \in Pids /\ answering' = NULL
          /\ runSlots' = [runSlots EXCEPT ![answering.pid] = NULL]
      BY <2>1, NullAssumption DEF SendAnswer, ServedInv, TypeInv, LocalsSet, Verdict
    <3>2. /\ runSlots'[answering.pid] = NULL
          /\ \A w \in Pids \ {answering.pid} : runSlots'[w] = runSlots[w]
      BY <3>1 DEF ServedInv, TypeInv, TypeOK, ServerTypeOK
    <3>3. Unread' = Unread
      BY <3>1, <3>2 DEF Unread
    <3> QED
      BY <1>1, <3>3
  <2>2. CASE ~ SendAnswer
    <3>1. UNCHANGED <<runSlots, answering>>
      BY <1>1, <2>2 DEF ServerNext, ServerStep, RegisterTester, Throttle, NoRunResult,
         ReapNothing, ReapExited, ReapFailed, ReapFatal, reapUnchanged, NoRequest,
         TakeExitRequest, TakeRequest, SpawnFails, PushGraph, WaitAfterFailure, BroadcastExit,
         PrintReport, RemoveQueues, Unlink, FinalWait, OnExit, ExitWait, slotVars, localVars
    <3>2. Unread' = Unread
      BY <3>1 DEF Unread
    <3> QED
      BY <1>1, <3>2
  <2> QED
    BY <2>1, <2>2
<1>2. CASE UNCHANGED serverVars
  <2>1. Unread' = Unread
    BY <1>2 DEF Unread, serverVars, slotVars, localVars
  <2> QED
    BY <1>2, <2>1
<1> QED
  BY <1>1, <1>2 DEF Next, RunNext, CrashNext, TesterNext, Terminating, vars

(* While no run fails, the counter of active runs is the number of results  *)
(* that were not read, but for the run that was just forked.                *)
CountedInv ==
    /\ activeTasksCount + (IF spawned # NULL THEN 1 ELSE 0) = Cardinality(Unread)
    /\ spawned # NULL => spawned \in Unread
    /\ serverPc # "failureWait"
    /\ \A w \in Pids : runState[w] # "failed"

(* No run fails unless one is killed.                                       *)
LEMMA NoneFails ==
    ASSUME TypeInv, [Next]_vars, "crash" \notin Faults,
           \A w \in Pids : runState[w] # "failed"
    PROVE  \A w \in Pids : runState'[w] # "failed"
<1> USE DEF TypeInv, TypeOK, PosixTypeOK
<1>1. CASE ServerNext
  <2>1. CASE ReapExited \/ ReapFailed \/ ReapFatal
    BY <2>1 DEF ReapExited, ReapFailed, ReapFatal, Reap
  <2>2. CASE WaitAfterFailure \/ FinalWait \/ ExitWait
    BY <2>2 DEF WaitAfterFailure, FinalWait, ExitWait, WaitForAll
  <2>3. CASE Spawn
    BY <2>3 DEF Spawn, Fork
  <2>4. CASE ~ (ReapExited \/ ReapFailed \/ ReapFatal \/ WaitAfterFailure \/ FinalWait
                \/ ExitWait \/ Spawn)
    <3>1. runState' = runState
      BY <1>1, <2>4 DEF ServerNext, ServerStep, RegisterTester, Throttle, NoRunResult,
         ReadRunResult, SendAnswer, ReapNothing, NoRequest, TakeExitRequest, TakeRequest,
         SpawnFails, PushGraph, BroadcastExit, PrintReport, RemoveQueues, Unlink, OnExit,
         posixVars, processVars
    <3> QED
      BY <3>1
  <2> QED
    BY <2>1, <2>2, <2>3, <2>4
<1>2. ASSUME NEW w \in Pids, RunNext(w) \/ CrashNext(w)
      PROVE  \A v \in Pids : runState'[v] # "failed"
  BY <1>2 DEF RunNext, CrashNext, Crash, Fault, RunStep, OpenQueues, ReadGraph, CommitResult,
              ExitRun, MoveRun
<1>3. CASE UNCHANGED runState
  BY <1>3
<1>4. ASSUME NEW t \in Testers, TesterNext(t) PROVE UNCHANGED runState
  BY <1>4, TesterKeeps DEF processVars
<1> QED
  BY <1>1, <1>2, <1>3, <1>4 DEF Next, Terminating, vars, posixVars, processVars

LEMMA CountedStep ==
    ASSUME ServedInv, CountedInv, [Next]_vars, "crash" \notin Faults
    PROVE  CountedInv'
<1> USE DEF ServedInv, RouteInv, AnswerInv
<1>0. /\ activeTasksCount \in Int /\ Cardinality(Unread) \in Nat /\ IsFiniteSet(Unread)
  BY UnreadFinite DEF TypeInv, TypeOK, ServerTypeOK
<1>1. \A w \in Pids : runState'[w] # "failed"
  BY NoneFails DEF CountedInv
<1>2. CASE ServerNext /\ ReadRunResult
  <2>1. PICK w \in Unread :
          /\ Unread' = Unread \ {w} /\ spawned = NULL /\ spawned' = NULL /\ serverPc' = "answer"
    BY <1>2, ReadTakes
  <2>2. Cardinality(Unread') = Cardinality(Unread) - 1
    BY <1>0, <2>1, FS_RemoveElement
  <2>3. activeTasksCount' = activeTasksCount - 1
    BY <1>2 DEF ReadRunResult
  <2> QED
    BY <1>0, <1>1, <2>1, <2>2, <2>3 DEF CountedInv
<1>3. CASE ServerNext /\ Spawn
  <2>1. PICK w \in Pids \ Unread :
          /\ Unread' = Unread \cup {w} /\ spawned' = w /\ w # NULL /\ spawned = NULL
    BY <1>3, SpawnAdds
  <2>2. Cardinality(Unread') = Cardinality(Unread) + 1
    BY <1>0, <2>1, FS_AddElement
  <2>3. activeTasksCount' = activeTasksCount /\ serverPc' = "push"
    BY <1>3 DEF Spawn, loopVars
  <2> QED
    BY <1>0, <1>1, <2>1, <2>2, <2>3 DEF CountedInv
<1>4. CASE ServerNext /\ ~ ReadRunResult /\ ~ Spawn /\ Unread' = Unread
  <2>1. CASE PushGraph
    <3>1. /\ spawned # NULL /\ spawned' = NULL /\ serverPc' = "register"
          /\ activeTasksCount' = activeTasksCount + 1
      BY <2>1, NullAssumption DEF PushGraph, TypeInv, LocalsSet
    <3> QED
      BY <1>0, <1>1, <1>4, <3>1 DEF CountedInv
  <2>2. CASE ReapFailed \/ ReapFatal
    BY <2>2 DEF ReapFailed, ReapFatal, CountedInv
  <2>3. CASE ReapNothing \/ ReapExited
    <3>1. /\ activeTasksCount' = activeTasksCount /\ spawned' = spawned
          /\ serverPc' \in {"broadcast", "register", "input"}
      BY <2>3 DEF ReapNothing, ReapExited, AfterReap, ActiveAfterReap, reapUnchanged, localVars
    <3> QED
      BY <1>1, <1>4, <3>1 DEF CountedInv
  <2>4. CASE ~ (PushGraph \/ ReapFailed \/ ReapFatal \/ ReapNothing \/ ReapExited)
    <3>1. UNCHANGED <<activeTasksCount, spawned>> /\ serverPc' # "failureWait"
      BY <1>4, <2>4 DEF ServerNext, ServerStep, RegisterTester, Throttle, NoRunResult,
         SendAnswer, NoRequest, TakeExitRequest, TakeRequest, SpawnFails, WaitAfterFailure,
         BroadcastExit, PrintReport, RemoveQueues, Unlink, FinalWait, OnExit, ExitWait,
         loopVars, localVars, CountedInv
    <3> QED
      BY <1>1, <1>4, <3>1 DEF CountedInv
  <2> QED
    BY <2>1, <2>2, <2>3, <2>4
<1>5. CASE UNCHANGED serverVars /\ Unread' = Unread
  BY <1>1, <1>5 DEF CountedInv, serverVars, loopVars, localVars
<1> QED
  BY <1>2, <1>3, <1>4, <1>5, UnreadSteps

LEMMA CountedInit == Init => CountedInv
<1> SUFFICES ASSUME Init PROVE CountedInv
  OBVIOUS
<1>1. Unread = {}
  BY DEF Init, ServerInit, Unread
<1>2. Cardinality(Unread) = 0
  BY <1>1, FS_EmptySet
<1> QED
  BY <1>2 DEF Init, ServerInit, PosixInit, CountedInv

LEMMA CountedAlways ==
    ASSUME "crash" \notin Faults
    PROVE  Spec => [](ServedInv /\ CountedInv)
<1>1. ServedInv /\ CountedInv /\ [Next]_vars => ServedInv' /\ CountedInv'
  BY ServedStep, CountedStep
<1> QED
  BY ServedInit, CountedInit, <1>1, PTL DEF Spec

(* While no run fails, activeTasksCount is the number of runs whose result  *)
(* has not been read, the run being spawned apart (validator.c:232, 484).   *)
THEOREM CounterExact ==
    ASSUME "crash" \notin Faults
    PROVE  Spec => []ActiveExact
<1>1. ASSUME ServedInv, CountedInv PROVE ActiveExact
  <2>1. {w \in Pids : /\ runSlots[w] # NULL
                      /\ w # spawned
                      /\ answering # NULL => w # answering.pid} = Unread \ {spawned}
    BY DEF Unread
  <2>2. IsFiniteSet(Unread) /\ Cardinality(Unread) \in Nat /\ activeTasksCount \in Int
    BY <1>1, UnreadFinite DEF ServedInv, TypeInv, TypeOK, ServerTypeOK
  <2>3. activeTasksCount = Cardinality(Unread \ {spawned})
    <3>1. CASE spawned = NULL
      <4>1. Unread \ {spawned} = Unread
        BY <3>1, NullAssumption, UnreadFinite
      <4> QED
        BY <1>1, <2>2, <3>1, <4>1 DEF CountedInv
    <3>2. CASE spawned # NULL
      <4>1. Cardinality(Unread \ {spawned}) = Cardinality(Unread) - 1
        BY <1>1, <2>2, <3>2, FS_RemoveElement DEF CountedInv
      <4> QED
        BY <1>1, <2>2, <3>2, <4>1 DEF CountedInv
    <3> QED
      BY <3>1, <3>2
  <2> QED
    BY <2>1, <2>3 DEF ActiveExact
<1>2. ServedInv /\ CountedInv => ActiveExact
  BY <1>1
<1> QED
  BY CountedAlways, <1>2, PTL

(* The throttle limits processes, not just a counter                        *)
(* (automaton_config.h:44-52): while no run fails, as few runs are between  *)
(* their fork and the send of their result.                                 *)
THEOREM LiveRunsBounded ==
    ASSUME "crash" \notin Faults
    PROVE  Spec => []LiveRunsBound
<1>1. ASSUME ServedInv, CountedInv, ThrottleInv PROVE LiveRunsBound
  <2>1. {w \in Pids : Computing(w)} \subseteq Unread
    BY <1>1 DEF ServedInv, RouteInv, RunInv, Unread
  <2>2. /\ Cardinality({w \in Pids : Computing(w)}) <= Cardinality(Unread)
        /\ Cardinality({w \in Pids : Computing(w)}) \in Nat /\ Cardinality(Unread) \in Nat
    BY <2>1, UnreadFinite, FS_Subset
  <2>3. Cardinality(Unread) <= SERVER_PROCESS_LIMIT + 1
    <3>1. spawned # NULL => activeTasksCount <= SERVER_PROCESS_LIMIT
      BY <1>1 DEF ServedInv, AnswerInv, ResetInv, ThrottleInv
    <3>2. activeTasksCount <= SERVER_PROCESS_LIMIT + 1 /\ activeTasksCount \in Int
      BY <1>1 DEF ThrottleInv
    <3> QED
      BY <1>1, <2>2, <3>1, <3>2, ServerAssumption DEF CountedInv, ServerAssumption
  <2> QED
    BY <2>2, <2>3, ServerAssumption DEF LiveRunsBound, ServerAssumption
<1>2. ServedInv /\ CountedInv /\ ThrottleInv => LiveRunsBound
  BY <1>1
<1> QED
  BY CountedAlways, ThrottleAlways, <1>2, PTL

-----------------------------------------------------------------------------
(* THE RESULTS THE SERVER WAITS FOR                                        *)

Late == {"unlinkRegister", "finalWait", "onExit", "exitWait", "stopped"}

(* The queue of the results is there until the server ends, and until then  *)
(* the result of each run that was not read is in it or is being computed.  *)
ComingInv ==
    /\ "run" \in unlinked => serverPc \in Late
    /\ "run" \notin unlinked =>
         /\ runQ[1] = <<>>
         /\ \A w \in Pids : workerRunQ[w] = 0
         /\ \A w \in Unread :
              Computing(w) \/ \E i \in 1 .. Len(runQ[0]) : runQ[0][i].pid = w

(* Who touches the names, and the queue of the results.                     *)
LEMMA NameSteps ==
    ASSUME TypeInv, [Next]_vars, "run" \in unlinked'
    PROVE  \/ "run" \in unlinked /\ (serverPc \in Late => serverPc' \in Late)
           \/ serverPc' \in Late
<1>1. CASE ServerNext
  <2>1. CASE RemoveQueues
    BY <2>1 DEF RemoveQueues, Unlink, Late
  <2>2. CASE ~ RemoveQueues
    <3>1. unlinked' = unlinked
      BY <1>1, <2>2 DEF ServerNext, ServerStep, RegisterTester, Throttle, NoRunResult, ReadRunResult,
         SendAnswer, ReapNothing, ReapExited, ReapFailed, ReapFatal, reapUnchanged, NoRequest,
         TakeExitRequest, TakeRequest, Spawn, SpawnFails, PushGraph, WaitAfterFailure,
         BroadcastExit, PrintReport, FinalWait, OnExit, ExitWait, posixVars, queueVars
    <3>2. serverPc \in Late => serverPc' \in Late
      BY <1>1, <2>2 DEF Late, ServerNext, ServerStep, RegisterTester, Throttle, NoRunResult,
         ReadRunResult, SendAnswer, ReapNothing, ReapExited, ReapFailed, ReapFatal, NoRequest,
         TakeExitRequest, TakeRequest, Spawn, SpawnFails, PushGraph, WaitAfterFailure,
         BroadcastExit, PrintReport, FinalWait, OnExit, ExitWait
    <3> QED
      BY <3>1, <3>2
  <2> QED
    BY <2>1, <2>2
<1>2. ASSUME NEW w \in Pids, RunNext(w) \/ CrashNext(w)
      PROVE  unlinked' = unlinked /\ serverPc' = serverPc
  BY <1>2 DEF RunNext, CrashNext, RunStep, OpenQueues, ReadGraph, CommitResult, ExitRun, Crash,
              queueVars, serverVars
<1>3. ASSUME NEW t \in Testers, TesterNext(t)
      PROVE  serverPc' = serverPc /\ "run" \in unlinked
  <2>1. t # "run"
    BY PosixAssumption DEF PosixAssumption, ServerQueues
  <2>2. unlinked' \in {unlinked, unlinked \cup {t}}
    BY <1>3 DEF TesterNext, TesterStep, OpenRegister, Register, OpenReport, ReadLine, SendExit,
       SendWord, TakeAnswer, TakeExit, PollNothing, CloseTester, posixVars, queueVars
  <2> QED
    BY <1>3, <2>1, <2>2 DEF TesterNext, serverVars
<1>4. CASE UNCHANGED vars
  BY <1>4 DEF vars, posixVars, queueVars, serverVars
<1> QED
  BY <1>1, <1>2, <1>3, <1>4 DEF Next, Terminating

(* A name that is gone stays so.                                            *)
LEMMA NamesGo ==
    ASSUME [Next]_vars, "run" \in unlinked
    PROVE  "run" \in unlinked'
<1>1. CASE ServerNext
  BY <1>1 DEF ServerNext, ServerStep, RegisterTester, Throttle, NoRunResult, ReadRunResult,
     SendAnswer, ReapNothing, ReapExited, ReapFailed, ReapFatal, reapUnchanged, NoRequest,
     TakeExitRequest, TakeRequest, Spawn, SpawnFails, PushGraph, WaitAfterFailure, RemoveQueues,
     Unlink, BroadcastExit, PrintReport, FinalWait, OnExit, ExitWait, posixVars, queueVars
<1>2. ASSUME NEW w \in Pids, RunNext(w) \/ CrashNext(w) PROVE unlinked' = unlinked
  BY <1>2 DEF RunNext, CrashNext, RunStep, OpenQueues, ReadGraph, CommitResult, ExitRun, Crash,
              queueVars
<1>3. ASSUME NEW t \in Testers, TesterNext(t) PROVE unlinked \subseteq unlinked'
  BY <1>3 DEF TesterNext, TesterStep, OpenRegister, Register, OpenReport, ReadLine, SendExit,
     SendWord, TakeAnswer, TakeExit, PollNothing, CloseTester, posixVars, queueVars
<1> QED
  BY <1>1, <1>2, <1>3 DEF Next, Terminating, vars, posixVars, queueVars

(* A run is computed until it commits its result.                           *)
LEMMA ComputingSteps ==
    ASSUME TypeInv, [Next]_vars, "crash" \notin Faults, NEW w \in Pids, Computing(w)
    PROVE  Computing(w)' \/ (RunNext(w) /\ CommitResult(w))
<1> USE DEF TypeInv, TypeOK, PosixTypeOK, Computing
<1>1. CASE ServerNext
  <2>1. CASE ReapExited \/ ReapFailed \/ ReapFatal
    BY <2>1 DEF ReapExited, ReapFailed, ReapFatal, Reap
  <2>2. CASE WaitAfterFailure \/ FinalWait \/ ExitWait
    BY <2>2 DEF WaitAfterFailure, FinalWait, ExitWait, WaitForAll, Zombie
  <2>3. CASE Spawn
    BY <2>3 DEF Spawn, Fork
  <2>4. CASE ~ (ReapExited \/ ReapFailed \/ ReapFatal \/ WaitAfterFailure \/ FinalWait
                \/ ExitWait \/ Spawn)
    <3>1. runState' = runState
      BY <1>1, <2>4 DEF ServerNext, ServerStep, RegisterTester, Throttle, NoRunResult,
         ReadRunResult, SendAnswer, ReapNothing, NoRequest, TakeExitRequest, TakeRequest,
         SpawnFails, PushGraph, BroadcastExit, PrintReport, RemoveQueues, Unlink, OnExit,
         posixVars, processVars
    <3> QED
      BY <3>1
  <2> QED
    BY <2>1, <2>2, <2>3, <2>4
<1>2. ASSUME NEW v \in Pids, RunNext(v) \/ CrashNext(v)
      PROVE  Computing(w)' \/ (RunNext(w) /\ CommitResult(w))
  <2>1. CASE v = w
    BY <1>2, <2>1 DEF RunNext, CrashNext, Crash, Fault, RunStep, OpenQueues, ReadGraph, ExitRun,
       MoveRun
  <2>2. CASE v # w
    BY <1>2, <2>2 DEF RunNext, CrashNext, Crash, RunStep, OpenQueues, ReadGraph, CommitResult,
       ExitRun, MoveRun
  <2> QED
    BY <2>1, <2>2
<1>3. ASSUME NEW t \in Testers, TesterNext(t) PROVE UNCHANGED runState
  BY <1>3, TesterKeeps DEF processVars
<1> QED
  BY <1>1, <1>2, <1>3 DEF Next, Terminating, vars, posixVars, processVars

(* A result is sent by its run and read by the server.                      *)
LEMMA ResultSteps ==
    ASSUME TypeInv, [Next]_vars
    PROVE  \/ runQ' = runQ
           \/ ServerNext /\ ReadRunResult
           \/ \E w \in Pids : RunNext(w) /\ CommitResult(w)
<1>1. CASE ServerNext
  BY <1>1 DEF ServerNext, ServerStep, RegisterTester, Throttle, NoRunResult,
     SendAnswer, ReapNothing, ReapExited, ReapFailed, ReapFatal, reapUnchanged, NoRequest,
     TakeExitRequest, TakeRequest, Spawn, SpawnFails, PushGraph, WaitAfterFailure, RemoveQueues,
     Unlink, BroadcastExit, PrintReport, FinalWait, OnExit, ExitWait, posixVars, queueVars
<1>2. ASSUME NEW w \in Pids, RunNext(w) \/ CrashNext(w)
      PROVE  runQ' = runQ \/ (RunNext(w) /\ CommitResult(w))
  BY <1>2 DEF RunNext, CrashNext, RunStep, OpenQueues, ReadGraph, ExitRun, Crash, queueVars
<1>3. ASSUME NEW t \in Testers, TesterNext(t) PROVE runQ' = runQ
  BY <1>3, TesterKeeps
<1> QED
  BY <1>1, <1>2, <1>3 DEF Next, Terminating, vars, posixVars, queueVars

(* A run that boots while the name is there opens the queue of the server.  *)
LEMMA OpensFirst ==
    ASSUME TypeInv, [Next]_vars, "run" \notin unlinked, \A w \in Pids : workerRunQ[w] = 0
    PROVE  \A w \in Pids : workerRunQ'[w] = 0
<1>1. ASSUME NEW w \in Pids, RunNext(w) \/ CrashNext(w)
      PROVE  \A v \in Pids : workerRunQ'[v] = 0
  <2>1. CASE OpenQueues(w)
    BY <2>1 DEF OpenQueues, OpenQueue, TypeInv, TypeOK, WorkerTypeOK
  <2>2. CASE ~ OpenQueues(w)
    BY <1>1, <2>2 DEF RunNext, CrashNext, RunStep, ReadGraph, CommitResult, ExitRun, Crash
  <2> QED
    BY <2>1, <2>2
<1> QED
  BY <1>1 DEF Next, ServerNext, TesterNext, Terminating, vars, workerVars

(* A run commits its result.                                                *)
LEMMA ResultGoes ==
    ASSUME TypeInv, NEW w \in Pids, CommitResult(w)
    PROVE  /\ Computing(w)
           /\ \E gen \in Generation, msg \in RunResult :
                /\ gen = workerRunQ[w] /\ msg.pid = w
                /\ runQ[gen] \in Seq(RunResult)
                /\ runQ'[gen] = Append(runQ[gen], msg)
                /\ \A g \in Generation \ {gen} : runQ'[g] = runQ[g]
<1>1. PICK gen \in Generation : gen = workerRunQ[w]
  BY DEF TypeInv, TypeOK, WorkerTypeOK
<1>2. PICK msg \in RunResult : msg = [pid |-> w, result |-> runWord[w] \in Accepted]
  <2>1. (runWord[w] \in Accepted) \in BOOLEAN
    OBVIOUS
  <2> QED
    BY <2>1 DEF RunResult
<1>3. runQ \in [Generation -> Seq(RunResult)] /\ runQ' = Sent(runQ, gen, msg)
  BY <1>1, <1>2 DEF CommitResult, TypeInv, TypeOK, PosixTypeOK
<1>4. /\ runQ[gen] \in Seq(RunResult) /\ runQ'[gen] = Append(runQ[gen], msg)
      /\ \A g \in Generation \ {gen} : runQ'[g] = runQ[g]
  BY <1>3 DEF Sent
<1>5. msg.pid = w /\ Computing(w)
  BY <1>2 DEF CommitResult, Computing
<1> QED
  BY <1>1, <1>4, <1>5

LEMMA ComingStep ==
    ASSUME ServedInv, ComingInv, [Next]_vars, "crash" \notin Faults
    PROVE  ComingInv'
<1> USE DEF ServedInv
<1>1. "run" \in unlinked' => serverPc' \in Late
  BY NameSteps DEF ComingInv
<1>2. ASSUME "run" \notin unlinked'
      PROVE  /\ runQ'[1] = <<>>
             /\ \A w \in Pids : workerRunQ'[w] = 0
             /\ \A w \in Unread' :
                  Computing(w)' \/ \E i \in 1 .. Len(runQ'[0]) : runQ'[0][i].pid = w
  <2>1. /\ "run" \notin unlinked /\ runQ[1] = <<>>
        /\ \A w \in Pids : workerRunQ[w] = 0
        /\ \A w \in Unread :
             Computing(w) \/ \E i \in 1 .. Len(runQ[0]) : runQ[0][i].pid = w
    BY <1>2, NamesGo DEF ComingInv
  <2>2. \A w \in Pids : workerRunQ'[w] = 0
    BY <2>1, OpensFirst
  <2>3. CASE ServerNext /\ ReadRunResult
    <3>1. PICK v \in Unread :
            /\ Unread' = Unread \ {v} /\ v = runQ[0][1].pid
            /\ runQ[0] \in Seq(RunResult) /\ runQ[0] # <<>> /\ runQ'[0] = Tail(runQ[0])
      BY <2>3, ReadTakes
    <3>2. runQ'[1] = <<>>
      <4>1. runQ' = Received(runQ, 0) /\ runQ \in [Generation -> Seq(RunResult)]
        BY <2>3 DEF ReadRunResult, TypeInv, TypeOK, PosixTypeOK
      <4> QED
        BY <2>1, <4>1 DEF Received, Generation
    <3>3. ASSUME NEW w \in Unread'
          PROVE  Computing(w)' \/ \E i \in 1 .. Len(runQ'[0]) : runQ'[0][i].pid = w
      <4>1. w \in Unread /\ w # v /\ w \in Pids
        BY <3>1 DEF Unread
      <4>2. CASE Computing(w)
        <5>1. ~ CommitResult(w)
          <6>1. runState' = runState
            BY <2>3 DEF ReadRunResult, processVars
          <6> QED
            BY <4>1, <4>2, <6>1 DEF CommitResult, MoveRun, TypeInv, TypeOK, PosixTypeOK
        <5> QED
          BY <4>1, <4>2, <5>1, ComputingSteps
      <4>3. ASSUME NEW i \in 1 .. Len(runQ[0]), runQ[0][i].pid = w
            PROVE  \E j \in 1 .. Len(runQ'[0]) : runQ'[0][j].pid = w
        <5>1. /\ i # 1 /\ Len(runQ[0]) \in Nat /\ Len(runQ'[0]) = Len(runQ[0]) - 1
          BY <3>1, <4>1, <4>3, TailShift
        <5>2. i - 1 \in 1 .. Len(runQ'[0])
          BY <5>1
        <5>3. runQ'[0][i - 1] = runQ[0][(i - 1) + 1]
          BY <3>1, <5>2, TailShift
        <5> QED
          BY <4>3, <5>2, <5>3
      <4> QED
        BY <2>1, <4>1, <4>2, <4>3
    <3> QED
      BY <2>2, <3>2, <3>3
  <2>4. CASE ~ (ServerNext /\ ReadRunResult)
    <3>1. ASSUME NEW w \in Unread', w \notin Unread
          PROVE  Computing(w)'
      <4>1. ServerNext /\ Spawn
        BY <2>4, <3>1, UnreadSteps
      <4>2. PICK v \in Pids : Unread' = Unread \cup {v} /\ runState'[v] = "boot"
        BY <4>1, SpawnAdds
      <4> QED
        BY <3>1, <4>2 DEF Computing
    <3>2. CASE runQ' = runQ
      <4>1. ASSUME NEW w \in Unread', w \in Unread, Computing(w)
            PROVE  Computing(w)'
        <5>1. w \in Pids /\ (CommitResult(w) => runQ' # runQ)
          <6>1. w \in Pids
            BY <4>1 DEF Unread
          <6>2. ASSUME CommitResult(w) PROVE runQ' # runQ
            <7>1. PICK gen \in Generation, msg \in RunResult :
                    runQ[gen] \in Seq(RunResult) /\ runQ'[gen] = Append(runQ[gen], msg)
              BY <6>1, <6>2, ResultGoes
            <7>2. Len(runQ'[gen]) = Len(runQ[gen]) + 1 /\ Len(runQ[gen]) \in Nat
              BY <7>1
            <7> QED
              BY <7>2
          <6> QED
            BY <6>1, <6>2
        <5> QED
          BY <3>2, <4>1, <5>1, ComputingSteps
      <4> QED
        BY <2>1, <2>2, <3>1, <3>2, <4>1
    <3>3. ASSUME NEW v \in Pids, RunNext(v), CommitResult(v)
          PROVE  /\ runQ'[1] = <<>>
                 /\ \A w \in Unread' :
                      Computing(w)' \/ \E i \in 1 .. Len(runQ'[0]) : runQ'[0][i].pid = w
      <4>0. PICK msg \in RunResult :
              /\ msg.pid = v
              /\ runQ[0] \in Seq(RunResult) /\ runQ'[0] = Append(runQ[0], msg)
              /\ runQ'[1] = runQ[1]
        BY <2>1, <3>3, ResultGoes DEF Generation
      <4>1. ASSUME NEW i \in 1 .. Len(runQ[0])
            PROVE  i \in 1 .. Len(runQ'[0]) /\ runQ'[0][i] = runQ[0][i]
        BY <4>0
      <4>2. Len(runQ'[0]) \in 1 .. Len(runQ'[0]) /\ runQ'[0][Len(runQ'[0])] = msg
        BY <4>0
      <4>3. ASSUME NEW w \in Unread', w \in Unread, Computing(w)
            PROVE  Computing(w)' \/ w = v
        <5>1. CommitResult(w) => w = v
          BY <3>3, <4>3 DEF CommitResult, MoveRun, Unread, TypeInv, TypeOK, PosixTypeOK
        <5>2. w \in Pids
          BY <4>3 DEF Unread
        <5> QED
          BY <4>3, <5>1, <5>2, ComputingSteps
      <4> QED
        BY <2>1, <3>1, <4>0, <4>1, <4>2, <4>3
    <3> QED
      BY <2>2, <2>4, <3>2, <3>3, ResultSteps
  <2> QED
    BY <2>3, <2>4
<1> QED
  BY <1>1, <1>2 DEF ComingInv

(* The throttle locks only while at least as many runs as the limit are     *)
(* active: there is a result to wait for.                                   *)
LockedInv == throttled_mode => activeTasksCount >= SERVER_PROCESS_LIMIT

LEMMA LockedStep ==
    ASSUME ServedInv, CountedInv, LockedInv, [Next]_vars
    PROVE  LockedInv'
<1> USE ServerAssumption DEF LockedInv, ServerAssumption
<1>0. activeTasksCount \in Int /\ throttled_mode \in BOOLEAN
  BY DEF ServedInv, TypeInv, TypeOK, ServerTypeOK
<1>1. CASE ServerNext
  <2>1. CASE Throttle
    BY <1>0, <2>1 DEF Throttle, ThrottleLock
  <2>2. CASE ReadRunResult
    <3>1. PICK active \in Int : active = activeTasksCount - 1
      BY <1>0
    <3>2. activeTasksCount' = active
      BY <2>2, <3>1 DEF ReadRunResult
    <3>3. throttled_mode' => ~ (active < SERVER_PROCESS_LIMIT)
      BY <2>2, <3>1 DEF ReadRunResult, ThrottleUnlock
    <3> QED
      BY <3>1, <3>2, <3>3
  <2>3. CASE PushGraph
    BY <1>0, <2>3 DEF PushGraph
  <2>4. CASE ReapFailed \/ ReapFatal
    BY <2>4 DEF ReapFailed, ReapFatal, CountedInv
  <2>5. CASE ReapNothing \/ ReapExited
    <3>1. activeTasksCount' = activeTasksCount /\ throttled_mode' = throttled_mode
      BY <2>5 DEF ReapNothing, ReapExited, AfterReap, ActiveAfterReap, reapUnchanged
    <3> QED
      BY <3>1
  <2>6. CASE ~ (Throttle \/ ReadRunResult \/ PushGraph \/ ReapFailed \/ ReapFatal \/ ReapNothing
                \/ ReapExited)
    BY <1>1, <2>6 DEF ServerNext, ServerStep, RegisterTester, NoRunResult, SendAnswer, NoRequest,
       TakeExitRequest, TakeRequest, Spawn, SpawnFails, WaitAfterFailure, BroadcastExit,
       PrintReport, RemoveQueues, Unlink, FinalWait, OnExit, ExitWait, loopVars
  <2> QED
    BY <2>1, <2>2, <2>3, <2>4, <2>5, <2>6
<1>2. CASE UNCHANGED serverVars
  BY <1>2 DEF serverVars, loopVars
<1> QED
  BY <1>1, <1>2 DEF Next, RunNext, CrashNext, TesterNext, Terminating, vars

LEMMA WaitsInit == Init => ComingInv /\ LockedInv
<1> SUFFICES ASSUME Init PROVE ComingInv /\ LockedInv
  OBVIOUS
<1>1. Unread = {}
  BY DEF Init, ServerInit, Unread
<1> QED
  BY <1>1 DEF Init, PosixInit, ServerInit, WorkerInit, ComingInv, LockedInv, Generation

LEMMA WaitsAlways ==
    ASSUME "crash" \notin Faults
    PROVE  Spec => [](ServedInv /\ CountedInv /\ ComingInv /\ LockedInv)
<1>1. ServedInv /\ CountedInv /\ ComingInv /\ LockedInv /\ [Next]_vars =>
        ServedInv' /\ CountedInv' /\ ComingInv' /\ LockedInv'
  BY ServedStep, CountedStep, ComingStep, LockedStep
<1> QED
  BY ServedInit, CountedInit, WaitsInit, <1>1, PTL DEF Spec

(* While no run fails, the blocking read of the throttled mode              *)
(* (validator.c:218, 228) never waits for a result nobody will send.        *)
THEOREM NeverStarves ==
    ASSUME "crash" \notin Faults
    PROVE  Spec => []ThrottleNeverStarves
<1>1. ASSUME ServedInv, CountedInv, ComingInv, LockedInv, ThrottleInv
      PROVE  ThrottleNeverStarves
  <2> SUFFICES ASSUME serverPc = "runs", runBlocking
               PROVE  HasMessage(runQ[0]) \/ \E w \in Pids : Computing(w)
    BY DEF ThrottleNeverStarves
  <2>1. spawned = NULL /\ "run" \notin unlinked
    BY <1>1 DEF ServedInv, AnswerInv, ResetInv, ComingInv, Late
  <2>2. activeTasksCount >= SERVER_PROCESS_LIMIT /\ activeTasksCount \in Int
    BY <1>1 DEF ThrottleInv, LockedInv
  <2>3. Cardinality(Unread) >= 1
    BY <1>1, <2>1, <2>2, ServerAssumption DEF CountedInv, ServerAssumption
  <2>4. Unread # {}
    BY <2>3, FS_EmptySet
  <2>5. PICK w \in Unread : TRUE
    BY <2>4
  <2>6. w \in Pids /\ (Computing(w) \/ \E i \in 1 .. Len(runQ[0]) : runQ[0][i].pid = w)
    BY <1>1, <2>1, <2>5 DEF ComingInv, Unread
  <2>7. ASSUME NEW i \in 1 .. Len(runQ[0]) PROVE runQ[0] # <<>>
    BY <2>7
  <2> QED
    BY <2>6, <2>7 DEF HasMessage
<1>2. ServedInv /\ CountedInv /\ ComingInv /\ LockedInv /\ ThrottleInv => ThrottleNeverStarves
  BY <1>1
<1> QED
  BY WaitsAlways, ThrottleAlways, <1>2, PTL

-----------------------------------------------------------------------------
(* EVERYTHING IS COLLECTED                                                 *)

(* The server ends with no run left, no result goes where nobody reads, and *)
(* with no fault every word received is answered, in work or unread.        *)
DrainedInv ==
    /\ serverPc \in Ending => \A w \in Pids : runSlots[w] = NULL
    /\ runQ[1] = <<>>
    /\ faults = 0 => rcd_count = snt_count + Cardinality(Unread)
                                   + (IF request # NULL THEN 1 ELSE 0)

(* The server leaves its loop only when no run has a session.               *)
LEMMA EndsEmpty ==
    ASSUME ServedInv, CountedInv, [Next]_vars, "pipe" \notin Faults,
           serverPc \notin Ending, serverPc' \in Ending
    PROVE  \A w \in Pids : runSlots'[w] = NULL
<1> USE DEF ServedInv, RouteInv, AnswerInv
<1>1. serverPc' = "broadcast"
  BY EndingBegins
<1>2. ServerNext
  BY DEF Next, RunNext, CrashNext, TesterNext, Terminating, vars, serverVars
<1>3. CASE ReapNothing \/ ReapExited
  <2>1. NothingLeft(activeTasksCount) /\ serverPc = "reap" /\ runSlots' = runSlots
    <3>1. ActiveAfterReap(0) = activeTasksCount /\ ActiveAfterReap(1) = activeTasksCount
      BY DEF ActiveAfterReap
    <3> QED
      BY <1>1, <1>3, <3>1 DEF ReapNothing, ReapExited, AfterReap, reapUnchanged, slotVars
  <2>2. answering = NULL /\ spawned = NULL
    BY <2>1 DEF AnsweringInv, ResetInv
  <2>3. CASE activeTasksCount <= 0
    <3>1. IsFiniteSet(Unread) /\ Cardinality(Unread) \in Nat
      BY UnreadFinite
    <3>2. Cardinality(Unread) = 0
      BY <2>2, <2>3, <3>1 DEF CountedInv, TypeInv, TypeOK, ServerTypeOK
    <3>3. Unread = {}
      BY <3>1, <3>2, FS_EmptySet
    <3> QED
      BY <2>1, <2>2, <3>3 DEF Unread
  <2> QED
    BY <2>1, <2>3 DEF NothingLeft
<1>4. CASE ReapFailed \/ WaitAfterFailure
  BY <1>4 DEF ReapFailed, WaitAfterFailure, CountedInv
<1>5. CASE ~ (ReapNothing \/ ReapExited \/ ReapFailed \/ WaitAfterFailure)
  <2>1. serverPc' # "broadcast" \/ serverPc = "broadcast"
    BY <1>2, <1>5 DEF ServerNext, ServerStep, RegisterTester, Throttle, NoRunResult, ReadRunResult,
       SendAnswer, ReapFatal, NoRequest, TakeExitRequest, TakeRequest, Spawn, SpawnFails, PushGraph,
       BroadcastExit, PrintReport, RemoveQueues, Unlink, FinalWait, OnExit, ExitWait
  <2> QED
    BY <1>1, <2>1 DEF Ending
<1> QED
  BY <1>3, <1>4, <1>5

(* The words the server has received and answered, over a step.             *)
LEMMA ReceivedSteps ==
    ASSUME ServedInv, [Next]_vars, ServerNext, ~ ReadRunResult, ~ Spawn, faults' = 0,
           "pipe" \notin Faults
    PROVE  /\ faults = 0 /\ snt_count' = snt_count
           /\ \/ rcd_count' = rcd_count /\ request' = request
              \/ rcd_count' = rcd_count + 1 /\ request = NULL /\ request' # NULL
<1> USE DEF ServedInv, AnswerInv
<1>0. faults \in Nat
  BY DEF TypeInv, TypeOK, PosixTypeOK
<1>1. CASE TakeRequest
  <2>1. Head(reportQ[0]) # NULL /\ request = NULL
    BY <1>1, RequestOwed, NullAssumption DEF TakeRequest, ResetInv
  <2> QED
    BY <1>1, <2>1 DEF TakeRequest, Fault
<1>2. CASE SpawnFails
  BY <1>0, <1>2 DEF SpawnFails, Fault
<1>3. CASE ~ TakeRequest /\ ~ SpawnFails
  BY <1>3 DEF ServerNext, ServerStep, RegisterTester, Throttle, NoRunResult,
     SendAnswer, ReapNothing, ReapExited, ReapFailed, ReapFatal, reapUnchanged, NoRequest,
     TakeExitRequest, PushGraph, WaitAfterFailure, RemoveQueues, Unlink, BroadcastExit,
     PrintReport, FinalWait, OnExit, ExitWait, countVars, localVars, posixVars
<1> QED
  BY <1>1, <1>2, <1>3

(* Faults add up.                                                           *)
LEMMA FaultSteps ==
    ASSUME [Next]_vars
    PROVE  faults' = faults \/ faults' = faults + 1
<1>1. CASE ServerNext
  BY <1>1 DEF ServerNext, ServerStep, RegisterTester, Throttle, NoRunResult, ReadRunResult,
     SendAnswer, ReapNothing, ReapExited, ReapFailed, ReapFatal, reapUnchanged, NoRequest,
     TakeExitRequest, TakeRequest, Spawn, SpawnFails, Fault, PushGraph, WaitAfterFailure,
     RemoveQueues, Unlink, BroadcastExit, PrintReport, FinalWait, OnExit, ExitWait, posixVars
<1>2. ASSUME NEW w \in Pids, RunNext(w) \/ CrashNext(w)
      PROVE  faults' = faults \/ faults' = faults + 1
  BY <1>2 DEF RunNext, CrashNext, RunStep, OpenQueues, ReadGraph, CommitResult, ExitRun, Crash,
              Fault
<1>3. ASSUME NEW t \in Testers, TesterNext(t) PROVE faults' = faults
  BY <1>3, TesterKeeps
<1> QED
  BY <1>1, <1>2, <1>3 DEF Next, Terminating, vars, posixVars

LEMMA DrainedStep ==
    ASSUME ServedInv, ServedInv', CountedInv, ComingInv, DrainedInv, [Next]_vars,
           "crash" \notin Faults, "pipe" \notin Faults
    PROVE  DrainedInv'
<1> USE DEF ServedInv, RouteInv, AnswerInv
<1>1. serverPc' \in Ending => \A w \in Pids : runSlots'[w] = NULL
  <2>1. CASE serverPc \in Ending
    <3>1. runSlots' = runSlots
      BY <2>1, EndingKept DEF serverVars, slotVars
    <3> QED
      BY <2>1, <3>1 DEF DrainedInv
  <2>2. CASE serverPc \notin Ending
    BY <2>2, EndsEmpty
  <2> QED
    BY <2>1, <2>2
<1>2. runQ'[1] = <<>>
  <2>1. CASE ServerNext /\ ReadRunResult
    <3>1. runQ' = Received(runQ, 0) /\ runQ \in [Generation -> Seq(RunResult)]
      BY <2>1 DEF ReadRunResult, TypeInv, TypeOK, PosixTypeOK
    <3> QED
      BY <3>1 DEF DrainedInv, Received, Generation
  <2>2. ASSUME NEW w \in Pids, CommitResult(w)
        PROVE  runQ'[1] = <<>>
    <3>1. Computing(w)
      BY <2>2, ResultGoes
    <3>2. serverPc \notin Ending
      BY <3>1 DEF DrainedInv, RunInv
    <3>3. workerRunQ[w] = 0
      BY <3>2 DEF ComingInv, Late, Ending
    <3> QED
      BY <2>2, <3>3, ResultGoes DEF DrainedInv, Generation
  <2> QED
    BY <2>1, <2>2, ResultSteps DEF DrainedInv
<1>3. ASSUME faults' = 0
      PROVE  rcd_count' = snt_count' + Cardinality(Unread') + (IF request' # NULL THEN 1 ELSE 0)
  <2>0. /\ IsFiniteSet(Unread) /\ Cardinality(Unread) \in Nat
        /\ rcd_count \in Nat /\ snt_count \in Nat
    BY UnreadFinite DEF TypeInv, TypeOK, ServerTypeOK
  <2>1. CASE ServerNext /\ ReadRunResult
    <3>1. PICK w \in Unread : Unread' = Unread \ {w} /\ snt_count' = snt_count + 1
      BY <2>1, ReadTakes
    <3>2. Cardinality(Unread') = Cardinality(Unread) - 1
      BY <2>0, <3>1, FS_RemoveElement
    <3>3. UNCHANGED <<rcd_count, request, faults>>
      BY <2>1 DEF ReadRunResult
    <3> QED
      BY <1>3, <2>0, <3>1, <3>2, <3>3 DEF DrainedInv
  <2>2. CASE ServerNext /\ Spawn
    <3>1. PICK w \in Pids \ Unread :
            Unread' = Unread \cup {w} /\ request # NULL /\ request' = NULL
      BY <2>2, SpawnAdds
    <3>2. Cardinality(Unread') = Cardinality(Unread) + 1
      BY <2>0, <3>1, FS_AddElement
    <3>3. UNCHANGED <<rcd_count, snt_count, faults>>
      BY <2>2 DEF Spawn, countVars
    <3> QED
      BY <1>3, <2>0, <3>1, <3>2, <3>3 DEF DrainedInv
  <2>3. CASE ServerNext /\ ~ ReadRunResult /\ ~ Spawn /\ Unread' = Unread
    BY <1>3, <2>0, <2>3, ReceivedSteps DEF DrainedInv
  <2>4. CASE UNCHANGED serverVars /\ Unread' = Unread
    <3>1. UNCHANGED <<rcd_count, snt_count, request>>
      BY <2>4 DEF serverVars, countVars, localVars
    <3>2. faults = 0
      <4>1. faults \in Nat /\ (faults' = faults \/ faults' = faults + 1)
        <5>1. faults \in Nat
          BY DEF TypeInv, TypeOK, PosixTypeOK
        <5> QED
          BY <5>1, FaultSteps
      <4> QED
        BY <1>3, <4>1
    <3> QED
      BY <2>4, <3>1, <3>2 DEF DrainedInv
  <2> QED
    BY <2>1, <2>2, <2>3, <2>4, UnreadSteps
<1> QED
  BY <1>1, <1>2, <1>3 DEF DrainedInv

LEMMA DrainedInit == Init => DrainedInv
<1> SUFFICES ASSUME Init PROVE DrainedInv
  OBVIOUS
<1>1. Unread = {}
  BY DEF Init, ServerInit, Unread
<1>2. Cardinality(Unread) = 0
  BY <1>1, FS_EmptySet
<1> QED
  BY <1>2 DEF Init, PosixInit, ServerInit, DrainedInv, Generation

(* While neither a run nor pipe() fails, the server that was told to stop   *)
(* has collected every result of the words it accepted and has answered     *)
(* them before it says "exit" to anybody (validator.c:352-370).             *)
THEOREM AllCollected ==
    ASSUME "crash" \notin Faults, "pipe" \notin Faults
    PROVE  Spec => []CollectsAll
<1>1. ServedInv /\ CountedInv /\ ComingInv /\ DrainedInv /\ [Next]_vars =>
        ServedInv' /\ DrainedInv'
  <2>1. ServedInv /\ [Next]_vars => ServedInv'
    BY ServedStep
  <2> QED
    BY <2>1, DrainedStep
<1>2. ASSUME ServedInv, DrainedInv PROVE CollectsAll
  <2> SUFFICES ASSUME serverPc \in Ending
               PROVE  /\ \A w \in Pids : runSlots[w] = NULL
                      /\ \A g \in Generation : runQ[g] = <<>>
                      /\ faults = 0 => snt_count = rcd_count
    BY DEF CollectsAll
  <2> USE <1>2 DEF ServedInv
  <2>1. \A w \in Pids : runSlots[w] = NULL
    BY DEF DrainedInv
  <2>2. runQ[0] = <<>>
    <3>1. runQ[0] \in Seq(RunResult) /\ \A i \in 1 .. Len(runQ[0]) : runQ[0][i].pid \in Pids
      BY ResultTyped
    <3>2. runQ[0] # <<>> => 1 \in 1 .. Len(runQ[0])
      BY <3>1, TailShift
    <3> QED
      BY <2>1, <3>1, <3>2 DEF RouteInv, QueueInv
  <2>3. faults = 0 => snt_count = rcd_count
    <3>1. Unread = {}
      BY <2>1 DEF Unread
    <3>2. Cardinality(Unread) = 0
      BY <3>1, FS_EmptySet
    <3>3. request = NULL
      BY DEF AnswerInv, ResetInv, Ending
    <3> QED
      BY <3>2, <3>3 DEF DrainedInv, TypeInv, TypeOK, ServerTypeOK
  <2> QED
    BY <2>1, <2>2, <2>3 DEF DrainedInv, Generation
<1>3. ServedInv /\ DrainedInv => CollectsAll
  BY <1>2
<1> QED
  BY WaitsAlways, DrainedInit, <1>1, <1>3, PTL DEF Spec

-----------------------------------------------------------------------------
(* THE REPORT                                                              *)

(* The words of the sessions are summed over finite sets, by induction on   *)
(* their size.                                                              *)
LEMMA LeastNat ==
    ASSUME NEW S \in SUBSET Nat, S # {}
    PROVE  \E n \in S : \A m \in S : n <= m
<1>1. IsWellFoundedOn(OpToRel(<, Nat), Nat)
  BY NatLessThanWellFounded
<1>2. PICK n \in S : \A m \in S : ~ (<<m, n>> \in OpToRel(<, Nat))
  BY <1>1, WFMin
<1>3. ASSUME NEW m \in S PROVE n <= m
  <2>1. ~ (m < n)
    BY <1>2 DEF OpToRel
  <2> QED
    BY <2>1
<1> QED
  BY <1>3

(* A set that holds 0 and every successor of a member holds each number.    *)
LEMMA NatInductive ==
    ASSUME NEW S, 0 \in S, \A n \in Nat : n \in S => n + 1 \in S
    PROVE  Nat \subseteq S
<1> SUFFICES ASSUME Nat \ S # {} PROVE FALSE
  OBVIOUS
<1>1. PICK n \in Nat \ S : \A m \in Nat \ S : n <= m
  BY LeastNat
<1>2. n # 0 /\ n - 1 \in Nat
  BY <1>1
<1>3. n - 1 \in S
  BY <1>1, <1>2
<1> QED
  BY <1>2, <1>3, n - 1 + 1 = n

(* The words of the sessions of S add up to n: g adds up those of each set  *)
(* of sessions.                                                             *)
AddUp(S, f, n) ==
    \E g \in [SUBSET S -> Nat] :
        /\ g[{}] = 0
        /\ \A s \in SUBSET S : \A t \in s : g[s] = f[t] + g[s \ {t}]
        /\ g[S] = n

(* No session, no word.                                                    *)
LEMMA AddUpNone == ASSUME NEW f PROVE AddUp({}, f, 0)
<1> DEFINE g == [s \in SUBSET {} |-> 0]
<1>1. g \in [SUBSET {} -> Nat] /\ g[{}] = 0
  OBVIOUS
<1> QED
  BY <1>1 DEF AddUp

(* One more session, with no word yet.                                      *)
LEMMA AddUpOpened ==
    ASSUME NEW S, NEW f, NEW h, NEW n, AddUp(S, f, n), NEW u, u \notin S,
           \A t \in S : h[t] = f[t], h[u] = 0
    PROVE  AddUp(S \cup {u}, h, n)
<1>1. PICK g \in [SUBSET S -> Nat] :
        /\ g[{}] = 0 /\ g[S] = n
        /\ \A s \in SUBSET S : \A t \in s : g[s] = f[t] + g[s \ {t}]
  BY DEF AddUp
<1> DEFINE T == S \cup {u}
           k == [s \in SUBSET T |-> g[s \ {u}]]
<1>2. k \in [SUBSET T -> Nat]
  BY <1>1
<1>3. k[{}] = 0 /\ k[T] = n
  <2>1. {} \ {u} = {} /\ T \ {u} = S
    OBVIOUS
  <2> QED
    BY <1>1, <2>1
<1>4. ASSUME NEW s \in SUBSET T, NEW t \in s PROVE k[s] = h[t] + k[s \ {t}]
  <2>1. s \ {u} \in SUBSET S /\ (s \ {t}) \ {u} = (s \ {u}) \ {t} /\ s \ {t} \in SUBSET T
    OBVIOUS
  <2>2. k[s] = g[s \ {u}] /\ k[s \ {t}] = g[(s \ {u}) \ {t}]
    BY <2>1
  <2>3. CASE t = u
    <3>1. (s \ {u}) \ {t} = s \ {u}
      BY <2>3
    <3> QED
      <4>1. g[s \ {u}] \in Nat
        BY <1>1, <2>1
      <4>2. k[s] = k[s \ {t}] /\ k[s] = g[s \ {u}] /\ h[t] = 0
        BY <2>2, <2>3, <3>1
      <4> HIDE DEF k
      <4> QED
        BY <4>1, <4>2
  <2>4. CASE t # u
    <3>1. t \in s \ {u} /\ t \in S
      BY <2>4
    <3> QED
      BY <1>1, <2>1, <2>2, <3>1
  <2> QED
    BY <2>3, <2>4
<1> QED
  BY <1>2, <1>3, <1>4 DEF AddUp

(* One session counts k words more.                                         *)
LEMMA AddUpCounted ==
    ASSUME NEW S, NEW f \in [S -> Nat], NEW h, NEW n, AddUp(S, f, n), NEW u \in S, NEW k \in Nat,
           \A t \in S \ {u} : h[t] = f[t], h[u] = f[u] + k
    PROVE  AddUp(S, h, n + k)
<1>1. PICK g \in [SUBSET S -> Nat] :
        /\ g[{}] = 0 /\ g[S] = n
        /\ \A s \in SUBSET S : \A t \in s : g[s] = f[t] + g[s \ {t}]
  BY DEF AddUp
<1> DEFINE r == [s \in SUBSET S |-> IF u \in s THEN g[s] + k ELSE g[s]]
<1>2. r \in [SUBSET S -> Nat] /\ r[{}] = 0 /\ r[S] = n + k
  BY <1>1
<1>3. ASSUME NEW s \in SUBSET S, NEW t \in s PROVE r[s] = h[t] + r[s \ {t}]
  <2>1. t \in S /\ s \ {t} \in SUBSET S /\ g[s] = f[t] + g[s \ {t}]
        /\ f[t] \in Nat /\ g[s \ {t}] \in Nat /\ g[s] \in Nat
    BY <1>1
  <2>2. CASE t = u
    <3>1. r[s] = g[s] + k /\ r[s \ {t}] = g[s \ {t}]
      BY <2>1, <2>2
    <3> QED
      BY <2>1, <2>2, <3>1
  <2>3. CASE t # u /\ u \in s
    <3>1. r[s] = g[s] + k /\ r[s \ {t}] = g[s \ {t}] + k
      BY <2>1, <2>3
    <3> QED
      BY <2>1, <2>3, <3>1
  <2>4. CASE u \notin s
    <3>1. r[s] = g[s] /\ r[s \ {t}] = g[s \ {t}] /\ t # u
      BY <2>1, <2>4
    <3> QED
      BY <2>1, <3>1
  <2> QED
    BY <2>2, <2>3, <2>4
<1> QED
  BY <1>2, <1>3 DEF AddUp

(* Only the words of the sessions matter.                                   *)
LEMMA AddUpSame ==
    ASSUME NEW S, NEW f, NEW h, NEW n, AddUp(S, f, n), \A t \in S : h[t] = f[t]
    PROVE  AddUp(S, h, n)
  BY DEF AddUp

(* The sum the model computes is the only one.                              *)
LEMMA SumAddsUp ==
    ASSUME IsFiniteSet(Sessions), NEW h, \A t \in Sessions : h[t] = testerSlots[t].acc_count,
           AddUp(Sessions, h, acc_count)
    PROVE  AcceptedAddUp
<1> DEFINE S == Sessions
<1>1. PICK g \in [SUBSET S -> Nat] :
        /\ g[{}] = 0 /\ g[S] = acc_count
        /\ \A s \in SUBSET S : \A t \in s : g[s] = h[t] + g[s \ {t}]
  BY DEF AddUp
<1> DEFINE first(s) == CHOOSE x \in s : TRUE
           Iter(i) == i = [s \in SUBSET S |->
                             IF s = {} THEN 0
                             ELSE testerSlots[first(s)].acc_count + i[s \ {first(s)}]]
           i == CHOOSE j : Iter(j)
<1>2. \A s \in SUBSET S : s # {} => first(s) \in s
  OBVIOUS
<1>4. AcceptedAddUp <=> acc_count = i[S]
  BY Zenon DEF AcceptedAddUp, MapThenSumSet, MapThenFoldSet
<1> HIDE DEF S, first
<1>3. Iter(g)
  <2>1. ASSUME NEW s \in SUBSET S, s # {}
        PROVE  g[s] = testerSlots[first(s)].acc_count + g[s \ {first(s)}]
    BY <1>1, <1>2, <2>1 DEF S
  <2> QED
    BY <1>1, <2>1
<1>5. Iter(i)
  BY <1>3
<1> HIDE DEF i, Iter
<1> DEFINE P == {n \in Nat : \A s \in SUBSET S : Cardinality(s) = n => i[s] = g[s]}
<1>6. 0 \in P
  <2>1. ASSUME NEW s \in SUBSET S, Cardinality(s) = 0 PROVE i[s] = g[s]
    <3>1. s = {}
      BY <2>1, FS_Subset, FS_EmptySet DEF S
    <3> QED
      BY <1>1, <1>5, <3>1 DEF Iter
  <2> QED
    BY <2>1
<1>7. ASSUME NEW n \in Nat, n \in P PROVE n + 1 \in P
  <2>1. ASSUME NEW s \in SUBSET S, Cardinality(s) = n + 1 PROVE i[s] = g[s]
    <3>1. IsFiniteSet(s)
      BY <2>1, FS_Subset DEF S
    <3>2. s # {}
      <4>1. Cardinality({}) = 0 /\ n + 1 # 0
        BY FS_EmptySet
      <4> QED
        BY <2>1, <4>1
    <3>3. PICK x \in s : x = first(s)
      BY <1>2, <3>2
    <3>4. Cardinality(s \ {x}) = n /\ s \ {x} \in SUBSET S
      <4>1. Cardinality(s \ {x}) = Cardinality(s) - 1
        BY <3>1, <3>3, FS_RemoveElement
      <4> QED
        BY <2>1, <4>1
    <3>5. i[s \ {x}] = g[s \ {x}]
      BY <1>7, <3>4
    <3>6. i[s] = testerSlots[x].acc_count + i[s \ {x}]
      BY <1>5, <3>2, <3>3 DEF Iter
    <3>7. g[s] = testerSlots[x].acc_count + g[s \ {x}]
      BY <1>3, <3>2, <3>3 DEF Iter
    <3> QED
      BY <3>5, <3>6, <3>7
  <2> QED
    BY <2>1
<1>8. Nat \subseteq P
  <2> HIDE DEF P
  <2> QED
    BY <1>6, <1>7, NatInductive
<1>9. Cardinality(S) \in Nat /\ S \in SUBSET S
  BY FS_CardinalityType DEF S
<1>10. i[S] = g[S]
  BY <1>8, <1>9
<1> QED
  BY <1>1, <1>4, <1>10

(* What a step does to the words accepted: a request or a registration      *)
(* opens a session with none, and a result adds as many to the session of   *)
(* its tester as to the total.                                              *)
SlotsOpen(u) ==
    /\ acc_count' = acc_count
    /\ testerSlots'[u].acc_count = IF testerSlots[u] = NULL THEN 0
                                   ELSE testerSlots[u].acc_count

SlotsCount(u) ==
    \E n \in Nat :
        /\ testerSlots[u] # NULL
        /\ acc_count' = acc_count + n
        /\ testerSlots'[u].acc_count = testerSlots[u].acc_count + n

LEMMA SlotsSteps ==
    ASSUME ReadInv, RegisterInv, LateInv, [Next]_vars
    PROVE  \/ UNCHANGED <<testerSlots, acc_count>>
           \/ \E u \in Testers :
                /\ \A t \in Testers \ {u} : testerSlots'[t] = testerSlots[t]
                /\ testerSlots'[u] # NULL
                /\ SlotsOpen(u) \/ SlotsCount(u)
<1> USE DEF ReadInv, ServedInv
<1>0. /\ testerSlots \in [Testers -> TesterSlot \cup {NULL}] /\ acc_count \in Nat
      /\ \A t \in Testers : testerSlots[t] # NULL => testerSlots[t].acc_count \in Nat
  BY DEF TypeInv, TypeOK, ServerTypeOK, TesterSlot
<1>1. CASE UNCHANGED <<testerSlots, acc_count>>
  BY <1>1
<1>2. CASE ~ UNCHANGED <<testerSlots, acc_count>>
  <2>1. ServerNext /\ (RegisterTester \/ TakeRequest \/ ReadRunResult)
    <3>1. ServerNext
      BY <1>2 DEF Next, RunNext, CrashNext, TesterNext, Terminating, vars, serverVars, slotVars,
         countVars
    <3> QED
      BY <1>2, <3>1 DEF ServerNext, ServerStep, Throttle, NoRunResult, SendAnswer, ReapNothing,
         ReapExited, ReapFailed, ReapFatal, reapUnchanged, NoRequest, TakeExitRequest, Spawn,
         SpawnFails, PushGraph, WaitAfterFailure, BroadcastExit, PrintReport, RemoveQueues,
         Unlink, FinalWait, OnExit, ExitWait, slotVars, countVars
  <2>2. CASE RegisterTester
    <3>1. /\ acc_count' = acc_count /\ serverPc = "register" /\ registerQ[0] # <<>>
          /\ testerSlots' = [testerSlots EXCEPT ![Head(registerQ[0])] =
                               NewSession(Head(registerQ[0]))]
      BY <2>2 DEF RegisterTester, HasMessage, countVars
    <3>2. registerQ[0] \in Seq(Testers)
      BY RegisterSteps
    <3>3. PICK u \in Testers : u = Head(registerQ[0])
      BY <3>1, <3>2
    <3>4. Queued(u)
      <4>1. 1 \in 1 .. Len(registerQ[0]) /\ registerQ[0][1] = u
        BY <3>1, <3>2, <3>3, TailShift
      <4> QED
        BY <4>1 DEF Queued
    <3>5. testerSlots[u] # NULL => testerSlots[u].acc_count = 0
      BY <3>1, <3>4 DEF LateInv, Ending
    <3>6. /\ testerSlots'[u] = NewSession(u)
          /\ \A t \in Testers \ {u} : testerSlots'[t] = testerSlots[t]
      BY <1>0, <3>1, <3>3
    <3>7. NewSession(u) # NULL /\ NewSession(u).acc_count = 0
      BY NewSessionType, NullAssumption DEF NewSession
    <3> QED
      BY <3>1, <3>5, <3>6, <3>7 DEF SlotsOpen
  <2>3. CASE TakeRequest
    <3>1. PICK u \in Testers : u = Head(reportQ[0]).tester
      BY <2>3, RequestOwed
    <3>2. PICK session : session = IF testerSlots[u] = NULL THEN NewSession(u) ELSE testerSlots[u]
      OBVIOUS
    <3>3. /\ acc_count' = acc_count
          /\ testerSlots' = [testerSlots EXCEPT ![u] =
                               [session EXCEPT !.rcd_count = session.rcd_count + 1]]
      BY <2>3, <3>1, <3>2 DEF TakeRequest
    <3>4. testerSlots'[u] = [session EXCEPT !.rcd_count = session.rcd_count + 1]
      BY <1>0, <3>3
    <3>5. \A t \in Testers \ {u} : testerSlots'[t] = testerSlots[t]
      BY <1>0, <3>3
    <3>6. session \in TesterSlot
      BY <1>0, <3>2, NewSessionType
    <3>7. testerSlots'[u] # NULL
      <4>1. [session EXCEPT !.rcd_count = session.rcd_count + 1] \in TesterSlot
        BY <3>6, CountedSlot
      <4> QED
        BY <3>4, <4>1, NullAssumption
    <3>8. testerSlots'[u].acc_count = session.acc_count
      BY <3>4, <3>6 DEF TesterSlot
    <3>9. NewSession(u).acc_count = 0
      BY DEF NewSession
    <3> QED
      BY <3>2, <3>3, <3>5, <3>7, <3>8, <3>9 DEF SlotsOpen
  <2>4. CASE ReadRunResult
    <3>1. PICK n \in Nat : n = IF Head(runQ[0]).result THEN 1 ELSE 0
      OBVIOUS
    <3>2. runSlots[Head(runQ[0]).pid] # NULL
      BY <1>2, <2>4 DEF ReadRunResult
    <3>3. /\ acc_count' = acc_count + n
          /\ \E u \in MatchSession(runSlots[Head(runQ[0]).pid]) :
               testerSlots' = [testerSlots EXCEPT ![u].acc_count = testerSlots[u].acc_count + n]
      BY <2>4, <3>1, <3>2 DEF ReadRunResult
    <3>4. PICK u \in Sessions :
            testerSlots' = [testerSlots EXCEPT ![u].acc_count = testerSlots[u].acc_count + n]
      BY <3>3 DEF MatchSession
    <3>5. u \in Testers /\ testerSlots[u] \in TesterSlot /\ testerSlots[u] # NULL
      BY <1>0, <3>4 DEF Sessions
    <3>6. /\ testerSlots'[u] = [testerSlots[u] EXCEPT !.acc_count = testerSlots[u].acc_count + n]
          /\ \A t \in Testers \ {u} : testerSlots'[t] = testerSlots[t]
      BY <1>0, <3>4, <3>5
    <3>7. testerSlots'[u] # NULL
      <4>1. testerSlots'[u] \in TesterSlot
        BY <3>5, <3>6, CountedSlot
      <4> QED
        BY <4>1, NullAssumption
    <3>8. testerSlots'[u].acc_count = testerSlots[u].acc_count + n
      BY <3>5, <3>6 DEF TesterSlot
    <3> QED
      BY <3>3, <3>5, <3>6, <3>7, <3>8 DEF SlotsCount
  <2> QED
    BY <2>1, <2>2, <2>3, <2>4
<1> QED
  BY <1>1, <1>2

(* What is inductive: the sessions are finitely many, and add up.           *)
SumInv ==
    /\ IsFiniteSet(Sessions)
    /\ AddUp(Sessions, [t \in Sessions |-> testerSlots[t].acc_count], acc_count)

LEMMA SumStep ==
    ASSUME ReadInv, RegisterInv, LateInv, SumInv, [Next]_vars
    PROVE  SumInv'
<1>0. /\ testerSlots \in [Testers -> TesterSlot \cup {NULL}] /\ acc_count \in Nat
      /\ \A t \in Testers : testerSlots[t] # NULL => testerSlots[t].acc_count \in Nat
  BY DEF ReadInv, ServedInv, TypeInv, TypeOK, ServerTypeOK, TesterSlot
<1>1. PICK S, f : S = Sessions /\ f = [t \in Sessions |-> testerSlots[t].acc_count]
  OBVIOUS
<1>2. PICK R, h : R = Sessions' /\ h = [t \in Sessions' |-> testerSlots'[t].acc_count]
  OBVIOUS
<1>3. /\ S = {t \in Testers : testerSlots[t] # NULL} /\ R = {t \in Testers : testerSlots'[t] # NULL}
      /\ f \in [S -> Nat]
      /\ \A t \in R : h[t] = testerSlots'[t].acc_count
      /\ \A t \in S : f[t] = testerSlots[t].acc_count
  BY <1>0, <1>1, <1>2 DEF Sessions
<1>4. IsFiniteSet(S) /\ AddUp(S, f, acc_count)
  BY <1>1 DEF SumInv
<1>5. CASE UNCHANGED <<testerSlots, acc_count>>
  <2>1. R = S /\ (\A t \in S : h[t] = f[t]) /\ acc_count' = acc_count
    BY <1>3, <1>5
  <2>2. AddUp(R, h, acc_count')
    BY <1>4, <2>1, AddUpSame
  <2> QED
    BY <1>2, <1>4, <2>1, <2>2 DEF SumInv
<1>6. ASSUME NEW u \in Testers, \A t \in Testers \ {u} : testerSlots'[t] = testerSlots[t],
             testerSlots'[u] # NULL, SlotsOpen(u) \/ SlotsCount(u)
      PROVE  IsFiniteSet(R) /\ AddUp(R, h, acc_count')
  <2>1. R = S \cup {u} /\ \A t \in S \ {u} : h[t] = f[t]
    BY <1>3, <1>6
  <2>2. IsFiniteSet(R)
    BY <1>4, <2>1, FS_AddElement
  <2>3. CASE u \notin S
    <3>1. acc_count' = acc_count /\ h[u] = 0
      BY <1>3, <1>6, <2>1, <2>3 DEF SlotsOpen, SlotsCount
    <3>2. AddUp(S \cup {u}, h, acc_count)
      BY <1>4, <2>1, <2>3, <3>1, AddUpOpened
    <3> QED
      BY <2>1, <2>2, <3>1, <3>2
  <2>4. CASE u \in S
    <3>1. PICK n \in Nat : acc_count' = acc_count + n /\ h[u] = f[u] + n
      <4>1. CASE SlotsOpen(u)
        <5>1. acc_count' = acc_count + 0 /\ h[u] = f[u] + 0
          BY <1>0, <1>3, <2>1, <2>4, <4>1 DEF SlotsOpen
        <5> QED
          BY <5>1
      <4>2. CASE SlotsCount(u)
        BY <1>3, <2>1, <2>4, <4>2 DEF SlotsCount
      <4> QED
        BY <1>6, <4>1, <4>2
    <3>2. AddUp(S, h, acc_count + n)
      BY <1>3, <1>4, <2>1, <2>4, <3>1, AddUpCounted
    <3>3. R = S
      BY <2>1, <2>4
    <3> QED
      BY <2>2, <3>1, <3>2, <3>3
  <2> QED
    BY <2>3, <2>4
<1>7. CASE ~ UNCHANGED <<testerSlots, acc_count>>
  <2>1. IsFiniteSet(R) /\ AddUp(R, h, acc_count')
    BY <1>6, <1>7, SlotsSteps
  <2> QED
    BY <1>2, <2>1 DEF SumInv
<1> QED
  BY <1>5, <1>7

LEMMA SumInit == Init => SumInv
<1> SUFFICES ASSUME Init PROVE SumInv
  OBVIOUS
<1>1. Sessions = {} /\ acc_count = 0
  BY DEF Init, ServerInit, Sessions
<1> QED
  BY <1>1, AddUpNone, FS_EmptySet DEF SumInv

(* The words the server says it accepted are those of its sessions          *)
(* (validator.c:283-287, 534, 544): a registration that comes late replaces *)
(* no session that counts a word, and a result counts for one.              *)
THEOREM AcceptedTotal == Spec => []AcceptedAddUp
<1>1. ReadInv /\ RegisterInv /\ LateInv /\ [Next]_vars => RegisterInv' /\ LateInv'
  BY RegisterStep, LateStep
<1>2. ReadInv /\ RegisterInv /\ LateInv /\ SumInv /\ [Next]_vars => SumInv'
  BY SumStep
<1>3. SumInv => AcceptedAddUp
  <2> SUFFICES ASSUME SumInv PROVE AcceptedAddUp
    OBVIOUS
  <2>1. PICK h : h = [t \in Sessions |-> testerSlots[t].acc_count]
    OBVIOUS
  <2>2. IsFiniteSet(Sessions) /\ AddUp(Sessions, h, acc_count)
    BY <2>1 DEF SumInv
  <2>3. \A t \in Sessions : h[t] = testerSlots[t].acc_count
    BY <2>1
  <2> QED
    BY <2>2, <2>3, SumAddsUp
<1> QED
  BY ReadInit, ReadStep, LateInit, SumInit, <1>1, <1>2, <1>3, PTL DEF Spec

-----------------------------------------------------------------------------
(***************************************************************************)
(* The processes and queues implement the service of module Service, step  *)
(* by step, while neither a run nor pipe() fails: for every value of the    *)
(* constants the initial states map to initial states and every step to a   *)
(* step of the service or to none.                                          *)
(***************************************************************************)

(* The reply an answer stands for, and the request a run was forked for.    *)
ReplyOf(t, msg) == [tester |-> t, loc_id |-> msg.loc_id, result |-> msg.result]

RequestOfRun(w) == [tester |-> runSlots[w].tester, loc_id |-> runSlots[w].loc_id,
                    word |-> runWord[w]]

(* The messages in a queue, of both generations.                            *)
Content(queues) == UNION {ToSet(queues[g]) : g \in Generation}

-----------------------------------------------------------------------------
(* THE MAPPING, ELEMENT BY ELEMENT                                         *)

LEMMA WaitingIs ==
    /\ \A r : r \in Waiting <=>
         \E m \in Content(reportQ) : m.type = "parse" /\ r = RequestOf(m)
    /\ \A r : r \in Waiting' <=>
         \E m \in Content(reportQ') : m.type = "parse" /\ r = RequestOf(m)
  BY DEF Waiting, Content, Generation, RequestOf

LEMMA WorkingIs ==
    /\ \A r : r \in Working <=>
         \/ \E w \in Pids : runSlots[w] # NULL /\ r = RequestOfRun(w)
         \/ request # NULL /\ r = RequestOf(request)
    /\ \A r : r \in Working' <=>
         \/ \E w \in Pids : runSlots'[w] # NULL /\ r = RequestOfRun(w)'
         \/ request' # NULL /\ r = RequestOf(request')
  BY DEF Working, RequestOf, RequestOfRun

LEMMA RepliesIs ==
    /\ \A p : p \in Replies <=>
         \E t \in Testers : \E m \in Content(testerQ[t]) :
            m.type = "answer" /\ p = ReplyOf(t, m)
    /\ \A p : p \in Replies' <=>
         \E t \in Testers : \E m \in Content(testerQ'[t]) :
            m.type = "answer" /\ p = ReplyOf(t, m)
  BY DEF Replies, Content, Generation, ReplyOf

(* What a step leaves alone.                                                *)
LEMMA WaitingSame == ASSUME UNCHANGED reportQ PROVE Waiting' = Waiting
  BY DEF Waiting, RequestOf

LEMMA WorkingSame ==
    ASSUME UNCHANGED <<runSlots, runWord, request>> PROVE Working' = Working
  BY DEF Working, RequestOf

LEMMA RepliesSame == ASSUME UNCHANGED testerQ PROVE Replies' = Replies
  BY DEF Replies

LEMMA TalliesSame ==
    ASSUME UNCHANGED <<req_count, ans_count, accepted_count>> PROVE Tallies' = Tallies
  BY DEF Tallies

LEMMA PhaseSame ==
    ASSUME UNCHANGED shouldTerminate, (serverPc' \in Ending) <=> (serverPc \in Ending)
    PROVE  Phase' = Phase
  BY DEF Phase

(* The queue a message is appended to, or whose head is taken, by content.  *)
LEMMA SentContent ==
    ASSUME NEW M, NEW queues \in [Generation -> Seq(M)], NEW gen \in Generation, NEW msg \in M
    PROVE  Content(Sent(queues, gen, msg)) = Content(queues) \cup {msg}
<1>1. /\ Sent(queues, gen, msg)[gen] = Append(queues[gen], msg)
      /\ \A g \in Generation \ {gen} : Sent(queues, gen, msg)[g] = queues[g]
  BY DEF Sent
<1>2. ToSet(Append(queues[gen], msg)) = ToSet(queues[gen]) \cup {msg}
  <2>1. PICK n \in Nat : n = Len(queues[gen])
    OBVIOUS
  <2>2. /\ Len(Append(queues[gen], msg)) = n + 1
        /\ Append(queues[gen], msg)[n + 1] = msg
        /\ \A i \in 1 .. n : Append(queues[gen], msg)[i] = queues[gen][i]
    BY <2>1
  <2>3. /\ n + 1 \in 1 .. (n + 1)
        /\ \A i \in 1 .. (n + 1) : i \in 1 .. n \/ i = n + 1
        /\ \A i \in 1 .. n : i \in 1 .. (n + 1)
    OBVIOUS
  <2> QED
    BY <2>1, <2>2, <2>3 DEF ToSet
<1> QED
  BY <1>1, <1>2 DEF Content

LEMMA SetOf ==
    ASSUME NEW S, NEW s \in Seq(S)
    PROVE  \A m : m \in ToSet(s) <=> \E i \in 1 .. Len(s) : s[i] = m
<1>1. DOMAIN s = 1 .. Len(s)
  OBVIOUS
<1> QED
  BY <1>1, Zenon DEF ToSet

LEMMA HeadAndTail ==
    ASSUME NEW S, NEW s \in Seq(S), s # <<>>
    PROVE  ToSet(s) = ToSet(Tail(s)) \cup {Head(s)}
<1>1. Tail(s) \in Seq(S)
  OBVIOUS
<1>2. PICK n \in Nat : /\ n = Len(s) /\ n >= 1 /\ Len(Tail(s)) = n - 1 /\ Head(s) = s[1]
                       /\ \A i \in 1 .. (n - 1) : Tail(s)[i] = s[i + 1]
  BY TailShift
<1>3. ASSUME NEW m
      PROVE  (\E i \in 1 .. n : s[i] = m) <=>
               ((\E i \in 1 .. (n - 1) : Tail(s)[i] = m) \/ m = Head(s))
  <2>1. ASSUME NEW i \in 1 .. n, i # 1
        PROVE  i - 1 \in 1 .. (n - 1) /\ Tail(s)[i - 1] = s[i]
    <3>1. i - 1 \in 1 .. (n - 1) /\ (i - 1) + 1 = i
      BY <1>2, <2>1
    <3> QED
      BY <1>2, <3>1
  <2>2. \A i \in 1 .. (n - 1) : i + 1 \in 1 .. n
    BY <1>2
  <2>3. 1 \in 1 .. n
    BY <1>2
  <2>4. ASSUME NEW i \in 1 .. n, s[i] = m, m # Head(s)
        PROVE  \E k \in 1 .. (n - 1) : Tail(s)[k] = m
    <3>1. i # 1
      BY <1>2, <2>4
    <3> QED
      BY <2>1, <2>4, <3>1
  <2>5. ASSUME NEW i \in 1 .. (n - 1), Tail(s)[i] = m
        PROVE  \E k \in 1 .. n : s[k] = m
    BY <1>2, <2>2, <2>5
  <2>6. ASSUME m = Head(s) PROVE \E k \in 1 .. n : s[k] = m
    BY <1>2, <2>3, <2>6
  <2>7. ASSUME \E i \in 1 .. n : s[i] = m, m # Head(s)
        PROVE  \E i \in 1 .. (n - 1) : Tail(s)[i] = m
    <3>1. PICK i \in 1 .. n : s[i] = m
      BY <2>7
    <3> QED
      BY <2>4, <2>7, <3>1
  <2>8. ASSUME \E i \in 1 .. (n - 1) : Tail(s)[i] = m
        PROVE  \E i \in 1 .. n : s[i] = m
    <3>1. PICK i \in 1 .. (n - 1) : Tail(s)[i] = m
      BY <2>8
    <3> QED
      BY <2>5, <3>1
  <2> QED
    BY <2>6, <2>7, <2>8
<1>4. ASSUME NEW m PROVE m \in ToSet(s) <=> (m \in ToSet(Tail(s)) \/ m = Head(s))
  <2>1. m \in ToSet(s) <=> \E i \in 1 .. n : s[i] = m
    BY <1>2, SetOf
  <2>2. m \in ToSet(Tail(s)) <=> \E i \in 1 .. (n - 1) : Tail(s)[i] = m
    <3>1. PICK t \in Seq(S) : t = Tail(s)
      BY <1>1
    <3>2. m \in ToSet(t) <=> \E i \in 1 .. Len(t) : t[i] = m
      BY SetOf
    <3>3. Len(t) = n - 1
      BY <1>2, <3>1
    <3> QED
      BY <3>1, <3>2, <3>3
  <2> QED
    BY <1>3, <2>1, <2>2
<1> QED
  BY <1>4

LEMMA ReceivedContent ==
    ASSUME NEW M, NEW queues \in [Generation -> Seq(M)], NEW gen \in Generation,
           HasMessage(queues[gen])
    PROVE  Content(queues) = Content(Received(queues, gen)) \cup {Head(queues[gen])}
<1>1. /\ Received(queues, gen)[gen] = Tail(queues[gen])
      /\ \A g \in Generation \ {gen} : Received(queues, gen)[g] = queues[g]
  BY DEF Received
<1>2. ToSet(queues[gen]) = ToSet(Tail(queues[gen])) \cup {Head(queues[gen])}
  BY HeadAndTail DEF HasMessage
<1> QED
  BY <1>1, <1>2 DEF Content

-----------------------------------------------------------------------------
(* EACH REQUEST IN ONE PLACE                                               *)

Asked(t, l) ==
    \E m \in Content(reportQ) : m.type = "parse" /\ m.tester = t /\ m.loc_id = l

Answered(t, l) ==
    \E m \in Content(testerQ[t]) : m.type = "answer" /\ m.loc_id = l

Served(t, l) == request # NULL /\ request.tester = t /\ request.loc_id = l

RunFor(t, l) ==
    \E w \in Pids : runSlots[w] # NULL /\ runSlots[w].tester = t /\ runSlots[w].loc_id = l

(* What the server works on is not asked again and not in two hands; what   *)
(* is answered is worked on no more.                                        *)
OnePlace ==
    \A t \in Testers, l \in LocIds :
        /\ Served(t, l) => ~ Asked(t, l) /\ ~ RunFor(t, l)
        /\ Answered(t, l) => ~ Served(t, l) /\ ~ RunFor(t, l)

LEMMA InOnePlace == TypeInv /\ CapInv /\ PlacesInv => OnePlace
<1> SUFFICES ASSUME TypeInv, CapInv, PlacesInv, NEW t \in Testers, NEW l \in LocIds
             PROVE  /\ Served(t, l) => ~ Asked(t, l) /\ ~ RunFor(t, l)
                    /\ Answered(t, l) => ~ Served(t, l) /\ ~ RunFor(t, l)
  BY DEF OnePlace
<1>1. Asked(t, l) => Cardinality(Requests(t, l)) >= 1
  <2> SUFFICES ASSUME NEW g \in Generation, NEW m \in ToSet(reportQ[g]),
                      m.type = "parse", m.tester = t, m.loc_id = l
               PROVE  Cardinality(Requests(t, l)) >= 1
    BY DEF Asked, Content
  <2>1. m \in Parse
    BY HeldTyped DEF Exit
  <2> QED
    BY <2>1, HeldTyped, HeldCounts DEF CapInv, Requests
<1>2. Answered(t, l) => Cardinality(Answers(t, l)) >= 1
  <2> SUFFICES ASSUME NEW g \in Generation, NEW m \in ToSet(testerQ[t][g]),
                      m.type = "answer", m.loc_id = l
               PROVE  Cardinality(Answers(t, l)) >= 1
    BY DEF Answered, Content
  <2>1. m \in Answer
    BY HeldTyped DEF Exit
  <2> QED
    BY <2>1, HeldTyped, HeldCounts DEF CapInv, Answers
<1>3. RunFor(t, l) => Cardinality(Runs(t, l)) >= 1
  <2> SUFFICES ASSUME NEW w \in Pids, runSlots[w] # NULL, runSlots[w].tester = t,
                      runSlots[w].loc_id = l
               PROVE  Cardinality(Runs(t, l)) >= 1
    BY DEF RunFor
  <2>1. runSlots[w] \in RunSlot
    BY DEF TypeInv, TypeOK, ServerTypeOK
  <2>2. w \in Runs(t, l)
    BY <2>1 DEF Runs, RunSlot
  <2>3. Cardinality(Runs(t, l)) # 0
    BY <2>2, PartsCounted, FS_EmptySet
  <2> QED
    BY <2>3, PartsCounted
<1>4. PICK a, b, c, d : /\ a = Cardinality(Requests(t, l)) /\ b = Cardinality(Answers(t, l))
                        /\ c = Cardinality(Runs(t, l)) /\ d = IF Served(t, l) THEN 1 ELSE 0
  OBVIOUS
<1>5. a \in Nat /\ b \in Nat /\ c \in Nat /\ d \in Nat /\ a + b + c + d <= 1
  <2>1. Places(t, l) = a + b + c + d
    BY <1>4 DEF Places, Served
  <2>2. Places(t, l) <= 1
    BY PlacesNumbers DEF PlacesInv
  <2> QED
    BY <1>4, <2>1, <2>2, PartsCounted
<1> QED
  BY <1>1, <1>2, <1>3, <1>4, <1>5

LEMMA InOnePlaceNext == TypeInv' /\ CapInv' /\ PlacesInv' => OnePlace'
  BY InOnePlace, PTL

-----------------------------------------------------------------------------
(* WHAT THE SERVER DOES TO THE SERVICE                                     *)

(* The server reads requests only before it is told to stop.                *)
InputInv == serverPc = "input" => ~ shouldTerminate

LEMMA InputStep == InputInv /\ [Next]_vars => InputInv'
<1> SUFFICES ASSUME InputInv, [Next]_vars PROVE InputInv'
  OBVIOUS
<1>1. CASE ServerNext
  <2>1. CASE ReapNothing \/ ReapExited \/ ReapFailed
    BY <2>1 DEF ReapNothing, ReapExited, ReapFailed, AfterReap, reapUnchanged, InputInv
  <2>2. CASE SpawnFails
    BY <2>2 DEF SpawnFails, InputInv, loopVars
  <2>3. CASE BroadcastExit
    BY <2>3 DEF BroadcastExit, InputInv, loopVars
  <2>4. CASE RegisterTester
    BY <2>4 DEF RegisterTester, InputInv, loopVars
  <2> QED
    BY <1>1, <2>1, <2>2, <2>3, <2>4 DEF ServerNext, ServerStep, InputInv, Throttle, NoRunResult,
       ReadRunResult, SendAnswer, ReapFatal, NoRequest, TakeExitRequest, TakeRequest, Spawn,
       PushGraph, WaitAfterFailure, PrintReport, RemoveQueues, Unlink, FinalWait, OnExit, ExitWait
<1>2. CASE UNCHANGED serverVars
  BY <1>2 DEF serverVars, loopVars, InputInv
<1> QED
  BY <1>1, <1>2 DEF Next, RunNext, CrashNext, TesterNext, Terminating, vars

(* While a request is taken: it is accepted.                                *)
LEMMA RequestAccepted ==
    ASSUME ServedInv, ServedInv', InputInv, ServerNext, TakeRequest, "pipe" \notin Faults
    PROVE  \E r \in Waiting : Abstract!Accept(r)
<1> USE DEF ServedInv, AnswerInv
<1>1. PICK msg : msg = Head(reportQ[0])
  OBVIOUS
<1>2. msg \in Parse /\ msg.tester \in Testers /\ msg.loc_id \in LocIds /\ msg.type = "parse"
  BY <1>1, RequestOwed DEF Parse
<1>3. /\ reportQ \in [Generation -> Seq(Parse \cup {Exit})] /\ 0 \in Generation
      /\ HasMessage(reportQ[0]) /\ reportQ' = Received(reportQ, 0)
  BY DEF TakeRequest, TypeInv, TypeOK, PosixTypeOK, Generation
<1>4. /\ request = NULL /\ request' = msg /\ request' # NULL
      /\ serverPc = "input" /\ serverPc' = "spawn"
      /\ UNCHANGED <<shouldTerminate, runSlots, runWord, testerQ>>
  BY <1>1, <1>2, NullAssumption DEF TakeRequest, Fault, ResetInv, loopVars, processVars
<1>5. Content(reportQ) = Content(reportQ') \cup {msg}
  BY <1>1, <1>3, ReceivedContent
<1>6. RequestOf(msg) \in Waiting
  BY <1>2, <1>5, WaitingIs
<1>7. RequestOf(msg) \notin Waiting'
  <2>1. ~ Asked(msg.tester, msg.loc_id)'
    <3>1. Served(msg.tester, msg.loc_id)'
      BY <1>4 DEF Served
    <3> QED
      BY <1>2, <3>1, InOnePlaceNext DEF OnePlace
  <2>2. ASSUME NEW m \in Content(reportQ'), m.type = "parse"
        PROVE  RequestOf(m) # RequestOf(msg)
    <3>1. m.tester # msg.tester \/ m.loc_id # msg.loc_id
      BY <2>1, <2>2 DEF Asked
    <3> QED
      BY <3>1 DEF RequestOf
  <2> QED
    BY <2>2, WaitingIs
<1>8. Waiting' = Waiting \ {RequestOf(msg)}
  BY <1>2, <1>5, <1>7, WaitingIs
<1>9. Working' = Working \cup {RequestOf(msg)}
  <2>1. \A w : RequestOfRun(w)' = RequestOfRun(w)
    BY <1>4 DEF RequestOfRun
  <2> QED
    BY <1>4, <2>1, WorkingIs
<1>10. Phase = "open" /\ Phase' = "open"
  BY <1>4 DEF InputInv, Phase, Ending
<1>11. UNCHANGED <<Replies, Tallies>>
  <2>1. UNCHANGED <<req_count, ans_count, accepted_count>>
    BY DEF ServerNext, testerVars
  <2> QED
    BY <1>4, <2>1, RepliesSame, TalliesSame
<1>12. Abstract!Accept(RequestOf(msg))
  BY <1>6, <1>8, <1>9, <1>10, <1>11 DEF Abstract!Accept
<1> QED
  BY <1>6, <1>12

(* A request becomes a run: the service still works on it.                  *)
LEMMA SpawnStutters ==
    ASSUME ServedInv, ServerNext, Spawn
    PROVE  UNCHANGED Abstract!vars
<1> USE DEF ServedInv, AnswerInv
<1>1. PICK w \in Pids :
        /\ Fork(w, request.word)
        /\ runSlots' = [runSlots EXCEPT ![w] =
                          [loc_id |-> request.loc_id, tester |-> request.tester]]
  BY DEF Spawn
<1>2. /\ request \in Parse /\ request # NULL /\ request' = NULL
      /\ UNCHANGED <<shouldTerminate, reportQ, testerQ>>
      /\ serverPc = "spawn" /\ serverPc' = "push"
  BY NullAssumption DEF Spawn, TypeInv, LocalsSet, loopVars, queueVars
<1>3. PICK slot \in RunSlot : slot = [loc_id |-> request.loc_id, tester |-> request.tester]
  BY <1>2 DEF Parse, RunSlot
<1>4. /\ runSlots[w] = NULL /\ runSlots'[w] = slot /\ slot # NULL
      /\ runWord'[w] = request.word
      /\ \A v \in Pids \ {w} : runSlots'[v] = runSlots[v] /\ runWord'[v] = runWord[v]
  BY <1>1, <1>3, NullAssumption DEF Fork, ResetInv, TypeInv, TypeOK, PosixTypeOK, ServerTypeOK
<1>5. RequestOfRun(w)' = RequestOf(request)
  BY <1>3, <1>4 DEF RequestOfRun, RequestOf
<1>6. \A v \in Pids \ {w} : RequestOfRun(v)' = RequestOfRun(v)
  BY <1>4 DEF RequestOfRun
<1>7. Working' = Working
  <2>1. \A r : r \in Working' <=> r \in Working
    BY <1>2, <1>4, <1>5, <1>6, WorkingIs
  <2> QED
    BY <2>1, WorkingIs DEF Working
<1>8. Waiting' = Waiting /\ Replies' = Replies
  BY <1>2, WaitingSame, RepliesSame
<1>9. Tallies' = Tallies
  BY TalliesSame DEF ServerNext, testerVars
<1>10. Phase' = Phase
  BY <1>2, PhaseSame DEF Ending
<1> QED
  BY <1>7, <1>8, <1>9, <1>10 DEF Abstract!vars

(* No run can be forked: the request is omitted, or is tried again.         *)
LEMMA SpawnFailsOmits ==
    ASSUME ServedInv, ServerNext, SpawnFails
    PROVE  UNCHANGED Abstract!vars \/ \E r \in Working : Abstract!Omit(r)
<1> USE DEF ServedInv, AnswerInv
<1>1. /\ request \in Parse /\ request # NULL /\ serverPc = "spawn"
      /\ UNCHANGED <<shouldTerminate, reportQ, testerQ, runSlots, runWord>>
      /\ serverPc' \in {"register", "spawn"}
  BY NullAssumption DEF SpawnFails, TypeInv, LocalsSet, loopVars, queueVars, slotVars, processVars
<1>2. Waiting' = Waiting /\ Replies' = Replies /\ Phase' = Phase
  BY <1>1, WaitingSame, RepliesSame, PhaseSame DEF Ending
<1>3. Tallies' = Tallies
  BY TalliesSame DEF ServerNext, testerVars
<1>4. CASE request' = request
  BY <1>1, <1>2, <1>3, <1>4, WorkingSame DEF Abstract!vars
<1>5. CASE request' = NULL
  <2>1. RequestOf(request) \in Working
    BY <1>1, WorkingIs
  <2>2. \A w : RequestOfRun(w)' = RequestOfRun(w)
    BY <1>1 DEF RequestOfRun
  <2>3. ASSUME NEW w \in Pids, runSlots[w] # NULL
        PROVE  RequestOfRun(w) # RequestOf(request)
    <3>1. ~ RunFor(request.tester, request.loc_id)
      <4>1. Served(request.tester, request.loc_id)
        BY <1>1 DEF Served
      <4> QED
        BY <1>1, <4>1, InOnePlace DEF OnePlace, Parse
    <3>2. runSlots[w].tester # request.tester \/ runSlots[w].loc_id # request.loc_id
      BY <2>3, <3>1 DEF RunFor
    <3> QED
      BY <3>2 DEF RequestOfRun, RequestOf
  <2>4. Working' = Working \ {RequestOf(request)}
    BY <1>1, <1>5, <2>2, <2>3, WorkingIs
  <2>5. Abstract!Omit(RequestOf(request))
    BY <1>2, <1>3, <2>1, <2>4 DEF Abstract!Omit
  <2> QED
    BY <2>1, <2>5
<1> QED
  BY <1>4, <1>5 DEF SpawnFails

(* An answer is sent, with the verdict on the word the tester asked about.  *)
LEMMA AnswerAnswers ==
    ASSUME ServedInv, ServedInv', ServerNext, SendAnswer
    PROVE  \E r \in Working : Abstract!Answer(r)
<1> USE DEF ServedInv, AnswerInv
<1>0. PICK t \in Testers, w \in Pids, gen \in Generation, l \in LocIds, msg \in Answer :
        /\ answering # NULL /\ t = answering.tester /\ w = answering.pid
        /\ runSlots[w] = [loc_id |-> l, tester |-> t] /\ runSlots[w] \in RunSlot
        /\ testerSlots[t] # NULL /\ gen = testerSlots[t].queue
        /\ msg.loc_id = l /\ msg.result = answering.result
        /\ HasRoom(testerQ[t][gen])
        /\ testerQ'[t] = Sent(testerQ[t], gen, msg)
        /\ \A u \in Testers \ {t} : testerQ'[u] = testerQ[u]
  BY AnswerGoes
<1>1. PICK r : r = RequestOfRun(w)
  OBVIOUS
<1>2. /\ r = [tester |-> t, loc_id |-> l, word |-> runWord[w]]
      /\ runSlots[w] # NULL /\ runSlots[w].tester = t /\ runSlots[w].loc_id = l
  BY <1>0, <1>1, NullAssumption DEF RequestOfRun
<1>3. /\ UNCHANGED <<shouldTerminate, reportQ, request, runWord>>
      /\ runSlots' = [runSlots EXCEPT ![w] = NULL]
      /\ serverPc = "answer" /\ serverPc' = "reap"
  BY <1>0 DEF SendAnswer, loopVars, processVars
<1>4. /\ runSlots'[w] = NULL
      /\ \A v \in Pids \ {w} : runSlots'[v] = runSlots[v]
  BY <1>3 DEF TypeInv, TypeOK, ServerTypeOK
<1>5. r \in Working
  BY <1>1, <1>2, WorkingIs
<1>6. Content(testerQ'[t]) = Content(testerQ[t]) \cup {msg}
  <2>1. testerQ[t] \in [Generation -> Seq(Answer \cup {Exit})] /\ msg \in Answer \cup {Exit}
    BY DEF TypeInv, TypeOK, PosixTypeOK
  <2>2. Content(Sent(testerQ[t], gen, msg)) = Content(testerQ[t]) \cup {msg}
    BY <2>1, SentContent
  <2> QED
    BY <1>0, <2>2
<1>7. msg.type = "answer"
  BY DEF Answer
<1>8. ~ Served(t, l)' /\ ~ RunFor(t, l)'
  <2>1. Answered(t, l)'
    BY <1>0, <1>6, <1>7 DEF Answered
  <2> QED
    BY <2>1, InOnePlaceNext DEF OnePlace
<1>9. r \notin Working'
  <2>1. ASSUME NEW v \in Pids, runSlots'[v] # NULL PROVE r # RequestOfRun(v)'
    <3>1. runSlots'[v].tester # t \/ runSlots'[v].loc_id # l
      BY <1>8, <2>1 DEF RunFor
    <3> QED
      BY <1>2, <3>1 DEF RequestOfRun
  <2>2. ASSUME request' # NULL PROVE r # RequestOf(request')
    <3>1. request'.tester # t \/ request'.loc_id # l
      BY <1>8, <2>2 DEF Served
    <3> QED
      BY <1>2, <3>1 DEF RequestOf
  <2> QED
    BY <2>1, <2>2, WorkingIs
<1>10. Working' = Working \ {r}
  <2>1. \A v \in Pids \ {w} : RequestOfRun(v)' = RequestOfRun(v)
    BY <1>3, <1>4 DEF RequestOfRun
  <2>2. ASSUME NEW x, x \in Working' PROVE x \in Working /\ x # r
    <3>1. ASSUME NEW v \in Pids, runSlots'[v] # NULL, x = RequestOfRun(v)' PROVE x \in Working
      <4>1. v # w /\ runSlots[v] # NULL
        BY <1>4, <3>1
      <4>2. x = RequestOfRun(v)
        BY <2>1, <3>1, <4>1
      <4> QED
        BY <4>1, <4>2, WorkingIs
    <3>2. ASSUME request' # NULL, x = RequestOf(request') PROVE x \in Working
      <4>1. request # NULL /\ x = RequestOf(request)
        BY <1>3, <3>2
      <4> QED
        BY <4>1, WorkingIs
    <3>3. x \in Working
      BY <2>2, <3>1, <3>2, WorkingIs
    <3> QED
      BY <1>9, <2>2, <3>3
  <2>3. ASSUME NEW x, x \in Working, x # r PROVE x \in Working'
    <3>1. ASSUME NEW v \in Pids, runSlots[v] # NULL, x = RequestOfRun(v) PROVE x \in Working'
      <4>1. v # w
        BY <1>1, <2>3, <3>1
      <4>2. runSlots'[v] # NULL /\ x = RequestOfRun(v)'
        BY <1>4, <2>1, <3>1, <4>1
      <4> QED
        BY <4>2, WorkingIs
    <3>2. ASSUME request # NULL, x = RequestOf(request) PROVE x \in Working'
      <4>1. request' # NULL /\ x = RequestOf(request')
        BY <1>3, <3>2
      <4> QED
        BY <4>1, WorkingIs
    <3> QED
      BY <2>3, <3>1, <3>2, WorkingIs
  <2> QED
    BY <2>2, <2>3
<1>11. msg.result = (r.word \in Accepted)
  BY <1>0, <1>2 DEF VerdictInv, ResultVerdict
<1>12. ReplyOf(t, msg) = [tester |-> r.tester, loc_id |-> r.loc_id,
                          result |-> r.word \in Accepted]
  BY <1>0, <1>2, <1>11 DEF ReplyOf
<1>13. Replies' = Replies \cup {ReplyOf(t, msg)}
  <2>1. ASSUME NEW p PROVE p \in Replies' <=> p \in Replies \/ p = ReplyOf(t, msg)
    <3>1. ASSUME NEW u \in Testers, NEW m \in Content(testerQ'[u]),
                 m.type = "answer", p = ReplyOf(u, m)
          PROVE  p \in Replies \/ p = ReplyOf(t, msg)
      <4>1. CASE u = t
        BY <1>6, <3>1, <4>1, RepliesIs
      <4>2. CASE u # t
        BY <1>0, <3>1, <4>2, RepliesIs
      <4> QED
        BY <4>1, <4>2
    <3>2. ASSUME NEW u \in Testers, NEW m \in Content(testerQ[u]),
                 m.type = "answer", p = ReplyOf(u, m)
          PROVE  p \in Replies'
      <4>1. CASE u = t
        BY <1>6, <3>2, <4>1, RepliesIs
      <4>2. CASE u # t
        BY <1>0, <3>2, <4>2, RepliesIs
      <4> QED
        BY <4>1, <4>2
    <3>3. ReplyOf(t, msg) \in Replies'
      BY <1>6, <1>7, RepliesIs
    <3> QED
      BY <3>1, <3>2, <3>3, RepliesIs
  <2> QED
    BY <2>1
<1>14. Waiting' = Waiting /\ Phase' = Phase /\ Phase # "closed"
  BY <1>3, WaitingSame, PhaseSame DEF Ending, Phase
<1>15. Tallies' = Tallies
  BY TalliesSame DEF ServerNext, testerVars
<1>16. Abstract!Answer(r)
  BY <1>5, <1>10, <1>12, <1>13, <1>14, <1>15 DEF Abstract!Answer
<1> QED
  BY <1>5, <1>16

(* The request to stop: the service drains.                                 *)
LEMMA ExitRequestDrains ==
    ASSUME ServedInv, InputInv, ServerNext, TakeExitRequest
    PROVE  Abstract!Drain
<1> USE DEF ServedInv, AnswerInv
<1>1. /\ reportQ \in [Generation -> Seq(Parse \cup {Exit})] /\ 0 \in Generation
      /\ HasMessage(reportQ[0]) /\ reportQ' = Received(reportQ, 0)
      /\ Head(reportQ[0]).type = "exit"
  BY DEF TakeExitRequest, TypeInv, TypeOK, PosixTypeOK, Generation
<1>2. Content(reportQ) = Content(reportQ') \cup {Head(reportQ[0])}
  BY <1>1, ReceivedContent
<1>3. Waiting' = Waiting
  BY <1>1, <1>2, WaitingIs
<1>4. Working' = Working /\ Replies' = Replies
  BY WorkingSame, RepliesSame DEF TakeExitRequest, slotVars, localVars, processVars
<1>5. Tallies' = Tallies
  BY TalliesSame DEF ServerNext, testerVars
<1>6. Phase = "open" /\ Phase' = "draining"
  BY DEF TakeExitRequest, InputInv, Phase, Ending
<1> QED
  BY <1>3, <1>4, <1>5, <1>6 DEF Abstract!Drain

(* The loop is left when the service has nothing left to do.                *)
LEMMA EndingCloses ==
    ASSUME ServedInv, CountedInv, [Next]_vars, "pipe" \notin Faults,
           serverPc \notin Ending, serverPc' \in Ending
    PROVE  Abstract!Close
<1> USE DEF ServedInv, AnswerInv
<1>1. ServerNext
  BY DEF Next, RunNext, CrashNext, TesterNext, Terminating, vars, serverVars
<1>2. serverPc' = "broadcast"
  BY EndingBegins
<1>3. ReapNothing \/ ReapExited \/ ReapFailed
  <2>1. serverPc # "broadcast" /\ serverPc # "failureWait"
    BY DEF CountedInv, Ending
  <2> QED
    BY <1>1, <1>2, <2>1 DEF ServerNext, ServerStep, RegisterTester, Throttle, NoRunResult,
       ReadRunResult, SendAnswer, ReapFatal, NoRequest, TakeExitRequest, TakeRequest, Spawn,
       SpawnFails, PushGraph, WaitAfterFailure, BroadcastExit, PrintReport, RemoveQueues, Unlink,
       FinalWait, OnExit, ExitWait
<1>4. ReapNothing \/ ReapExited
  BY <1>3 DEF ReapFailed, CountedInv
<1>5. /\ shouldTerminate /\ shouldTerminate' /\ serverPc = "reap"
      /\ UNCHANGED <<reportQ, testerQ, runSlots, runWord, request>>
  BY <1>2, <1>4 DEF ReapNothing, ReapExited, AfterReap, reapUnchanged, queueVars,
     slotVars, localVars
<1>6. Phase = "draining" /\ Phase' = "closed"
  BY <1>5 DEF Phase
<1>7. Working = {} /\ Working' = {}
  <2>1. request = NULL
    BY <1>5 DEF ResetInv
  <2>2. \A w \in Pids : runSlots[w] = NULL
    BY <1>5, EndsEmpty
  <2>3. Working = {}
    BY <2>1, <2>2, WorkingIs
  <2> QED
    BY <1>5, <2>3, WorkingSame
<1>8. Waiting' = Waiting /\ Replies' = Replies
  BY <1>5, WaitingSame, RepliesSame
<1>9. Tallies' = Tallies
  BY <1>1, TalliesSame DEF ServerNext, testerVars
<1> QED
  BY <1>6, <1>7, <1>8, <1>9 DEF Abstract!Close

(* "exit" in a queue is no reply.                                           *)
LEMMA ExitNoReply ==
    ASSUME \A t \in Testers : Content(testerQ'[t]) \cup {Exit} = Content(testerQ[t]) \cup {Exit}
    PROVE  Replies' = Replies
<1>1. ASSUME NEW m, m.type = "answer" PROVE m # Exit
  BY <1>1 DEF Exit
<1>2. ASSUME NEW t \in Testers, NEW m, m.type = "answer"
      PROVE  m \in Content(testerQ'[t]) <=> m \in Content(testerQ[t])
  BY <1>1, <1>2
<1> QED
  BY <1>2, RepliesIs

LEMMA BroadcastStutters ==
    ASSUME ServedInv, ServerNext, BroadcastExit
    PROVE  UNCHANGED Abstract!vars
<1> USE DEF ServedInv
<1>1. PICK t \in exitPending :
        testerQ' = [testerQ EXCEPT ![t] = Sent(testerQ[t], testerSlots[t].queue, Exit)]
  BY DEF BroadcastExit
<1>2. PICK gen : gen = testerSlots[t].queue
  OBVIOUS
<1>3. /\ t \in Testers /\ testerQ[t] \in [Generation -> Seq(Answer \cup {Exit})]
      /\ testerQ'[t] = Sent(testerQ[t], gen, Exit)
      /\ \A u \in Testers \ {t} : testerQ'[u] = testerQ[u]
  BY <1>1, <1>2 DEF TypeInv, TypeOK, PosixTypeOK, ServerTypeOK
<1>4. Content(testerQ'[t]) \cup {Exit} = Content(testerQ[t]) \cup {Exit}
  <2>1. CASE gen \in Generation
    <3>1. Content(Sent(testerQ[t], gen, Exit)) = Content(testerQ[t]) \cup {Exit}
      BY <1>3, <2>1, SentContent
    <3> QED
      BY <1>3, <3>1
  <2>2. CASE gen \notin Generation
    <3>1. \A g \in Generation : Sent(testerQ[t], gen, Exit)[g] = testerQ[t][g]
      BY <1>3, <2>2 DEF Sent
    <3> QED
      BY <1>3, <3>1 DEF Content
  <2> QED
    BY <2>1, <2>2
<1>5. Replies' = Replies
  BY <1>3, <1>4, ExitNoReply
<1>6. UNCHANGED <<shouldTerminate, reportQ, runSlots, runWord, request, serverPc>>
  BY DEF BroadcastExit, loopVars, slotVars, localVars, processVars
<1>7. Waiting' = Waiting /\ Working' = Working /\ Phase' = Phase
  BY <1>6, WaitingSame, WorkingSame, PhaseSame
<1>8. Tallies' = Tallies
  BY TalliesSame DEF ServerNext, testerVars
<1> QED
  BY <1>5, <1>7, <1>8 DEF Abstract!vars

(* Every step of the server is a step of the service, or none.              *)
LEMMA ServerServes ==
    ASSUME ServedInv, ServedInv', CountedInv, InputInv, ServerNext, "pipe" \notin Faults
    PROVE  Abstract!Next \/ UNCHANGED Abstract!vars
<1>1. CASE serverPc \notin Ending /\ serverPc' \in Ending
  BY <1>1, EndingCloses DEF Next, Abstract!Next
<1>2. CASE /\ ~ (serverPc \notin Ending /\ serverPc' \in Ending)
           /\ ~ (TakeRequest \/ Spawn \/ SpawnFails \/ SendAnswer \/ TakeExitRequest
                 \/ BroadcastExit)
  <2>1. serverPc' \in Ending <=> serverPc \in Ending
    <3>1. [Next]_vars /\ TypeInv
      BY DEF Next, ServedInv
    <3> QED
      BY <1>2, <3>1, EndingKept
  <2>2. UNCHANGED <<shouldTerminate, reportQ, testerQ, runSlots, runWord, request>>
    <3>1. CASE OnExit
      BY <3>1 DEF OnExit, GlobalTesterSlots, ServedInv, TypeInv, TypeOK, PosixTypeOK, loopVars,
         slotVars, localVars, processVars
    <3>2. CASE ReapNothing \/ ReapExited \/ ReapFailed \/ ReapFatal
      BY <3>2 DEF ReapNothing, ReapExited, ReapFatal, ReapFailed, CountedInv,
         AfterReap, reapUnchanged, slotVars, localVars, posixVars, queueVars
    <3> QED
      BY <1>2, <3>1, <3>2 DEF ServerNext, ServerStep, RegisterTester, Throttle, NoRunResult,
         ReadRunResult, NoRequest, PushGraph, WaitAfterFailure, PrintReport, RemoveQueues,
         Unlink, FinalWait, ExitWait, loopVars, slotVars, localVars, posixVars, queueVars,
         processVars, CountedInv
  <2>3. UNCHANGED <<req_count, ans_count, accepted_count>>
    BY DEF ServerNext, testerVars
  <2>4. UNCHANGED <<Phase, Waiting, Working, Replies, Tallies>>
    BY <2>1, <2>2, <2>3, PhaseSame, WaitingSame, WorkingSame, RepliesSame, TalliesSame
  <2> QED
    BY <2>4 DEF Abstract!vars
<1>3. CASE TakeRequest
  BY <1>3, RequestAccepted DEF Abstract!Next
<1>4. CASE Spawn \/ BroadcastExit
  BY <1>4, SpawnStutters, BroadcastStutters
<1>5. CASE SpawnFails
  BY <1>5, SpawnFailsOmits DEF Abstract!Next, Abstract!Serve
<1>6. CASE SendAnswer
  BY <1>6, AnswerAnswers DEF Abstract!Next, Abstract!Serve
<1>7. CASE TakeExitRequest
  BY <1>7, ExitRequestDrains DEF Abstract!Next
<1> QED
  BY <1>1, <1>2, <1>3, <1>4, <1>5, <1>6, <1>7

-----------------------------------------------------------------------------
(* WHAT A TESTER DOES TO THE SERVICE                                       *)

(* Whatever is in service is owed.                                          *)
LEMMA InServiceOwed ==
    ASSUME ServedInv, NEW t, NEW l, Abstract!InService(t, l)
    PROVE  Owed(t, l)
<1>1. OnlyOwed
  BY InPlace DEF ServedInv, AnswerInv
<1>2. PICK r \in Waiting \cup Working \cup Replies : r.tester = t /\ r.loc_id = l
  BY DEF Abstract!InService
<1>3. CASE r \in Waiting
  <2>1. PICK m \in Content(reportQ) : m.type = "parse" /\ r = RequestOf(m)
    BY <1>3, WaitingIs
  <2>2. m.tester = t /\ m.loc_id = l
    BY <1>2, <2>1 DEF RequestOf
  <2> QED
    BY <1>1, <2>1, <2>2 DEF OnlyOwed, Content
<1>4. CASE r \in Working
  <2>1. CASE \E w \in Pids : runSlots[w] # NULL /\ r = RequestOfRun(w)
    BY <1>1, <1>2, <2>1 DEF OnlyOwed, RequestOfRun
  <2>2. CASE request # NULL /\ r = RequestOf(request)
    BY <1>1, <1>2, <2>2 DEF OnlyOwed, RequestOf
  <2> QED
    BY <1>4, <2>1, <2>2, WorkingIs
<1>5. CASE r \in Replies
  <2>1. PICK u \in Testers : \E m \in Content(testerQ[u]) : m.type = "answer" /\ r = ReplyOf(u, m)
    BY <1>5, RepliesIs
  <2>2. PICK m \in Content(testerQ[u]) : m.type = "answer" /\ r = ReplyOf(u, m)
    BY <2>1
  <2>3. u = t /\ m.loc_id = l
    BY <1>2, <2>2 DEF ReplyOf
  <2> QED
    BY <1>1, <2>2, <2>3 DEF OnlyOwed, Content
<1> QED
  BY <1>2, <1>3, <1>4, <1>5

LEMMA ReplyOwedNext ==
    ASSUME ServedInv', NEW t, NEW l, NEW p \in Replies', p.tester = t, p.loc_id = l
    PROVE  Owed(t, l)'
<1>1. OnlyOwed'
  BY InPlaceNext DEF ServedInv, AnswerInv
<1>2. PICK u \in Testers : \E m \in Content(testerQ'[u]) : m.type = "answer" /\ p = ReplyOf(u, m)
  BY RepliesIs
<1>3. PICK m \in Content(testerQ'[u]) : m.type = "answer" /\ p = ReplyOf(u, m)
  BY <1>2
<1>4. u = t /\ m.loc_id = l
  BY <1>3 DEF ReplyOf
<1> QED
  BY <1>1, <1>3, <1>4 DEF OnlyOwed, Content

(* What no tester touches.                                                  *)
LEMMA TesterLeaves ==
    ASSUME NEW t \in Testers, TesterNext(t)
    PROVE  Working' = Working /\ Phase' = Phase
<1>1. UNCHANGED <<shouldTerminate, runSlots, runWord, request, serverPc>>
  BY TesterKeeps DEF serverVars, loopVars, slotVars, localVars, processVars
<1> QED
  BY <1>1, WorkingSame, PhaseSame

(* A word is sent: the tester asks, under a number nothing is known by.     *)
LEMMA WordAsked ==
    ASSUME ServedInv, ServedInv', NEW t \in Testers, TesterNext(t), SendWord(t)
    PROVE  \E r \in Abstract!Request : Abstract!Ask(r)
<1> USE DEF ServedInv, AnswerInv
<1>1. /\ loc_id[t] \in LocIds /\ line[t] \in Words /\ ~ Owed(t, loc_id[t])
  BY WordSent
<1>2. PICK msg : msg = [type |-> "parse", tester |-> t, loc_id |-> loc_id[t], word |-> line[t]]
  OBVIOUS
<1>3. PICK r : r = [tester |-> t, loc_id |-> loc_id[t], word |-> line[t]]
  OBVIOUS
<1>4. r \in Abstract!Request /\ r = RequestOf(msg) /\ r.tester = t /\ r.loc_id = loc_id[t]
  BY <1>1, <1>2, <1>3 DEF Abstract!Request, RequestOf
<1>5. ~ Abstract!InService(r.tester, r.loc_id)
  BY <1>1, <1>4, InServiceOwed
<1>6. Content(reportQ') = Content(reportQ) \cup {msg} /\ msg.type = "parse"
  <2>1. /\ reportQ \in [Generation -> Seq(Parse \cup {Exit})] /\ reportHandle[t] \in Generation
        /\ msg \in Parse \cup {Exit} /\ reportQ' = Sent(reportQ, reportHandle[t], msg)
    BY <1>1, <1>2 DEF SendWord, TypeInv, TypeOK, PosixTypeOK, TesterTypeOK, Parse
  <2> QED
    BY <1>2, <2>1, SentContent
<1>7. Waiting' = Waiting \cup {r}
  BY <1>4, <1>6, WaitingIs
<1>8. Replies' = Replies
  BY RepliesSame DEF SendWord
<1>9. Tallies' = [Tallies EXCEPT ![r.tester].asked = @ + 1]
  BY <1>4 DEF SendWord, Tallies, TypeInv, TypeOK, TesterTypeOK
<1>10. Abstract!Ask(r)
  BY <1>5, <1>7, <1>8, <1>9, TesterLeaves DEF Abstract!Ask
<1> QED
  BY <1>4, <1>10

(* "exit" in the queue of requests is no request.                           *)
LEMMA ExitSentStutters ==
    ASSUME ServedInv, NEW t \in Testers, TesterNext(t), SendExit(t)
    PROVE  UNCHANGED Abstract!vars
<1> USE DEF ServedInv
<1>1. Content(reportQ') = Content(reportQ) \cup {Exit}
  <2>1. /\ reportQ \in [Generation -> Seq(Parse \cup {Exit})] /\ reportHandle[t] \in Generation
        /\ reportQ' = Sent(reportQ, reportHandle[t], Exit)
    BY DEF SendExit, TypeInv, TypeOK, PosixTypeOK, TesterTypeOK
  <2> QED
    BY <2>1, SentContent
<1>2. Waiting' = Waiting
  <2>1. Exit.type # "parse"
    BY DEF Exit
  <2>2. ASSUME NEW m, m.type = "parse"
        PROVE  m \in Content(reportQ') <=> m \in Content(reportQ)
    BY <1>1, <2>1, <2>2
  <2> QED
    BY <2>2, WaitingIs
<1>3. Replies' = Replies /\ Tallies' = Tallies
  BY RepliesSame, TalliesSame DEF SendExit
<1> QED
  BY <1>2, <1>3, TesterLeaves DEF Abstract!vars

(* "exit" is read: the tester is told nothing.                              *)
LEMMA ExitTakenStutters ==
    ASSUME ServedInv, NEW t \in Testers, TesterNext(t), TakeExit(t)
    PROVE  UNCHANGED Abstract!vars
<1> USE DEF ServedInv, AnswerInv
<1>1. /\ HasMessage(testerQ[t][0]) /\ 0 \in Generation
      /\ testerQ[t] \in [Generation -> Seq(Answer \cup {Exit})]
      /\ testerQ'[t] = Received(testerQ[t], 0)
      /\ \A u \in Testers \ {t} : testerQ'[u] = testerQ[u]
  BY HeadTaken
<1>2. Head(testerQ[t][0]) = Exit
  <2>1. Head(testerQ[t][0]) \in ToSet(testerQ[t][0]) /\ Head(testerQ[t][0]).type = "exit"
    BY <1>1, ReceivedHolds DEF CapInv, TakeExit
  <2> QED
    BY <1>1, <2>1, HeldTyped DEF Answer
<1>3. Content(testerQ[t]) = Content(testerQ'[t]) \cup {Exit}
  BY <1>1, <1>2, ReceivedContent
<1>4. Replies' = Replies
  BY <1>1, <1>3, ExitNoReply
<1>5. Waiting' = Waiting /\ Tallies' = Tallies
  BY WaitingSame, TalliesSame DEF TakeExit
<1> QED
  BY <1>4, <1>5, TesterLeaves DEF Abstract!vars

(* An answer is read: the tester is told, once.                             *)
LEMMA AnswerTold ==
    ASSUME ServedInv, ServedInv', NEW t \in Testers, TesterNext(t), TakeAnswer(t)
    PROVE  \E p \in Replies : Abstract!Tell(p)
<1> USE DEF ServedInv, AnswerInv
<1>1. PICK n \in LocIds : /\ n = Head(testerQ[t][0]).loc_id /\ Head(testerQ[t][0]) \in Answer
                          /\ Owed(t, n) /\ ~ Owed(t, n)'
  BY AnswerTaken
<1>2. /\ HasMessage(testerQ[t][0]) /\ 0 \in Generation
      /\ testerQ[t] \in [Generation -> Seq(Answer \cup {Exit})]
      /\ testerQ'[t] = Received(testerQ[t], 0)
      /\ \A u \in Testers \ {t} : testerQ'[u] = testerQ[u]
  BY HeadTaken
<1>3. PICK msg \in Answer : msg = Head(testerQ[t][0])
  BY <1>1
<1>4. Content(testerQ[t]) = Content(testerQ'[t]) \cup {msg}
  BY <1>2, <1>3, ReceivedContent
<1>5. PICK p : p = ReplyOf(t, msg)
  OBVIOUS
<1>6. p.tester = t /\ p.loc_id = n /\ p.result = msg.result /\ msg.type = "answer"
  BY <1>1, <1>3, <1>5 DEF ReplyOf, Answer
<1>7. p \in Replies
  BY <1>4, <1>5, <1>6, RepliesIs
<1>8. p \notin Replies'
  BY <1>1, <1>6, ReplyOwedNext
<1>9. Replies' = Replies \ {p}
  <2>1. ASSUME NEW x PROVE x \in Replies' <=> x \in Replies /\ x # p
    <3>1. ASSUME x \in Replies' PROVE x \in Replies
      <4>1. PICK u \in Testers :
              \E m \in Content(testerQ'[u]) : m.type = "answer" /\ x = ReplyOf(u, m)
        BY <3>1, RepliesIs
      <4>2. Content(testerQ'[u]) \subseteq Content(testerQ[u])
        BY <1>2, <1>4
      <4> QED
        BY <4>1, <4>2, RepliesIs
    <3>2. ASSUME x \in Replies, x # p PROVE x \in Replies'
      <4>1. PICK u \in Testers :
              \E m \in Content(testerQ[u]) : m.type = "answer" /\ x = ReplyOf(u, m)
        BY <3>2, RepliesIs
      <4>2. PICK m \in Content(testerQ[u]) : m.type = "answer" /\ x = ReplyOf(u, m)
        BY <4>1
      <4>3. m \in Content(testerQ'[u])
        BY <1>2, <1>4, <1>5, <3>2, <4>2
      <4> QED
        BY <4>2, <4>3, RepliesIs
    <3> QED
      BY <1>8, <3>1, <3>2
  <2> QED
    BY <2>1
<1>10. Waiting' = Waiting
  BY WaitingSame DEF TakeAnswer
<1>11. Tallies' = [Tallies EXCEPT ![p.tester].told = @ + 1,
                                  ![p.tester].accepted = @ + (IF p.result THEN 1 ELSE 0)]
  <2>1. results[t][n] # NULL
    BY <1>1 DEF Owed
  <2>2. /\ req_count' = req_count
        /\ ans_count' = [ans_count EXCEPT ![t] = @ + 1]
        /\ accepted_count' = [accepted_count EXCEPT ![t] = @ + (IF msg.result THEN 1 ELSE 0)]
    BY <1>1, <1>3, <2>1 DEF TakeAnswer, TypeInv, TypeOK, TesterTypeOK
  <2> QED
    BY <1>6, <2>2 DEF Tallies, TypeInv, TypeOK, TesterTypeOK
<1>12. Abstract!Tell(p)
  BY <1>7, <1>9, <1>10, <1>11, TesterLeaves DEF Abstract!Tell
<1> QED
  BY <1>7, <1>12

LEMMA TesterServes ==
    ASSUME ServedInv, ServedInv', NEW t \in Testers, TesterNext(t)
    PROVE  Abstract!Next \/ UNCHANGED Abstract!vars
<1>1. CASE SendWord(t)
  BY <1>1, WordAsked DEF Abstract!Next
<1>2. CASE TakeAnswer(t)
  BY <1>2, AnswerTold DEF Abstract!Next
<1>3. CASE SendExit(t) \/ TakeExit(t)
  BY <1>3, ExitSentStutters, ExitTakenStutters
<1>4. CASE \/ OpenRegister(t) \/ Register(t) \/ OpenReport(t) \/ ReadLine(t)
           \/ PollNothing(t) \/ CloseTester(t)
  <2>1. UNCHANGED <<reportQ, testerQ, req_count, ans_count, accepted_count>>
    BY <1>4 DEF OpenRegister, Register, OpenReport, ReadLine, PollNothing, CloseTester,
       posixVars, queueVars
  <2> QED
    BY <2>1, WaitingSame, RepliesSame, TalliesSame, TesterLeaves DEF Abstract!vars
<1> QED
  BY <1>1, <1>2, <1>3, <1>4 DEF TesterNext, TesterStep

(* A run computes for the service, which works on its word throughout.      *)
LEMMA RunStutters ==
    ASSUME NEW w \in Pids, RunNext(w) \/ CrashNext(w)
    PROVE  UNCHANGED Abstract!vars
<1>1. UNCHANGED <<shouldTerminate, runSlots, runWord, request, serverPc, reportQ, testerQ,
                  req_count, ans_count, accepted_count>>
  BY DEF RunNext, CrashNext, RunStep, OpenQueues, ReadGraph, CommitResult, ExitRun, Crash,
     MoveRun, queueVars, serverVars, loopVars, slotVars, localVars, testerVars
<1> QED
  BY <1>1, WaitingSame, WorkingSame, RepliesSame, PhaseSame, TalliesSame DEF Abstract!vars

-----------------------------------------------------------------------------
(* THE REFINEMENT                                                          *)

LEMMA ServiceInit == Init => Abstract!Init
<1> SUFFICES ASSUME Init PROVE Abstract!Init
  OBVIOUS
<1>1. Content(reportQ) = {} /\ \A t \in Testers : Content(testerQ[t]) = {}
  BY DEF Init, PosixInit, Content, ToSet
<1>2. Waiting = {} /\ Replies = {}
  BY <1>1, WaitingIs, RepliesIs
<1>3. Working = {}
  BY WorkingIs DEF Init, ServerInit
<1>4. Phase = "open"
  BY DEF Init, ServerInit, Phase, Ending
<1>5. Tallies = [t \in Testers |-> [asked |-> 0, told |-> 0, accepted |-> 0]]
  BY DEF Init, TesterInit, Tallies
<1> QED
  BY <1>2, <1>3, <1>4, <1>5 DEF Abstract!Init

LEMMA ServiceStep ==
    ASSUME ServedInv, ServedInv', CountedInv, InputInv, [Next]_vars, "pipe" \notin Faults
    PROVE  [Abstract!Next]_(Abstract!vars)
<1>1. CASE ServerNext
  BY <1>1, ServerServes
<1>2. ASSUME NEW w \in Pids, RunNext(w) \/ CrashNext(w) PROVE [Abstract!Next]_(Abstract!vars)
  BY <1>2, RunStutters
<1>3. ASSUME NEW t \in Testers, TesterNext(t) PROVE [Abstract!Next]_(Abstract!vars)
  BY <1>3, TesterServes
<1>4. CASE UNCHANGED vars
  <2>1. UNCHANGED <<shouldTerminate, runSlots, runWord, request, serverPc, reportQ, testerQ,
                    req_count, ans_count, accepted_count>>
    BY <1>4 DEF vars, posixVars, queueVars, processVars, serverVars, loopVars, slotVars,
       localVars, testerVars
  <2> QED
    BY <2>1, WaitingSame, WorkingSame, RepliesSame, PhaseSame, TalliesSame DEF Abstract!vars
<1> QED
  BY <1>1, <1>2, <1>3, <1>4 DEF Next, Terminating

(* The processes and queues implement the service, while no run is killed   *)
(* and pipe() does not fail: a tester never asks under a number that is in   *)
(* use (tester.c:110-133); a request is accepted only before the stop        *)
(* (validator.c:376-387) and answered once with its verdict, or omitted      *)
(* (validator.c:281-305, 435-475); a tester is told once (tester.c:155-172); *)
(* and the server that was told to stop leaves its loop with nothing it      *)
(* accepted in hand (validator.c:352-370).                                  *)
THEOREM ServiceImplemented ==
    ASSUME "crash" \notin Faults, "pipe" \notin Faults
    PROVE  Spec => Abstract!Init /\ [][Abstract!Next]_(Abstract!vars)
<1>1. Init => ServedInv /\ CountedInv /\ InputInv
  BY ServedInit, CountedInit DEF InputInv, Init, ServerInit
<1>2. ServedInv /\ CountedInv /\ InputInv /\ [Next]_vars
        => ServedInv' /\ CountedInv' /\ InputInv'
  BY ServedStep, CountedStep, InputStep
<1>3. ServedInv /\ ServedInv' /\ CountedInv /\ InputInv /\ [Next]_vars
        => [Abstract!Next]_(Abstract!vars)
  BY ServiceStep
<1> QED
  BY <1>1, <1>2, <1>3, ServiceInit, PTL DEF Spec
=============================================================================
