------------------------------- MODULE Server -------------------------------
(***************************************************************************)
(* The validator server (validator.c): one event loop that registers       *)
(* testers, turns each request into a run process, routes the result of    *)
(* each run back to the tester that asked, and throttles itself when too    *)
(* many runs are active.  serverPc names the system call the loop is at;   *)
(* the statements between two calls belong to the step of the first.       *)
(***************************************************************************)
EXTENDS Posix

CONSTANTS
    SERVER_PROCESS_LIMIT,
    SERVER_FORK_RETRY_COUNT,
    SERVER_TERMINATE_ON_RUN_FAILURE

ASSUME ServerAssumption ==
    /\ SERVER_PROCESS_LIMIT \in Nat \ {0}
    /\ SERVER_FORK_RETRY_COUNT \in Nat \ {0}
    /\ SERVER_TERMINATE_ON_RUN_FAILURE \in BOOLEAN

(* A session of a tester, the session of a run process, and the result of a *)
(* run on its way to a tester.                                              *)
TesterSlot == [queue : Generation, rcd_count : Nat, acc_count : Nat]
RunSlot    == [loc_id : LocIds, tester : Testers]
Verdict    == [pid : Pids, tester : Testers, result : BOOLEAN]

(* The null pointer is no session, no result, no request, no word, no run.  *)
ASSUME NullAssumption ==
    /\ NULL \notin TesterSlot
    /\ NULL \notin RunSlot
    /\ NULL \notin Verdict
    /\ NULL \notin Parse
    /\ NULL \notin Words
    /\ NULL \notin Pids

VARIABLES
    serverPc,
    shouldTerminate, activeTasksCount, throttled_mode,
    runBlocking,       \* runOutputQueue.is_blocking
    reportBlocking,    \* reportQueue.is_blocking
    testerSlots,       \* tester -> its session, NULL when it has none
    runSlots,          \* run -> its session, NULL when it has none
    gotRunMsg,         \* run_term_msg != NULL in this iteration
    answering,         \* the result being sent back, NULL otherwise
    request,           \* the request being served, NULL otherwise
    retry_count,
    spawned,           \* the run the graph is to be pushed to, NULL otherwise
    rcd_count, snt_count, acc_count,
    exitPending,       \* the sessions still to be told to exit
    serverStatus       \* server_status_code

loopVars   == <<shouldTerminate, activeTasksCount, throttled_mode,
                runBlocking, reportBlocking>>
slotVars   == <<testerSlots, runSlots>>
countVars  == <<rcd_count, snt_count, acc_count>>
localVars  == <<gotRunMsg, answering, request, retry_count, spawned>>
endVars    == <<exitPending, serverStatus>>
serverVars == <<serverPc, loopVars, slotVars, countVars, localVars, endVars>>

ServerPcs == {"register", "runs", "answer", "reap", "input", "spawn", "push",
              "failureWait", "broadcast", "unlinkReport", "unlinkRun",
              "unlinkRegister", "finalWait", "onExit", "exitWait", "stopped"}

ServerTypeOK ==
    /\ serverPc \in ServerPcs
    /\ shouldTerminate \in BOOLEAN
    /\ activeTasksCount \in Int
    /\ throttled_mode \in BOOLEAN
    /\ runBlocking \in BOOLEAN
    /\ reportBlocking \in BOOLEAN
    /\ testerSlots \in [Testers -> TesterSlot \cup {NULL}]
    /\ runSlots \in [Pids -> RunSlot \cup {NULL}]
    /\ gotRunMsg \in BOOLEAN
    /\ answering \in Verdict \cup {NULL}
    /\ request \in Parse \cup {NULL}
    /\ retry_count \in 0 .. SERVER_FORK_RETRY_COUNT
    /\ spawned \in Pids \cup {NULL}
    /\ rcd_count \in Nat
    /\ snt_count \in Nat
    /\ acc_count \in Nat
    /\ exitPending \subseteq Testers
    /\ serverStatus \in {0, -1}

ServerInit ==
    /\ serverPc = "register"
    /\ shouldTerminate = FALSE
    /\ activeTasksCount = 0
    /\ throttled_mode = FALSE
    /\ runBlocking = FALSE
    /\ reportBlocking = TRUE
    /\ testerSlots = [t \in Testers |-> NULL]
    /\ runSlots = [w \in Pids |-> NULL]
    /\ gotRunMsg = FALSE
    /\ answering = NULL
    /\ request = NULL
    /\ retry_count = 0
    /\ spawned = NULL
    /\ rcd_count = 0
    /\ snt_count = 0
    /\ acc_count = 0
    /\ exitPending = {}
    /\ serverStatus = 0

Sessions == {t \in Testers : testerSlots[t] # NULL}

(* A fresh session: the tester's queue is opened, and created if need be. *)
NewSession(t) == [queue |-> OpenQueue(t), rcd_count |-> 0, acc_count |-> 0]

(* The operators named Mutant... are plausible slips in the definition that *)
(* follows them.  No action uses them: a run of the project puts one in the *)
(* place of its definition to see a property fail.                          *)

-----------------------------------------------------------------------------
(* Lines 171-197: drain the register events; a new session replaces the one *)
(* the tester may already have.                                             *)
RegisterTester ==
    /\ serverPc = "register"
    /\ HasMessage(registerQ[0])
    /\ registerQ' = Received(registerQ, 0)
    /\ testerSlots' = [testerSlots EXCEPT ![Head(registerQ[0])] =
                         NewSession(Head(registerQ[0]))]
    /\ UNCHANGED <<serverPc, loopVars, runSlots, countVars, localVars, endVars,
                   reportQ, runQ, testerQ, unlinked, processVars, faults>>

(* Line 197: the loop ends when the queue is empty. *)
MutantRegisterOnce == TRUE

Drained == registerQ[0] = <<>>

(* Lines 204 and 239: when the throttled mode begins and ends. *)
MutantLateLock == ~ throttled_mode /\ activeTasksCount > SERVER_PROCESS_LIMIT + 1

ThrottleLock == ~ throttled_mode /\ activeTasksCount > SERVER_PROCESS_LIMIT

MutantLateUnlock(active) == throttled_mode /\ active < SERVER_PROCESS_LIMIT - 1

ThrottleUnlock(active) == throttled_mode /\ active < SERVER_PROCESS_LIMIT

(* Lines 204-221: with no event left, throttle when too many runs are       *)
(* active: prefer their results over new requests.                          *)
Throttle ==
    /\ serverPc = "register"
    /\ Drained
    /\ serverPc' = "runs"
    /\ throttled_mode' = (throttled_mode \/ ThrottleLock)
    /\ runBlocking'    = (runBlocking \/ ThrottleLock)
    /\ reportBlocking' = (reportBlocking /\ ~ ThrottleLock)
    /\ UNCHANGED <<shouldTerminate, activeTasksCount, slotVars, countVars,
                   localVars, endVars, posixVars>>

(* Line 228, nothing to read: only a non-blocking queue returns. *)
NoRunResult ==
    /\ serverPc = "runs"
    /\ runQ[0] = <<>>
    /\ ~ runBlocking
    /\ gotRunMsg' = FALSE
    /\ serverPc' = "reap"
    /\ UNCHANGED <<loopVars, slotVars, countVars, answering, request,
                   retry_count, spawned, endVars, posixVars>>

(* Lines 271-279: the session whose pid matches; with no match the search   *)
(* ends on some other session, the last one.                                *)
MutantNoBreak(slot) == Sessions

MatchSession(slot) ==
    {t \in Sessions : t = slot.tester \/ testerSlots[slot.tester] = NULL}

(* Lines 228-296: one result fewer is awaited, whoever sent it; below the   *)
(* limit the throttle is released; the session of the run names the tester. *)
ReadRunResult ==
    LET msg    == Head(runQ[0])
        slot   == runSlots[msg.pid]
        active == activeTasksCount - 1
        unlock == ThrottleUnlock(active)
        accept == IF msg.result THEN 1 ELSE 0
    IN  /\ serverPc = "runs"
        /\ HasMessage(runQ[0])
        /\ runQ' = Received(runQ, 0)
        /\ gotRunMsg' = TRUE
        /\ activeTasksCount' = active
        /\ throttled_mode' = (throttled_mode /\ ~ unlock)
        /\ runBlocking'    = (runBlocking /\ ~ unlock)
        /\ reportBlocking' = (reportBlocking \/ unlock)
        /\ IF slot = NULL
           THEN /\ serverPc' = "reap"
                /\ UNCHANGED <<answering, snt_count, acc_count, testerSlots>>
           ELSE /\ serverPc' = "answer"
                /\ \E t \in MatchSession(slot) :
                     /\ answering' = [pid |-> msg.pid, tester |-> t,
                                      result |-> msg.result]
                     /\ testerSlots' = [testerSlots EXCEPT ![t].acc_count = @ + accept]
                /\ snt_count' = snt_count + 1
                /\ acc_count' = acc_count + accept
        /\ UNCHANGED <<shouldTerminate, runSlots, rcd_count, request,
                       retry_count, spawned, endVars, registerQ, reportQ,
                       testerQ, unlinked, processVars, faults>>

(* Lines 300-304: the answer, blocking while the tester's queue is full;    *)
(* then the session of the run is removed.                                  *)
SendAnswer ==
    LET t   == answering.tester
        gen == testerSlots[t].queue
    IN  /\ serverPc = "answer"
        /\ HasRoom(testerQ[t][gen])
        /\ testerQ' = [testerQ EXCEPT ![t] =
                         Sent(@, gen, [type |-> "answer",
                                       loc_id |-> runSlots[answering.pid].loc_id,
                                       result |-> answering.result])]
        /\ runSlots' = [runSlots EXCEPT ![answering.pid] = NULL]
        /\ answering' = NULL
        /\ serverPc' = "reap"
        /\ UNCHANGED <<loopVars, testerSlots, countVars, gotRunMsg, request,
                       retry_count, spawned, endVars, registerQ, reportQ, runQ,
                       unlinked, processVars, faults>>

(* Line 346: a failed child is one active task fewer. *)
MutantAnyChildCounts(childrenStatus) ==
    IF childrenStatus # 0 THEN activeTasksCount - 1 ELSE activeTasksCount

ActiveAfterReap(childrenStatus) ==
    IF childrenStatus = -1 THEN activeTasksCount - 1 ELSE activeTasksCount

(* Lines 362-367: no run is active, or none has a session. *)
MutantOneLeft(active) == active <= 1
MutantNeverLeft(active) == active < 0

NothingLeft(active) == active <= 0 \/ \A w \in Pids : runSlots[w] = NULL

(* Lines 346-375: where the loop goes once a run was reaped (or none was):  *)
(* to the exit, to the next request, or round again.                        *)
AfterReap(childrenStatus) ==
    LET active == ActiveAfterReap(childrenStatus)
        force  == /\ NothingLeft(active)
                  /\ shouldTerminate
                  /\ childrenStatus = 0
                  /\ ~ gotRunMsg
    IN  /\ activeTasksCount' = active
        /\ serverPc' = IF force THEN "broadcast"
                       ELSE IF shouldTerminate THEN "register" ELSE "input"
        /\ exitPending' = IF force THEN Sessions ELSE exitPending

Reap(w) == runState' = [runState EXCEPT ![w] = "reaped"]

reapUnchanged == <<shouldTerminate, throttled_mode, runBlocking, reportBlocking,
                   slotVars, countVars, localVars, serverStatus, queueVars,
                   runWord, graphPipe, faults>>

(* Line 320: waitpid(-1, WNOHANG) finds no terminated child. *)
ReapNothing ==
    /\ serverPc = "reap"
    /\ \A w \in Pids : ~ Zombie(w)
    /\ AfterReap(0)
    /\ UNCHANGED <<reapUnchanged, runState>>

(* Line 320: it finds one that returned 0. *)
ReapExited ==
    /\ serverPc = "reap"
    /\ \E w \in Pids : runState[w] = "zombie" /\ Reap(w)
    /\ AfterReap(1)
    /\ UNCHANGED reapUnchanged

(* Lines 321-348: it finds one that failed, and by default goes on. *)
ReapFailed ==
    /\ serverPc = "reap"
    /\ ~ SERVER_TERMINATE_ON_RUN_FAILURE
    /\ \E w \in Pids : runState[w] = "failed" /\ Reap(w)
    /\ AfterReap(-1)
    /\ UNCHANGED reapUnchanged

(* Lines 328-334: built to terminate, it waits for its other children. *)
ReapFatal ==
    /\ serverPc = "reap"
    /\ SERVER_TERMINATE_ON_RUN_FAILURE
    /\ \E w \in Pids : runState[w] = "failed" /\ Reap(w)
    /\ serverPc' = "failureWait"
    /\ UNCHANGED <<reapUnchanged, activeTasksCount, exitPending>>

-----------------------------------------------------------------------------
(* Line 377, nothing to read: only a non-blocking queue returns. *)
NoRequest ==
    /\ serverPc = "input"
    /\ reportQ[0] = <<>>
    /\ ~ reportBlocking
    /\ serverPc' = "register"
    /\ UNCHANGED <<loopVars, slotVars, countVars, localVars, endVars, posixVars>>

(* Lines 384-387: no request is read after this one. *)
TakeExitRequest ==
    /\ serverPc = "input"
    /\ HasMessage(reportQ[0])
    /\ Head(reportQ[0]).type = "exit"
    /\ reportQ' = Received(reportQ, 0)
    /\ shouldTerminate' = TRUE
    /\ serverPc' = "register"
    /\ UNCHANGED <<activeTasksCount, throttled_mode, runBlocking, reportBlocking,
                   slotVars, countVars, localVars, endVars, registerQ, runQ,
                   testerQ, unlinked, processVars, faults>>

(* Lines 390-433: the request is counted, a tester without a session gets   *)
(* one, and the pipe for the graph is made; a failing pipe() is fatal.      *)
TakeRequest ==
    LET msg == Head(reportQ[0])
        session == IF testerSlots[msg.tester] = NULL THEN NewSession(msg.tester)
                   ELSE testerSlots[msg.tester]
    IN  /\ serverPc = "input"
        /\ HasMessage(reportQ[0])
        /\ msg.type = "parse"
        /\ reportQ' = Received(reportQ, 0)
        /\ rcd_count' = rcd_count + 1
        /\ testerSlots' = [testerSlots EXCEPT ![msg.tester] =
                             [session EXCEPT !.rcd_count = @ + 1]]
        /\ \/ /\ request' = msg
              /\ retry_count' = 0
              /\ serverPc' = "spawn"
              /\ UNCHANGED <<serverStatus, faults>>
           \/ /\ Fault("pipe")
              /\ serverPc' = "onExit"
              /\ serverStatus' = -1
              /\ UNCHANGED <<request, retry_count>>
        /\ UNCHANGED <<loopVars, runSlots, snt_count, acc_count, gotRunMsg,
                       answering, spawned, exitPending, registerQ, runQ,
                       testerQ, unlinked, processVars>>

(* Lines 462-478: the run is forked and gets its session. *)
Spawn ==
    /\ serverPc = "spawn"
    /\ \E w \in Pids :
         /\ Fork(w, request.word)
         /\ runSlots' = [runSlots EXCEPT ![w] =
                           [loc_id |-> request.loc_id, tester |-> request.tester]]
         /\ spawned' = w
    /\ request' = NULL
    /\ serverPc' = "push"
    /\ UNCHANGED <<loopVars, testerSlots, countVars, gotRunMsg, answering,
                   retry_count, endVars, queueVars, graphPipe, faults>>

(* Line 465: the retries are used up. *)
MutantOneRetryMore == retry_count + 1 > SERVER_FORK_RETRY_COUNT

GiveUp == retry_count + 1 >= SERVER_FORK_RETRY_COUNT

(* Lines 462-470, 485-496: the fork fails; after the last retry the word is *)
(* omitted.                                                                 *)
SpawnFails ==
    /\ serverPc = "spawn"
    /\ Fault("fork")
    /\ retry_count' = retry_count + 1
    /\ \/ /\ GiveUp
          /\ request' = NULL
          /\ serverPc' = "register"
       \/ /\ ~ GiveUp
          /\ UNCHANGED <<serverPc, request>>
    /\ UNCHANGED <<loopVars, slotVars, countVars, gotRunMsg, answering, spawned,
                   endVars, queueVars, processVars>>

(* Lines 483-484: the graph goes into the pipe of the run, which counts     *)
(* from now on.                                                             *)
PushGraph ==
    /\ serverPc = "push"
    /\ graphPipe' = graphPipe \cup {spawned}
    /\ activeTasksCount' = activeTasksCount + 1
    /\ spawned' = NULL
    /\ serverPc' = "register"
    /\ UNCHANGED <<shouldTerminate, throttled_mode, runBlocking, reportBlocking,
                   slotVars, countVars, gotRunMsg, answering, request,
                   retry_count, endVars, queueVars, runState, runWord, faults>>

-----------------------------------------------------------------------------
(* Lines 334-342: with every child gone, broadcast and fail. *)
MutantFailSilently ==
    /\ serverPc = "failureWait"
    /\ WaitForAll
    /\ serverStatus' = -1
    /\ serverPc' = "unlinkReport"
    /\ UNCHANGED <<loopVars, slotVars, countVars, localVars, exitPending,
                   queueVars, runWord, graphPipe, faults>>

WaitAfterFailure ==
    /\ serverPc = "failureWait"
    /\ WaitForAll
    /\ exitPending' = Sessions
    /\ serverStatus' = -1
    /\ serverPc' = "broadcast"
    /\ UNCHANGED <<loopVars, slotVars, countVars, localVars, queueVars, runWord,
                   graphPipe, faults>>

(* Lines 338-341 and 512-515: "exit" to every session, blocking in turn. *)
BroadcastExit ==
    /\ serverPc = "broadcast"
    /\ \E t \in exitPending :
         /\ HasRoom(testerQ[t][testerSlots[t].queue])
         /\ testerQ' = [testerQ EXCEPT ![t] =
                          Sent(@, testerSlots[t].queue, Exit)]
         /\ exitPending' = exitPending \ {t}
    /\ UNCHANGED <<serverPc, loopVars, slotVars, countVars, localVars,
                   serverStatus, registerQ, reportQ, runQ, unlinked,
                   processVars, faults>>

(* Lines 521-551: the report is printed, the queues of the testers closed.  *)
(* The sessions are destroyed; what they printed stays in testerSlots.      *)
PrintReport ==
    /\ serverPc = "broadcast"
    /\ exitPending = {}
    /\ serverPc' = "unlinkReport"
    /\ UNCHANGED <<loopVars, slotVars, countVars, localVars, endVars, posixVars>>

(* Lines 554-556: the three names are removed, in this order. *)
Unlink(at, name, next) ==
    /\ serverPc = at
    /\ unlinked' = unlinked \cup {name}
    /\ serverPc' = next
    /\ UNCHANGED <<loopVars, slotVars, countVars, localVars, endVars, registerQ,
                   reportQ, runQ, testerQ, processVars, faults>>

RemoveQueues ==
    \/ Unlink("unlinkReport", "report", "unlinkRun")
    \/ Unlink("unlinkRun", "run", "unlinkRegister")
    \/ Unlink("unlinkRegister", "register", "finalWait")

(* Line 564: processWaitForAll. *)
FinalWait ==
    /\ serverPc = "finalWait"
    /\ WaitForAll
    /\ serverPc' = "onExit"
    /\ UNCHANGED <<loopVars, slotVars, countVars, localVars, endVars, queueVars,
                   runWord, graphPipe, faults>>

(* The testerSlots that onExit reads (lines 79 and 91) is the global map,   *)
(* which main shadows at line 115: it never holds a session.                *)
MutantOwnSessions == Sessions

GlobalTesterSlots == {}

(* Lines 84-95, from exit() or the return of main. *)
OnExit ==
    /\ serverPc = "onExit"
    /\ testerQ' = [t \in Testers |->
                     IF t \in GlobalTesterSlots
                     THEN Sent(testerQ[t], testerSlots[t].queue, Exit)
                     ELSE testerQ[t]]
    /\ serverPc' = "exitWait"
    /\ UNCHANGED <<loopVars, slotVars, countVars, localVars, endVars, registerQ,
                   reportQ, runQ, unlinked, processVars, faults>>

(* The collector runs last: it closes what is open and waits for children. *)
ExitWait ==
    /\ serverPc = "exitWait"
    /\ WaitForAll
    /\ serverPc' = "stopped"
    /\ UNCHANGED <<loopVars, slotVars, countVars, localVars, endVars, queueVars,
                   runWord, graphPipe, faults>>

ServerStep ==
    \/ RegisterTester \/ Throttle
    \/ NoRunResult \/ ReadRunResult \/ SendAnswer
    \/ ReapNothing \/ ReapExited \/ ReapFailed \/ ReapFatal
    \/ NoRequest \/ TakeExitRequest \/ TakeRequest
    \/ Spawn \/ SpawnFails \/ PushGraph
    \/ WaitAfterFailure \/ BroadcastExit \/ PrintReport \/ RemoveQueues
    \/ FinalWait \/ OnExit \/ ExitWait
=============================================================================
