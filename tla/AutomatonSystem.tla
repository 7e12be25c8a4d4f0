-------------------------- MODULE AutomatonSystem --------------------------
(***************************************************************************)
(* The whole system: one server, its run processes and the testers, over   *)
(* the queues of Posix.  The properties that need more than one component   *)
(* to hold are stated here.                                                 *)
(***************************************************************************)
EXTENDS Server, Worker, Tester, SequencesExt

vars == <<posixVars, serverVars, workerVars, testerVars>>

Init == PosixInit /\ ServerInit /\ WorkerInit /\ TesterInit

ServerNext == ServerStep /\ UNCHANGED <<workerVars, testerVars>>
RunNext(w) == RunStep(w) /\ UNCHANGED <<serverVars, testerVars>>
CrashNext(w) == Crash(w) /\ UNCHANGED <<serverVars, testerVars>>
TesterNext(t) == TesterStep(t) /\ UNCHANGED <<serverVars, workerVars>>

Finished == serverPc = "stopped" /\ \A t \in Testers : testerPc[t] = "done"
Terminating == Finished /\ UNCHANGED vars

Next ==
    \/ ServerNext
    \/ \E w \in Pids : RunNext(w) \/ CrashNext(w)
    \/ \E t \in Testers : TesterNext(t)
    \/ Terminating

(* The broadcast has one order, that of the table of sessions: as long as a *)
(* queue it has still to write to is full, it may be waiting for that one.  *)
MayWaitForRoom ==
    /\ serverPc = "broadcast"
    /\ \E t \in exitPending : ~ HasRoom(testerQ[t][testerSlots[t].queue])

(* The kernel schedules every process that is not blocked; nobody promises  *)
(* a crash.                                                                 *)
Fairness ==
    /\ WF_vars(ServerNext /\ ~ MayWaitForRoom)
    /\ \A w \in Pids : WF_vars(RunNext(w))
    /\ \A t \in Testers : WF_vars(TesterNext(t))

Spec     == Init /\ [][Next]_vars
FairSpec == Spec /\ Fairness

TypeOK == PosixTypeOK /\ ServerTypeOK /\ WorkerTypeOK /\ TesterTypeOK

-----------------------------------------------------------------------------
(* THE THROTTLE                                                            *)

(* The server never counts more than one run above SERVER_PROCESS_LIMIT     *)
(* (validator.c:204-248), whatever fails.                                   *)
ThrottleBound == activeTasksCount <= SERVER_PROCESS_LIMIT + 1

Computing(w) == runState[w] \in {"boot", "graph", "commit"}

(* While no run fails, as few are between their fork and the send of their  *)
(* result: the throttle limits processes, not just a counter                *)
(* (automaton_config.h:44-52).                                              *)
LiveRunsBound ==
    Cardinality({w \in Pids : Computing(w)}) <= SERVER_PROCESS_LIMIT + 1

(* While no run fails, activeTasksCount is the number of runs whose result  *)
(* has not been read, the run being spawned apart (validator.c:232, 484).   *)
ActiveExact ==
    activeTasksCount =
        Cardinality({w \in Pids : /\ runSlots[w] # NULL
                                  /\ w # spawned
                                  /\ answering # NULL => w # answering.pid})

(* While no run fails, the blocking read of the throttled mode              *)
(* (validator.c:218, 228) never waits for a result nobody will send.        *)
ThrottleNeverStarves ==
    (serverPc = "runs" /\ runBlocking) =>
        HasMessage(runQ[0]) \/ \E w \in Pids : Computing(w)

-----------------------------------------------------------------------------
(* THE ROUTING OF REQUESTS AND ANSWERS                                     *)

(* A result in the queue finds the session of its run, and that session the *)
(* session of its tester: the "missing slot" branches (validator.c:255, 281)*)
(* are dead and no answer is sent to another tester.                        *)
SlotRouting ==
    /\ \A msg \in ToSet(runQ[0]) : runSlots[msg.pid] # NULL
    /\ \A w \in Pids : runSlots[w] # NULL => testerSlots[runSlots[w].tester] # NULL
    /\ answering # NULL =>
         /\ runSlots[answering.pid] # NULL
         /\ runSlots[answering.pid].tester = answering.tester

(* How often request l of tester t is on its way to the server, with the    *)
(* server, with a run, or on its way back: places in queues that hold such  *)
(* a message, and runs.                                                     *)
Slots == Generation \X (1 .. QueueCap)

Held(queues, msgs) ==
    {s \in Slots : s[2] <= Len(queues[s[1]]) /\ queues[s[1]][s[2]] \in msgs}

Requests(t, l) == Held(reportQ, {msg \in Parse : msg.tester = t /\ msg.loc_id = l})
Answers(t, l)  == Held(testerQ[t], {msg \in Answer : msg.loc_id = l})

Runs(t, l) == {w \in Pids : runSlots[w] = [loc_id |-> l, tester |-> t]}

Places(t, l) ==
    Cardinality(Requests(t, l)) + Cardinality(Answers(t, l))
      + Cardinality(Runs(t, l))
      + (IF request # NULL /\ request.tester = t /\ request.loc_id = l THEN 1 ELSE 0)

(* Every request is in at most one place, and in none once it is answered:  *)
(* no answer is duplicated and none comes for a word already printed        *)
(* (tester.c:155-172); the verdict it carries is the automaton's.           *)
AnswerIntegrity ==
    \A t \in Testers :
        /\ \A l \in LocIds :
             Places(t, l) <= (IF results[t][l] # NULL THEN 1 ELSE 0)
        /\ \A g \in Generation : \A msg \in ToSet(testerQ[t][g]) :
             msg.type = "answer" =>
                 msg.result = (results[t][msg.loc_id] \in Accepted)

(* With no fault, a word sent and not answered is somewhere.                *)
NothingLost ==
    faults = 0 => \A t \in Testers, l \in LocIds :
        (results[t][l] # NULL /\ ~ (testerPc[t] = "send" /\ loc_id[t] = l)) =>
            Places(t, l) = 1

(* "exit" is the last message a tester is ever sent (validator.c:512,       *)
(* README.md:149-154): no answer comes behind it.                           *)
ExitLast ==
    \A t \in Testers, g \in Generation : \A i \in 1 .. Len(testerQ[t][g]) :
        testerQ[t][g][i] = Exit => i = Len(testerQ[t][g])

(* A tester that has left its loop has printed every answer that was sent   *)
(* to it, and none is sent to it later.                                     *)
NoUnreadAnswer ==
    \A t \in Testers, g \in Generation :
        testerPc[t] \in {"close", "done"} =>
            \A msg \in ToSet(testerQ[t][g]) : msg.type = "exit"

-----------------------------------------------------------------------------
(* SESSIONS AND THE REPORT                                                 *)

Ending == {"broadcast", "unlinkReport", "unlinkRun", "unlinkRegister",
           "finalWait", "onExit", "exitWait", "stopped"}

(* While no run fails, the server that was told to stop has collected every *)
(* result of the words it accepted and has answered them before it says     *)
(* "exit" to anybody (validator.c:352-370, README.md:377).                  *)
CollectsAll ==
    serverPc \in Ending =>
        /\ \A w \in Pids : runSlots[w] = NULL
        /\ \A g \in Generation : runQ[g] = <<>>
        /\ faults = 0 => snt_count = rcd_count

(* The same when a run has failed, in the build that continues: no result   *)
(* is left in the queue (automaton_config.h:21, README.md:377).             *)
ResultsCollected == serverPc \in Ending => runQ[0] = <<>>

(* The accepted words the report adds up are those of the sessions, though  *)
(* a late registration replaces a session (validator.c:192, 534, 544).      *)
AcceptedAddUp ==
    acc_count = MapThenSumSet(LAMBDA t : testerSlots[t].acc_count, Sessions)

(* The same of the words received.                                          *)
ReceivedAddUp ==
    serverPc = "stopped" =>
        rcd_count = MapThenSumSet(LAMBDA t : testerSlots[t].rcd_count, Sessions)

(* The session that replaces another takes nothing from its tester: not the *)
(* words accepted, not the queue the answers go to.                         *)
SessionsKept ==
    [][\A t \in Sessions :
         /\ testerSlots'[t] # NULL
         /\ testerSlots'[t].acc_count >= testerSlots[t].acc_count
         /\ testerSlots'[t].queue = testerSlots[t].queue]_vars

-----------------------------------------------------------------------------
(* PROGRESS                                                                *)

(* While no run fails and no queue fills up, the server ends once it was told *)
(* to stop (validator.c:352); ServerEnds says what else may happen.         *)
ServerStops == shouldTerminate ~> serverPc = "stopped"

(* The requests and the registrations that nobody reads any more: those of  *)
(* a server past its last read, and those in a queue created anew.          *)
RequestsUnread(gen)      == gen = 1 \/ shouldTerminate \/ serverPc \in Ending
RegistrationsUnread(gen) == gen = 1 \/ serverPc \in Ending

(* A tester is blocked in mq_send (tester.c:69, 127, 139), and for ever.    *)
BlockedInSend(t) ==
    \/ testerPc[t] = "send" /\ ~ HasRoom(reportQ[reportHandle[t]])
    \/ testerPc[t] = "register" /\ ~ HasRoom(registerQ[registerHandle[t]])

SendsInVain(t) ==
    /\ BlockedInSend(t)
    /\ IF testerPc[t] = "send" THEN RequestsUnread(reportHandle[t])
       ELSE RegistrationsUnread(registerHandle[t])

(* The server waits for room in the queue of a tester that waits for room   *)
(* in a queue of the server (validator.c:300, 340, 514).                    *)
ServerHeldUp ==
    \E t \in Sessions :
        /\ \/ serverPc = "answer" /\ answering.tester = t
           \/ serverPc = "broadcast" /\ t \in exitPending
        /\ ~ HasRoom(testerQ[t][testerSlots[t].queue])
        /\ BlockedInSend(t)

(* The server waits for a request, whatever results it has not read         *)
(* (validator.c:377).                                                       *)
ServerIdle == serverPc = "input" /\ reportBlocking /\ reportQ[0] = <<>>

(* While no run fails, every tester terminates unless it or one the server  *)
(* waits for is blocked in a send, the server ended without a session for   *)
(* it, or nobody ever sends the server another request: there is no other   *)
(* way to hang (tester.c:186, README.md:425).                               *)
TestersStop ==
    \A t \in Testers :
        <>[](\/ testerPc[t] = "done" \/ SendsInVain(t)
             \/ serverPc \in Ending /\ t \notin Sessions
             \/ ServerIdle \/ ServerHeldUp)

(* The server that was told to stop, and will read no request again, does   *)
(* not wait for room in the queue of a tester that waits for room in the    *)
(* queue of requests: it could never stop (README.md:377-378).              *)
NoStandoff ==
    \A t \in Testers :
        ~ /\ shouldTerminate
          /\ serverPc = "answer" /\ answering.tester = t
          /\ ~ HasRoom(testerQ[t][testerSlots[t].queue])
          /\ testerPc[t] = "send"
          /\ ~ HasRoom(reportQ[reportHandle[t]])

(* The throttled server waits for a result that nobody will send            *)
(* (validator.c:228).                                                       *)
Starved ==
    /\ serverPc = "runs" /\ runBlocking /\ runQ[0] = <<>>
    /\ \A w \in Pids : ~ Computing(w)

(* The server waits for its runs, and one of them for room in the queue of  *)
(* results (fork.h:112, run.c:161).                                         *)
WaitsInVain ==
    /\ serverPc \in {"failureWait", "finalWait", "exitWait"}
    /\ \E w \in Pids : runState[w] = "commit" /\ ~ HasRoom(runQ[workerRunQ[w]])

(* A server that was told to stop, or whose run has failed in the fail-stop *)
(* build, stops, unless it is held up at one of the three places where it   *)
(* waits for a run or for a tester (validator.c:228, 334, 340).             *)
ServerEnds ==
    (shouldTerminate \/ serverPc = "failureWait")
        ~> (serverPc = "stopped" \/ Starved \/ WaitsInVain \/ ServerHeldUp)

(* A server that terminates abnormally has told the testers it has a        *)
(* session for (README.md:251).                                             *)
AbnormalExitTold ==
    (serverPc = "stopped" /\ serverStatus = -1) =>
        \A t \in Sessions :
            testerPc[t] \notin {"close", "done"} =>
                Exit \in ToSet(testerQ[t][testerSlots[t].queue])

-----------------------------------------------------------------------------
(* THE SYSTEM IMPLEMENTS THE SERVICE                                       *)

RequestOf(msg) == [tester |-> msg.tester, loc_id |-> msg.loc_id, word |-> msg.word]

Phase == CASE serverPc \in Ending -> "closed"
           [] serverPc \notin Ending /\ shouldTerminate -> "draining"
           [] OTHER -> "open"

Waiting ==
    {RequestOf(msg) : msg \in {m \in ToSet(reportQ[0]) \cup ToSet(reportQ[1]) :
                                 m.type = "parse"}}

Working ==
    {[tester |-> runSlots[w].tester, loc_id |-> runSlots[w].loc_id,
      word |-> runWord[w]] : w \in {v \in Pids : runSlots[v] # NULL}}
    \cup (IF request = NULL THEN {} ELSE {RequestOf(request)})

Replies ==
    UNION {{[tester |-> t, loc_id |-> msg.loc_id, result |-> msg.result] :
              msg \in {m \in ToSet(testerQ[t][0]) \cup ToSet(testerQ[t][1]) :
                         m.type = "answer"}} : t \in Testers}

Tallies == [t \in Testers |-> [asked |-> req_count[t], told |-> ans_count[t],
                               accepted |-> accepted_count[t]]]

Abstract == INSTANCE Service WITH
    phase <- Phase, waiting <- Waiting, working <- Working,
    replies <- Replies, tally <- Tallies

(* The processes and queues implement the service of module Service: each   *)
(* request accepted before the stop is answered once with its verdict or    *)
(* omitted, and the server, told to stop, closes.                           *)
ServiceSpec == Abstract!Spec
=============================================================================
